------------------------- MODULE RequestRefinement -------------------------
(* The workflow engine implements RequestPath: its tables, read as a path.  *)
EXTENDS RequestProperties

(* Where each request stands; the steps with a task in one of these states. *)
At == [r \in RequestIds |-> request[r].current_index]
StepsWith(states) ==
    {p \in RequestIds \X Names :
        \E t \in TasksOf(p[1]) : task[t].name = p[2] /\ task[t].state \in states}

Path == INSTANCE RequestPath WITH
    Requests <- RequestIds,
    Level <- [s \in Steps |-> 10 * Step[s].index],
    at <- At,
    open <- StepsWith(Open),
    done <- StepsWith(Ended)

(* With one call at a time, nothing deleted and no UPDATE refused, the calls *)
(* of the engine add up to a walk along the path: tasks are given out only   *)
(* at the step where the request stands, which leaves it only when the step  *)
(* answered last is the only one open, and at most one step forward.         *)
PathRefined == Path!Spec
=============================================================================
