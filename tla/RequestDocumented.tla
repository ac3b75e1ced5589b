------------------------- MODULE RequestDocumented -------------------------
(* What comments, labels and error texts of the repository say of requests  *)
(* and tasks, and the code does not do: each is violated by a run.          *)
EXTENDS RequestProperties

(* "must have a before hierarchical validation": once a superior has        *)
(* validated, the step itself opens.  It never does: floor(k - 0.1 + 1) is  *)
(* k again, and the verification starts anew.                               *)
VerificationOpensStep ==
    \A t \in TaskIds :
        LET r == task[t].request IN
        task[t].name = Verification /\ task[t].state = "completed" /\ ~Busy(r)
        => \/ request[r].is_close
           \/ \E s \in TasksOf(r) : task[s].name \in Steps /\ Step[task[s].name].before

(* "should be last...": a request is completed only when no mandatory step  *)
(* is left.  Two calls that close the last two tasks of a step together     *)
(* each move the request one step on.                                       *)
CompletedIsLast ==
    \A r \in RequestIds :
        request[r].state = "completed" =>
            \A s \in Steps : Step[s].workflow = request[r].workflow /\ ~Step[s].optionnal =>
                \E t \in TasksOf(r) : task[t].name = s /\ task[t].state \in Ended
=============================================================================
