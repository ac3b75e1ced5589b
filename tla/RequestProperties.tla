------------------------- MODULE RequestProperties -------------------------
(* What the workflow engine of RequestWorkflow promises.                    *)
EXTENDS RequestWorkflow

Busy(r) ==
    \E h \in Handlers : \/ handler[h].request = r /\ handler[h].pc # "idle"
                        \/ \E x \in handler[h].todo : x.request = r

(* state and is_close never disagree, in dbtask and dbrequest, whoever      *)
(* writes the row last: SetClosureStatus is applied on every write path.    *)
ClosureAgrees ==
    /\ \A r \in RequestIds : request[r].is_close <=> request[r].state \in Ended
    /\ \A t \in TaskIds : task[t].is_close <=> task[t].state \in Ended

(* No task belongs to a step its request has not reached yet: Write moves   *)
(* the request before it creates the tasks of the step it moved to.         *)
NoStepAhead ==
    \A t \in TaskIds :
        Exists(t) /\ request[task[t].request].exists /\ task[t].name \in Steps
            => 10 * Step[task[t].name].index <= reached[task[t].request]

(* A call at work has a user, and knows no request beyond the first n - 1;  *)
(* what it still has to create is for such a request and, verifications     *)
(* apart, for a step.                                                       *)
ItemRefers(x, n) == x.request < n /\ (x.kind # "verification" => x.name \in Steps)
RefersBelow(me, n) ==
    /\ me.pc # "idle" => me.user \in Users
    /\ me.pc \notin {"idle", "create"} => me.task \in TaskIds /\ me.request \in RequestIds
    /\ me.request < n
    /\ \A x \in me.todo : ItemRefers(x, n)

(* Rows and calls refer to requests that were once inserted; a task may     *)
(* outlive its request.                                                     *)
References ==
    /\ \A t \in TaskIds : Exists(t) => task[t].request \in RequestIds /\ task[t].request < nextRequest
    /\ \A r \in RequestIds : request[r].exists => r < nextRequest
    /\ \A h \in Handlers : RefersBelow(handler[h], nextRequest)

(* What a call is still to create lies within what its request has reached. *)
ItemWithin(x) ==
    x.kind # "verification" /\ request[x.request].exists
        => 10 * Step[x.name].index <= reached[x.request]
WithinReach == \A h \in Handlers : \A x \in handler[h].todo : ItemWithin(x)

(* A request is never left behind: while it is open somebody has a task to  *)
(* do for it, or a call is still at work on it.  Two users who close the    *)
(* last two tasks of a step together must not both leave the request to     *)
(* the other one.                                                           *)
NeverStranded ==
    \A r \in RequestIds :
        request[r].exists /\ ~request[r].is_close => OpenTasks(r) # {} \/ Busy(r)

(* The request moves only when its step is answered: a task still open then *)
(* belongs to a step that another user has answered already.                *)
StepGate ==
    [][\A r \in RequestIds :
          /\ request[r].exists /\ request'[r].exists
          /\ request'[r].current_index # request[r].current_index
          => \A t \in OpenTasks(r) :
                 \E s \in TasksOf(r) : task[s].name = task[t].name /\ task[s].state \in Ended]_vars

(* Of the tasks on the request's own data a user has one per step, whatever *)
(* the route by which the request came back to the step.                    *)
NoDuplicateTask ==
    \A t, s \in TaskIds :
        /\ Exists(t) /\ Exists(s)
        /\ task[t].request = task[s].request /\ task[t].user = task[s].user
        /\ task[t].name = task[s].name
        /\ task[t].name \in Steps /\ ~Step[task[t].name].ownData
        => t = s

(* A request that has ended leaves nobody with a mandatory step to do.      *)
ClosedLeavesNoMandatoryTask ==
    \A r \in RequestIds :
        request[r].exists /\ request[r].is_close
            => \A t \in OpenTasks(r) : IsOptionnal(task[t].name) \/ task[t].name = Verification

(* An ended request is reopened only by the dismissal of a task it still has *)
(* open: no other late answer brings it back.                               *)
ReopenedByDismissal ==
    [][\A r \in RequestIds :
          request[r].is_close /\ ~request'[r].is_close /\ request'[r].exists
          => \E h \in Handlers : /\ handler[h].request = r /\ handler[h].pc = "advance"
                                 /\ handler[h].verdict = "dismiss"]_vars

(* The tasks of step k + 1 exist only once a task of step k was completed,   *)
(* by somebody who left open what comes next or chose the workflow that the *)
(* step wraps: no verdict and no bookkeeping of Write jumps over a step or  *)
(* opens one that was not chosen.  Holds while no task is canceled or sent  *)
(* again, no third step dismissed and no later optional step refused: these *)
(* give the steps of the index out anew, whatever was chosen.               *)
NextsHonoured ==
    \A t \in TaskIds :
        Exists(t) /\ task[t].name \in Steps /\ Step[task[t].name].index > 1
            => \E s \in TasksOf(task[t].request) :
                   /\ task[s].state = "completed" /\ task[s].name \in Steps
                   /\ Step[task[s].name].index = Step[task[t].name].index - 1
                   /\ \/ task[s].nexts = AllNexts
                      \/ Step[task[t].name].wraps \in task[s].nexts

(* How a request ends is what its users answered: refused, because somebody *)
(* refused a mandatory task; completed, because every step with a mandatory *)
(* task was completed by somebody.                                          *)
VerdictTraced ==
    \A r \in RequestIds :
        /\ request[r].state = "refused" =>
              \E t \in TasksOf(r) : task[t].state \in {"refused", "dismiss"} /\ ~IsOptionnal(task[t].name)
        /\ request[r].state = "completed" =>
              \A s \in Steps : Step[s].workflow = request[r].workflow /\ ~Step[s].optionnal =>
                 \E t \in TasksOf(r) : /\ task[t].state = "completed" /\ task[t].name \in Steps
                                       /\ Step[task[t].name].index = Step[s].index

(* Every request ends, if its users answer their tasks.                     *)
EventuallyClosed == \A r \in RequestIds : request[r].exists ~> request[r].is_close

(* The users: whoever has an open task answers it in the end.               *)
AnswerTask(t) ==
    /\ task[t].state \in Open
    /\ \E h \in Handlers, u \in Users, v \in Verdicts \cap {"completed", "refused"} :
           SubmitTask(h, u, t, v, task[t].nexts)
AnsweredSpec == Spec /\ Fairness /\ \A t \in TaskIds : WF_vars(AnswerTask(t))
=============================================================================
