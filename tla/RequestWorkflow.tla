-------------------------- MODULE RequestWorkflow --------------------------
(***************************************************************************)
(* The workflow engine of domain/specialized_service/task_service: a       *)
(* request walks through the steps of its workflow; each step is a set of  *)
(* tasks given to users; closing the last open task of a step moves the    *)
(* request and creates the tasks of the next step.                         *)
(*                                                                         *)
(* The tables dbrequest, dbtask and dbnotification are shared.  Every API  *)
(* call runs in a goroutine of its own (a handler) as a series of separate *)
(* SQL statements with no transaction around them; one action is one       *)
(* statement with the code up to the next one.  The tables of workflows,   *)
(* steps and hierarchy are configuration: constants.                       *)
(*                                                                         *)
(* Indexes are in tenths: step k is 10*k, the verification before step k   *)
(* is 10*k - 1 (the code's k - 0.1), and -10 is the code's -1.             *)
(***************************************************************************)
EXTENDS Integers, FiniteSets

CONSTANTS
    Users, NoUser,      \* rows of dbuser, and a step without assignee
    Parents,            \* Parents[u]: the users above u in dbhierarchy
    Workflows, NoWorkflow,
    Steps,              \* rows of dbworkflow_schema
    Step,               \* Step[s]: the row of step s
    Verification,       \* the name shared by all hierarchical verifications
    NextsChoices,       \* what a user may write in dbtask.nexts
    Verdicts,           \* states a user may give a task
    Edits,              \* states a user may give a request by hand
    Resubmits,          \* may a closed task be sent again with its own state?
    Deletes,            \* may tasks and requests be deleted?
    UpdatesMayFail,     \* may an UPDATE statement be refused?
    InsertsMayFail,     \* may the INSERT of a task or of a wrapped request be refused?
    Handlers,           \* API calls that can be in progress together
    MaxRequests, MaxTasks, MaxCalls   \* bounds

Ended == {"completed", "dismiss", "refused", "canceled"}
Open == {"pending", "running"}
CheckStateIsEnded(state) == state \in Ended

StepRow == [workflow: Workflows, index: Nat \ {0}, user: Users \cup {NoUser},
            optionnal: BOOLEAN, before: BOOLEAN, toCreator: BOOLEAN,
            renamed: BOOLEAN, ownData: BOOLEAN,
            wraps: Workflows \cup {NoWorkflow}]

ASSUME ConfigAssumption ==
    /\ Step \in [Steps -> StepRow]
    /\ Parents \in [Users -> SUBSET Users]
    /\ NoUser \notin Users /\ NoWorkflow \notin Workflows
    /\ Verification \notin Steps
ASSUME InputAssumption ==
    /\ NextsChoices \subseteq SUBSET Workflows
    /\ Verdicts \subseteq Ended \cup {"running"}
    /\ Edits \subseteq Ended \cup {"running"}
    /\ Resubmits \in BOOLEAN /\ Deletes \in BOOLEAN
    /\ UpdatesMayFail \in BOOLEAN /\ InsertsMayFail \in BOOLEAN
ASSUME BoundAssumption == MaxRequests \in Nat /\ MaxTasks \in Nat /\ MaxCalls \in Nat

VARIABLES
    request,        \* dbrequest, by id
    task,           \* dbtask, by id
    notified,       \* the tasks that dbnotification rows point to
    nextRequest, nextTask,   \* the SERIAL sequences of the two tables
    handler,        \* the API calls in progress
    calls,          \* API calls accepted so far
    reached         \* history: the highest index each request was given

vars == <<request, task, notified, nextRequest, nextTask, handler, calls, reached>>

RequestIds == 1 .. MaxRequests
TaskIds == 1 .. MaxTasks
Names == Steps \cup {Verification}
Nexts == SUBSET Workflows      \* dbtask.nexts: the workflows chosen
AllNexts == {}                 \* nexts = "all" or "": no choice made

RequestRow == [exists: BOOLEAN, workflow: Workflows \cup {NoWorkflow}, owner: Users \cup {NoUser},
               state: Open \cup Ended \cup {"none"}, is_close: BOOLEAN, current_index: Int]
TaskRow == [state: Open \cup Ended \cup {"none"}, is_close: BOOLEAN, request: RequestIds \cup {0},
            name: Names, user: Users \cup {NoUser}, nexts: Nexts]
(* One pending creation: prepare a step's task, look for it, insert it, or *)
(* insert a hierarchical verification.  The deepest items come first.      *)
Work == [kind: {"prepare", "task", "insert", "verification"}, name: Names, request: RequestIds,
         user: Users \cup {NoUser}, nexts: Nexts, from: {"request", "task"}, depth: Nat]
HandlerRow == [pc: {"idle", "update", "reread", "request", "others", "advance", "create"},
               user: Users \cup {NoUser}, task: TaskIds \cup {0}, request: RequestIds \cup {0}, name: Names,
               verdict: Open \cup Ended, nexts: Nexts,
               index: Int, ended: BOOLEAN, todo: SUBSET Work]

NoRequest == [exists |-> FALSE, workflow |-> NoWorkflow, owner |-> NoUser,
              state |-> "none", is_close |-> FALSE, current_index |-> 0]
NoTask == [state |-> "none", is_close |-> FALSE, request |-> 0, name |-> Verification,
           user |-> NoUser, nexts |-> AllNexts]
Idle == [pc |-> "idle", user |-> NoUser, task |-> 0, request |-> 0, name |-> Verification,
         verdict |-> "running", nexts |-> AllNexts,
         index |-> 0, ended |-> FALSE, todo |-> {}]

Exists(t) == task[t].state # "none"
TasksOf(r) == {t \in TaskIds : Exists(t) /\ task[t].request = r}
OpenTasks(r) == {t \in TasksOf(r) : task[t].state \in Open}

TypeOK ==
    /\ request \in [RequestIds -> RequestRow]
    /\ task \in [TaskIds -> TaskRow]
    /\ notified \in SUBSET TaskIds
    /\ nextRequest \in 1 .. MaxRequests + 1
    /\ nextTask \in 1 .. MaxTasks + 1
    /\ handler \in [Handlers -> HandlerRow]
    /\ calls \in 0 .. MaxCalls
    /\ reached \in [RequestIds -> Int]

Init ==
    /\ request = [r \in RequestIds |-> NoRequest]
    /\ task = [t \in TaskIds |-> NoTask]
    /\ notified = {}
    /\ nextRequest = 1 /\ nextTask = 1
    /\ handler = [h \in Handlers |-> Idle]
    /\ calls = 0
    /\ reached = [r \in RequestIds |-> 0]

----------------------------------------------------------------------------
(***************************************************************************)
(* Pure parts of the code.                                                 *)
(***************************************************************************)

(* Slips in SetClosureStatus: any state kept; is_close never reset.         *)
KeepsAnyState(row, state) ==
    [row EXCEPT !.state = state, !.is_close = CheckStateIsEnded(state)]
ForgetsToOpen(row, state) ==
    IF CheckStateIsEnded(state)
    THEN [row EXCEPT !.state = state, !.is_close = TRUE]
    ELSE [row EXCEPT !.state = "running"]

(* SetClosureStatus: an ended state closes the row; any other state, or no *)
(* state at all, is rewritten to "running" and opens it.                   *)
SetClosureStatus(row, state) ==
    IF CheckStateIsEnded(state)
    THEN [row EXCEPT !.state = state, !.is_close = TRUE]
    ELSE [row EXCEPT !.state = "running", !.is_close = FALSE]

Floor(i) == 10 * (i \div 10)
StepsAt(w, i) == {s \in Steps : Step[s].workflow = w /\ 10 * Step[s].index = i}
IsOptionnal(name) == name \in Steps /\ Step[name].optionnal
AllOptionnal(S) == \A s \in S : Step[s].optionnal
SomeBefore(S) == \E s \in S : Step[s].before

(* Slip: a refusal goes back like a dismissal.                              *)
RefusalGoesBack(i, verdict) ==
    CASE verdict = "completed"                          -> Floor(i + 10)
      [] verdict \in {"dismiss", "refused"} /\ i >= 10 -> Floor(i - 10)
      [] OTHER                                          -> i

(* Where a verdict moves the index read from the request.                  *)
TargetIndex(i, verdict) ==
    CASE verdict = "completed"            -> Floor(i + 10)
      [] verdict = "dismiss" /\ i >= 10   -> Floor(i - 10)
      [] OTHER                            -> i

(* A mandatory dismissal with no step before it becomes a refusal.         *)
FinalVerdict(i, verdict, optionnal) ==
    IF verdict = "dismiss" /\ i < 10 /\ ~optionnal THEN "refused" ELSE verdict

(* Slips: the step before taken for the next one; optional steps or not.    *)
LooksBehind(w, i) ==
    IF AllOptionnal(StepsAt(w, i)) /\ StepsAt(w, i - 10) = {} THEN "completed" ELSE "running"
LastStepCompletes(w, i) ==
    IF StepsAt(w, i + 10) = {} THEN "completed" ELSE "running"

(* The state given to a request that goes to index i of workflow w.        *)
StateAt(w, i) ==
    LET S == StepsAt(w, i) IN
    CASE AllOptionnal(S) /\ StepsAt(w, i + 10) = {}    -> "completed"
      [] ~AllOptionnal(S) /\ \E s \in S : Step[s].renamed -> "custom"
      [] OTHER                                          -> "running"

HighestOf(a, b) == IF a >= b THEN a ELSE b

Item(kind, name, r, user, nexts, from, depth) ==
    [kind |-> kind, name |-> name, request |-> r, user |-> user, nexts |-> nexts,
     from |-> from, depth |-> depth]

----------------------------------------------------------------------------
(***************************************************************************)
(* Opening a request (RequestService.VerifyDataIntegrity, then Write).     *)
(***************************************************************************)

(* The creator's superiors come first when a first step asks for them.     *)
StartIndex(u, w) ==
    IF Parents[u] # {} /\ SomeBefore(StepsAt(w, 10)) THEN 0 ELSE 10

VerificationWork(names, r, u, d) ==
    {Item("verification", name, r, p, AllNexts, "task", d) : name \in names, p \in Parents[u]}

StepWork(S, r, nexts, from, d) ==
    {Item("prepare", s, r, NoUser, nexts, from, d) : s \in S}

FirstWork(r, u, w, d) ==
    IF StartIndex(u, w) = 0
    THEN VerificationWork({Verification}, r, u, d)
    ELSE StepWork(StepsAt(w, 10), r, AllNexts, "request", d)

(* The INSERT; without any first step handleInitialWorkflow deletes the    *)
(* row again, and nobody else knows its id yet.                            *)
AddRequest(u, w) ==
    /\ nextRequest <= MaxRequests
    /\ nextRequest' = nextRequest + 1
    /\ request' = [request EXCEPT ![nextRequest] =
                      IF FirstWork(nextRequest, u, w, 0) = {} THEN NoRequest
                      ELSE [exists |-> TRUE, workflow |-> w, owner |-> u, state |-> "pending",
                            is_close |-> FALSE, current_index |-> StartIndex(u, w)]]
    /\ reached' = [reached EXCEPT ![nextRequest] = StartIndex(u, w)]

Accept(h) ==
    /\ handler[h].pc = "idle"
    /\ calls < MaxCalls
    /\ calls' = calls + 1

(* The handler goes on with the creations of T, or answers.                *)
WithTodo(row, T) == IF T = {} THEN Idle ELSE [row EXCEPT !.pc = "create", !.todo = T]

CreateRequest(h, u, w) ==
    /\ Accept(h)
    /\ AddRequest(u, w)
    /\ handler' = [handler EXCEPT ![h] =
                      WithTodo([Idle EXCEPT !.user = u], FirstWork(nextRequest, u, w, 0))]
    /\ UNCHANGED <<task, notified, nextTask>>

----------------------------------------------------------------------------
(***************************************************************************)
(* Sending a task back: TableRowService.Update on dbtask.                  *)
(***************************************************************************)

(* VerifyDataIntegrity reads the row: a closed task keeps its state.       *)
SubmitTask(h, u, t, verdict, nexts) ==
    /\ Accept(h)
    /\ Exists(t)
    /\ CheckStateIsEnded(task[t].state) => Resubmits /\ task[t].state = verdict
    /\ handler' = [handler EXCEPT ![h] =
                      [Idle EXCEPT !.pc = "update", !.user = u, !.task = t,
                                   !.request = task[t].request, !.name = task[t].name,
                                   !.verdict = verdict, !.nexts = nexts]]
    /\ UNCHANGED <<request, task, notified, nextRequest, nextTask, reached>>

(* The UPDATE writes what was verified, whatever the row holds by now.     *)
UpdateTask(h) ==
    LET me == handler[h] IN
    /\ me.pc = "update"
    /\ handler' = [handler EXCEPT ![h].pc = "reread"]
    /\ task' = IF Exists(me.task)
               THEN [task EXCEPT ![me.task] =
                        [SetClosureStatus(task[me.task], me.verdict) EXCEPT !.nexts = me.nexts]]
               ELSE task
    /\ UNCHANGED <<request, notified, nextRequest, nextTask, calls, reached>>

(* The UPDATE is refused: Update returns the error.                        *)
UpdateTaskFails(h) ==
    /\ UpdatesMayFail
    /\ handler[h].pc = "update"
    /\ handler' = [handler EXCEPT ![h] = Idle]
    /\ UNCHANGED <<request, task, notified, nextRequest, nextTask, calls, reached>>

(* Update reads the row back and Write goes on with what it finds.  Write's *)
(* DELETE of the notifications names a column dbnotification does not have: *)
(* it is refused, the error is dropped and the notification stays.          *)
RereadTask(h) ==
    LET t == handler[h].task IN
    /\ handler[h].pc = "reread"
    /\ handler' = [handler EXCEPT ![h] =
                      IF CheckStateIsEnded(task[t].state)
                      THEN [@ EXCEPT !.pc = "request", !.verdict = task[t].state,
                                     !.nexts = task[t].nexts]
                      ELSE Idle]
    /\ UNCHANGED <<request, task, notified, nextRequest, nextTask, calls, reached>>

(* Deleting a task is refusing it: DELETE, then Write on the row in memory. *)
DeleteTask(h, u, t) ==
    /\ Deletes
    /\ Accept(h)
    /\ Exists(t)
    /\ task' = [task EXCEPT ![t] = NoTask]
    /\ handler' = [handler EXCEPT ![h] =
                      [Idle EXCEPT !.pc = "request", !.user = u, !.task = t,
                                   !.request = task[t].request, !.name = task[t].name,
                                   !.verdict = "refused", !.nexts = task[t].nexts]]
    /\ UNCHANGED <<request, notified, nextRequest, nextTask, reached>>

ReadRequest(h) ==
    LET r == handler[h].request IN
    /\ handler[h].pc = "request"
    /\ handler' = [handler EXCEPT ![h] =
                      IF request[r].exists
                      THEN [@ EXCEPT !.pc = "others", !.index = request[r].current_index,
                                     !.ended = CheckStateIsEnded(request[r].state)]
                      ELSE Idle]
    /\ UNCHANGED <<request, task, notified, nextRequest, nextTask, calls, reached>>

(* Slips: no look at the others; only at the pending ones; only when the    *)
(* verdict is not a refusal.                                                *)
IgnoresOthers(h) ==
    /\ handler[h].pc = "others"
    /\ handler' = [handler EXCEPT ![h].pc = "advance"]
    /\ UNCHANGED <<request, task, notified, nextRequest, nextTask, calls, reached>>
OnlyPending(h) ==
    LET me == handler[h] IN
    /\ me.pc = "others"
    /\ handler' = [handler EXCEPT ![h] =
                      IF \E t \in TasksOf(me.request) : /\ task[t].state = "pending"
                                                        /\ task[t].name # me.name
                      THEN Idle ELSE [@ EXCEPT !.pc = "advance"]]
    /\ UNCHANGED <<request, task, notified, nextRequest, nextTask, calls, reached>>
RefusalDecides(h) ==
    LET me == handler[h] IN
    /\ me.pc = "others"
    /\ handler' = [handler EXCEPT ![h] =
                      IF /\ me.verdict # "refused"
                         /\ \E t \in OpenTasks(me.request) : task[t].name # me.name
                      THEN Idle ELSE [@ EXCEPT !.pc = "advance"]]
    /\ UNCHANGED <<request, task, notified, nextRequest, nextTask, calls, reached>>

(* Tasks of another name still open: somebody else will move the request.  *)
CheckOthers(h) ==
    LET me == handler[h] IN
    /\ me.pc = "others"
    /\ handler' = [handler EXCEPT ![h] =
                      IF \E t \in OpenTasks(me.request) : task[t].name # me.name
                      THEN Idle ELSE [@ EXCEPT !.pc = "advance"]]
    /\ UNCHANGED <<request, task, notified, nextRequest, nextTask, calls, reached>>

----------------------------------------------------------------------------
(***************************************************************************)
(* The decision of TaskService.Write, from what the handler has read.      *)
(***************************************************************************)

Target(me) == TargetIndex(me.index, me.verdict)
Refuses(me) ==
    /\ FinalVerdict(me.index, me.verdict, IsOptionnal(me.name)) = "refused"
    /\ ~IsOptionnal(me.name)

(* Slip: the new index is not written.                                      *)
KeepsIndex(me, row) ==
    SetClosureStatus(row, IF Refuses(me) THEN "refused" ELSE StateAt(row.workflow, Target(me)))

MovedRequest(me, row) ==
    LET i == Target(me)
        state == IF Refuses(me) THEN "refused" ELSE StateAt(row.workflow, i)
        index == CASE me.ended   -> -10
                   [] Refuses(me) /\ ~me.ended -> row.current_index
                   [] OTHER -> IF SomeBefore(StepsAt(row.workflow, i)) THEN i - 1 ELSE i
    IN [SetClosureStatus(row, state) EXCEPT !.current_index = index]

(* What is created after the move: nothing once the request had ended or   *)
(* is refused; verifications if a step at the target wants them first.     *)
WorkAfter(me, row) ==
    LET i == Target(me)
        S == StepsAt(row.workflow, i)
    IN CASE me.ended \/ Refuses(me) -> {}
         [] ~(me.ended \/ Refuses(me)) /\ ~SomeBefore(S) ->
                StepWork(S, me.request, me.nexts, "task", 0)
         [] OTHER -> IF MovedRequest(me, row).is_close THEN {}
                     ELSE VerificationWork(S, me.request, me.user, 0)

AdvanceRequest(h) ==
    LET me == handler[h]  row == request[me.request] IN
    /\ me.pc = "advance"
    /\ handler' = [handler EXCEPT ![h] = WithTodo(me, WorkAfter(me, row))]
    /\ IF row.exists
       THEN /\ request' = [request EXCEPT ![me.request] = MovedRequest(me, row)]
            /\ reached' = [reached EXCEPT ![me.request] =
                              HighestOf(@, MovedRequest(me, row).current_index)]
       ELSE UNCHANGED <<request, reached>>
    /\ UNCHANGED <<task, notified, nextRequest, nextTask, calls>>

(* UpdateSuperCall's error is dropped: the creations happen all the same.  *)
AdvanceRequestFails(h) ==
    LET me == handler[h] IN
    /\ UpdatesMayFail
    /\ me.pc = "advance"
    /\ handler' = [handler EXCEPT ![h] = WithTodo(me, WorkAfter(me, request[me.request]))]
    /\ UNCHANGED <<request, task, notified, nextRequest, nextTask, calls, reached>>

----------------------------------------------------------------------------
(***************************************************************************)
(* Creating tasks: PrepareAndCreateTask, createTaskAndNotify,              *)
(* createMetaRequest, CreateHierarchicalTask.                              *)
(***************************************************************************)

Due(h) == {x \in handler[h].todo : \A y \in handler[h].todo : y.depth <= x.depth}

(* The step's wrapped workflow is started: on the first steps always, then *)
(* only when the closed task chose it in nexts.                            *)
IsMeta(x) == x.from = "request" \/ Step[x.name].wraps \in x.nexts
AlwaysCreates(x) == TRUE        \* slip: the choice is not looked at
ShouldCreate(x) == x.nexts = AllNexts \/ IsMeta(x)
Wraps(x) == Step[x.name].wraps # NoWorkflow /\ IsMeta(x)

OwnWork(x) ==
    IF ShouldCreate(x) THEN {[x EXCEPT !.kind = "task", !.depth = @ + 1]} ELSE {}

PrepareTask(h, x) ==
    LET me == handler[h]  rest == me.todo \ {x}  w == Step[x.name].wraps IN
    /\ me.pc = "create" /\ x.kind = "prepare"
    /\ IF Wraps(x)
       THEN /\ AddRequest(me.user, w)
            /\ handler' = [handler EXCEPT ![h] = WithTodo(me,
                    rest \cup OwnWork(x) \cup FirstWork(nextRequest, me.user, w, x.depth + 2))]
       ELSE /\ handler' = [handler EXCEPT ![h] = WithTodo(me, rest \cup OwnWork(x))]
            /\ UNCHANGED <<request, nextRequest, reached>>
    /\ UNCHANGED <<task, notified, nextTask, calls>>

(* assign_to_creator gives the task to the user whose call creates it.     *)
AssigneeOf(s, u) == IF Step[s].toCreator THEN u ELSE Step[s].user

(* Slip: only a task still open counts as found.                            *)
StillOpen(x, u) ==
    {t \in OpenTasks(x.request) : /\ ~Step[x.name].ownData
                                  /\ task[t].name = x.name
                                 /\ task[t].user = AssigneeOf(x.name, u)}

(* A step with a template of its own gets a fresh data row each time, so   *)
(* that no task is ever found on it.                                       *)
Duplicates(x, u) ==
    {t \in TasksOf(x.request) : /\ ~Step[x.name].ownData
                                /\ task[t].name = x.name
                                /\ task[t].user = AssigneeOf(x.name, u)}

FindTask(h, x) ==
    LET me == handler[h]  rest == me.todo \ {x} IN
    /\ me.pc = "create" /\ x.kind = "task"
    /\ handler' = [handler EXCEPT ![h] =
                      WithTodo(me, IF Duplicates(x, me.user) # {} THEN rest
                                   ELSE rest \cup {[x EXCEPT !.kind = "insert"]})]
    /\ UNCHANGED <<request, task, notified, nextRequest, nextTask, calls, reached>>

(* No foreign key asks whether the request is still there.                 *)
AddTask(h, x, name, user) ==
    /\ nextTask <= MaxTasks
    /\ handler' = [handler EXCEPT ![h] = WithTodo(handler[h], handler[h].todo \ {x})]
    /\ task' = [task EXCEPT ![nextTask] =
                   [state |-> "pending", is_close |-> FALSE, request |-> x.request,
                    name |-> name, user |-> user, nexts |-> AllNexts]]
    /\ notified' = notified \cup {nextTask}
    /\ nextTask' = nextTask + 1
    /\ UNCHANGED <<request, nextRequest, calls, reached>>

InsertTask(h, x) ==
    /\ handler[h].pc = "create" /\ x.kind = "insert"
    /\ AddTask(h, x, x.name, AssigneeOf(x.name, handler[h].user))

InsertVerification(h, x) ==
    /\ handler[h].pc = "create" /\ x.kind = "verification"
    /\ AddTask(h, x, Verification, x.user)

(* PostgreSQL refuses the INSERT, of the task or of the wrapped request: the *)
(* error is dropped, and the handler goes on with the rest of its creations. *)
InsertFails(h, x) ==
    LET me == handler[h]
        kept == (me.todo \ {x}) \cup (IF x.kind = "prepare" THEN OwnWork(x) ELSE {})
    IN /\ InsertsMayFail
       /\ me.pc = "create"
       /\ x.kind \in {"insert", "verification"} \/ (x.kind = "prepare" /\ Wraps(x))
       /\ handler' = [handler EXCEPT ![h] = WithTodo(me, kept)]
       /\ UNCHANGED <<request, task, notified, nextRequest, nextTask, calls, reached>>

----------------------------------------------------------------------------
(***************************************************************************)
(* Changing a request by hand.                                             *)
(***************************************************************************)
EditRequest(r, state) ==
    /\ request[r].exists
    /\ calls < MaxCalls
    /\ calls' = calls + 1
    /\ request' = [request EXCEPT ![r] = SetClosureStatus(@, state)]
    /\ UNCHANGED <<task, notified, nextRequest, nextTask, handler, reached>>

(* The tasks stay: the code never creates a foreign key, see the README.   *)
DeleteRequest(r) ==
    /\ Deletes
    /\ request[r].exists
    /\ calls < MaxCalls
    /\ calls' = calls + 1
    /\ request' = [request EXCEPT ![r].exists = FALSE]
    /\ UNCHANGED <<task, notified, nextRequest, nextTask, handler, reached>>

----------------------------------------------------------------------------
Call(h) ==
    \/ \E u \in Users, w \in Workflows : CreateRequest(h, u, w)
    \/ \E u \in Users, t \in TaskIds, v \in Verdicts :
           \E n \in NextsChoices \cup {task[t].nexts} : SubmitTask(h, u, t, v, n)
    \/ \E u \in Users, t \in TaskIds : DeleteTask(h, u, t)

Proceed(h) ==
    \/ UpdateTask(h) \/ UpdateTaskFails(h)
    \/ RereadTask(h) \/ ReadRequest(h) \/ CheckOthers(h)
    \/ AdvanceRequest(h) \/ AdvanceRequestFails(h)
    \/ \E x \in Due(h) : \/ PrepareTask(h, x) \/ FindTask(h, x)
                         \/ InsertTask(h, x) \/ InsertVerification(h, x)
                         \/ InsertFails(h, x)

ByHand ==
    \E r \in RequestIds : DeleteRequest(r) \/ \E s \in Edits : EditRequest(r, s)

Next == ByHand \/ \E h \in Handlers : Call(h) \/ Proceed(h)

Spec == Init /\ [][Next]_vars

(* A handler that has started runs to its end: it is a goroutine of the    *)
(* server, and no statement waits for another handler.                     *)
Fairness == \A h \in Handlers : WF_vars(Proceed(h))
=============================================================================
