---------------------------- MODULE Delegations ----------------------------
(***************************************************************************)
(* Delegation of tasks: user_service/delegation_service.go, and the parts  *)
(* of task_service that create, close and withdraw the bound copies which  *)
(* delegates work on.                                                      *)
(*                                                                         *)
(* A delegation makes, for each open task of its owner, a copy bound to    *)
(* the task and a share of the task's data.  Closing a task closes what is *)
(* bound to it, or what it is bound to.  Both are done by goroutines that  *)
(* go on after the call has answered.  One action is one SQL statement     *)
(* with the code up to the next.                                           *)
(*                                                                         *)
(* Requests are walked through here with one verdict, "completed": the     *)
(* other verdicts, and the reads that race before a task's UPDATE, are in  *)
(* RequestWorkflow.                                                        *)
(***************************************************************************)
EXTENDS Integers, SequencesExt, FiniteSets

CONSTANTS
    Users, NoUser,
    Names, NoName,      \* the steps of the workflow
    Level, Assignee,    \* the place of a step, and the user in charge of it
    LastLevel,          \* the place of the last step
    Entities, NoEntity,
    Entity,             \* the entity a step is given to beside its user, if any
    Handlers, NoHandler,
    Alone,              \* the calls that start only when all is at rest
    Daily,              \* does the daily loop run?
    Singles,            \* may one task be delegated, instead of all?
    Delegates,          \* Delegates[u]: the users u may choose
    UpdatesMayFail, InsertsMayFail,
    MaxRequests, MaxTasks, MaxDelegations, MaxCalls   \* bounds

Calls == {"open", "close", "delegate", "end"}
RequestIds == 1 .. MaxRequests
TaskIds == 1 .. MaxTasks
DelegationIds == 1 .. MaxDelegations

ASSUME StepAssumption ==
    /\ IsFiniteSet(Names)
    /\ Level \in [Names -> 1 .. LastLevel] /\ Assignee \in [Names -> Users]
    /\ Entity \in [Names -> Entities \cup {NoEntity}] /\ NoEntity \notin Entities
    /\ Delegates \in [Users -> SUBSET Users]
    /\ NoUser \notin Users /\ NoName \notin Names /\ NoHandler \notin Handlers
ASSUME ModeAssumption ==
    /\ Alone \subseteq Calls /\ Daily \in BOOLEAN /\ Singles \in BOOLEAN
    /\ UpdatesMayFail \in BOOLEAN /\ InsertsMayFail \in BOOLEAN
ASSUME SizeAssumption ==
    /\ LastLevel \in Nat /\ MaxRequests \in Nat /\ MaxTasks \in Nat
    /\ MaxDelegations \in Nat /\ MaxCalls \in Nat

VARIABLES
    place,          \* current_index of each request, 0 before it is opened
    request,        \* its state; history: has it been walked on after its end?
    task,           \* dbtask, by id
    delegation,     \* dbdelegation, by id
    share,          \* dbshare
    nextTask, nextDelegation,   \* the SERIAL sequences
    handler,        \* the API calls in progress
    copying,        \* Trigger's goroutines
    spreading,      \* the runs of UpdateDelegated: a call's own, and the goroutines
    calls           \* API calls accepted so far

vars == <<place, request, task, delegation, share, nextTask, nextDelegation, handler, copying,
          spreading, calls>>

RequestRow == [state: {"none", "running", "ended"}, again: BOOLEAN]

TaskRow == [state: {"none", "open", "closed"}, request: 0 .. MaxRequests,
            name: Names \cup {NoName}, user: Users \cup {NoUser}, bound: 0 .. MaxTasks,
            entity: Entities \cup {NoEntity}]
(* The window: is today before, between or after the two dates?             *)
DelegationRow == [exists: BOOLEAN, window: {"coming", "current", "past"}, from: Users \cup {NoUser},
                  to: Users \cup {NoUser}, task: 0 .. MaxTasks]
ShareRow == [delegation: DelegationIds, from: Users, to: Users, request: RequestIds]
(* One thing a call still has to create or write, its last first.           *)
Item == [kind: {"create", "insert", "owner", "delegates", "rebind", "share", "addShare"},
         request: RequestIds, name: Names, user: Users, bound: 0 .. MaxTasks,
         task: 0 .. MaxTasks, delegation: 0 .. MaxDelegations]
HandlerRow == [pc: {"idle", "update", "reread", "read", "spread", "others", "advance", "create",
                    "trigger", "unshare", "rivals", "withdraw"},
               user: Users \cup {NoUser}, task: 0 .. MaxTasks, bound: 0 .. MaxTasks,
               at: -1 .. LastLevel + 1, ended: BOOLEAN, delegation: 0 .. MaxDelegations,
               todo: Seq(Item)]
Copy == [delegation: DelegationIds, task: TaskIds, pc: {"share", "addShare", "look", "add"}]
Spread == [task: TaskIds, bound: 0 .. MaxTasks, closes: BOOLEAN, by: Handlers \cup {NoHandler},
           pc: {"up", "upWrite", "down", "downWrite"}, above: 0 .. MaxTasks, rows: SUBSET TaskIds]

NoTask == [state |-> "none", request |-> 0, name |-> NoName, user |-> NoUser, bound |-> 0,
           entity |-> NoEntity]
NoDelegation == [exists |-> FALSE, window |-> "coming", from |-> NoUser, to |-> NoUser, task |-> 0]
Idle == [pc |-> "idle", user |-> NoUser, task |-> 0, bound |-> 0, at |-> 0, ended |-> FALSE,
         delegation |-> 0, todo |-> <<>>]

Exists(t) == task[t].state # "none"
IsOpen(t) == task[t].state = "open"
TasksOf(r) == {t \in TaskIds : Exists(t) /\ task[t].request = r}
Current(d) == delegation[d].exists /\ delegation[d].window = "current"

(* Nobody is at work: no call, and no goroutine that a call has left.       *)
AtRest == /\ \A h \in Handlers : handler[h].pc = "idle"
          /\ copying = {} /\ spreading = {}

TypeOK ==
    /\ place \in [RequestIds -> -1 .. LastLevel + 1]
    /\ request \in [RequestIds -> RequestRow]
    /\ \A r \in RequestIds : request[r].state # "ended" => place[r] <= LastLevel
    /\ task \in [TaskIds -> TaskRow]
    /\ delegation \in [DelegationIds -> DelegationRow]
    /\ share \subseteq ShareRow
    /\ nextTask \in 1 .. MaxTasks + 1 /\ nextDelegation \in 1 .. MaxDelegations + 1
    /\ handler \in [Handlers -> HandlerRow]
    /\ \A h \in Handlers : ~handler[h].ended => handler[h].at <= LastLevel
    /\ copying \subseteq Copy /\ spreading \subseteq Spread
    /\ calls \in 0 .. MaxCalls

Init ==
    /\ place = [r \in RequestIds |-> 0]
    /\ request = [r \in RequestIds |-> [state |-> "none", again |-> FALSE]]
    /\ task = [t \in TaskIds |-> NoTask]
    /\ delegation = [d \in DelegationIds |-> NoDelegation]
    /\ share = {}
    /\ nextTask = 1 /\ nextDelegation = 1
    /\ handler = [h \in Handlers |-> Idle]
    /\ copying = {} /\ spreading = {}
    /\ calls = 0

Accept(h, call) ==
    /\ handler[h].pc = "idle"
    /\ call \in Alone => AtRest
    /\ calls < MaxCalls
    /\ calls' = calls + 1

----------------------------------------------------------------------------
(***************************************************************************)
(* Creating tasks: createTaskAndNotify and CreateDelegated, which call     *)
(* each other, as a stack of things to do.                                 *)
(***************************************************************************)

Create(r, name, user, bound, parent) ==
    [kind |-> "create", request |-> r, name |-> name, user |-> user, bound |-> bound,
     task |-> parent, delegation |-> 0]

(* The call goes on with a stack, or answers.                               *)
Doing(me, todo) == IF todo = <<>> THEN Idle ELSE [me EXCEPT !.pc = "create", !.todo = todo]
Does(h, kind) == handler[h].pc = "create" /\ Head(handler[h].todo).kind = kind
(* The first thing is replaced by others.                                   *)
Replace(h, items) ==
    handler' = [handler EXCEPT ![h] = Doing(@, items \o Tail(@.todo))]

StepsAt(i) == {n \in Names : Level[n] = i}
FirstItems(r, f) == [i \in DOMAIN f |-> Create(r, f[i], Assignee[f[i]], 0, 0)]

(* Opening a request gives out its first steps.  (One without first steps   *)
(* is deleted again.)                                                       *)
OpenRequest(h, u, r) ==
    /\ Accept(h, "open")
    /\ request[r].state = "none" /\ \A q \in RequestIds : q < r => request[q].state # "none"
    /\ StepsAt(1) # {}
    /\ place' = [place EXCEPT ![r] = 1]
    /\ request' = [request EXCEPT ![r].state = "running"]
    /\ \E f \in SetToSeqs(StepsAt(1)) :
          handler' = [handler EXCEPT ![h] = Doing([Idle EXCEPT !.user = u], FirstItems(r, f))]
    /\ UNCHANGED <<task, delegation, share, nextTask, nextDelegation, copying, spreading>>

(* The same task of the same user, open or closed, stops the creation.      *)
FindTask(h) ==
    LET x == Head(handler[h].todo)
        found == {t \in TasksOf(x.request) : task[t].name = x.name /\ task[t].user = x.user}
    IN /\ Does(h, "create")
       /\ Replace(h, IF found # {} THEN <<>> ELSE <<[x EXCEPT !.kind = "insert"]>>)
       /\ UNCHANGED <<place, request, task, delegation, share, nextTask, nextDelegation, copying, spreading, calls>>

AddTask(row) ==
    /\ nextTask <= MaxTasks
    /\ nextTask' = nextTask + 1
    /\ task' = [task EXCEPT ![nextTask] = row]

(* Once inserted, the task is given to the owner of the original, when the  *)
(* task just closed was a copy, and to the delegates of its user; then a    *)
(* parent is bound to it.                                                   *)
InsertTask(h) ==
    LET x == Head(handler[h].todo)
        next(kind) == [x EXCEPT !.kind = kind, !.task = nextTask]
        parent == IF x.task = 0 THEN <<>> ELSE <<[x EXCEPT !.kind = "rebind", !.bound = nextTask]>>
    IN /\ Does(h, "insert")
       /\ AddTask([state |-> "open", request |-> x.request, name |-> x.name, user |-> x.user,
                   bound |-> x.bound, entity |-> Entity[x.name]])
       /\ Replace(h, <<next("owner"), next("delegates")>> \o parent)
       /\ UNCHANGED <<place, request, delegation, share, nextDelegation, copying, spreading, calls>>

InsertFails(h) ==
    /\ InsertsMayFail
    /\ Does(h, "insert")
    /\ Replace(h, <<>>)
    /\ UNCHANGED <<place, request, task, delegation, share, nextTask, nextDelegation, copying, spreading, calls>>

(* The closed task was a copy: the owner of its original gets the new step  *)
(* too, and the new task is bound to his.                                   *)
GiveOwner(h) ==
    LET x == Head(handler[h].todo)  b == handler[h].bound IN
    /\ Does(h, "owner")
    /\ Replace(h, IF b = 0 \/ ~Exists(b) THEN <<>>
                  ELSE <<Create(x.request, x.name, task[b].user, 0, x.task)>>)
    /\ UNCHANGED <<place, request, task, delegation, share, nextTask, nextDelegation, copying, spreading, calls>>

(* An UPDATE of one column, which PostgreSQL takes.                         *)
Rebind(h) ==
    LET x == Head(handler[h].todo) IN
    /\ Does(h, "rebind")
    /\ task' = IF Exists(x.task) THEN [task EXCEPT ![x.task].bound = x.bound] ELSE task
    /\ Replace(h, <<>>)
    /\ UNCHANGED <<place, request, delegation, share, nextTask, nextDelegation, copying, spreading, calls>>

(* Slip: the copies of the delegates are bound to nothing.                  *)
UnboundItems(x, f) ==
    [i \in 1 .. 2 * Len(f) |->
        LET d == f[(i + 1) \div 2] IN
        IF i % 2 = 1 THEN Create(x.request, x.name, delegation[d].to, 0, 0)
        ELSE [x EXCEPT !.kind = "share", !.delegation = d]]

(* Slip: bound to the id of the delegation.                                 *)
MisboundItems(x, f) ==
    [i \in 1 .. 2 * Len(f) |->
        LET d == f[(i + 1) \div 2] IN
        IF i % 2 = 1 THEN Create(x.request, x.name, delegation[d].to, d, 0)
        ELSE [x EXCEPT !.kind = "share", !.delegation = d]]

(* For each delegation, in some order, a copy for the delegate and a share. *)
DelegateItems(x, f) ==
    [i \in 1 .. 2 * Len(f) |->
        LET d == f[(i + 1) \div 2] IN
        IF i % 2 = 1 THEN Create(x.request, x.name, delegation[d].to, x.task, 0)
        ELSE [x EXCEPT !.kind = "share", !.delegation = d]]

(* The current delegations of all tasks, but to the user of this call.      *)
GiveDelegates(h) ==
    LET x == Head(handler[h].todo)
        S == {d \in DelegationIds : /\ Current(d) /\ delegation[d].task = 0
                                    /\ delegation[d].from = x.user
                                    /\ delegation[d].to # handler[h].user}
    IN /\ Does(h, "delegates")
       /\ \E f \in SetToSeqs(S) : Replace(h, DelegateItems(x, f))
       /\ UNCHANGED <<place, request, task, delegation, share, nextTask, nextDelegation, copying, spreading, calls>>

(* Slip: the two users of a share taken for each other.                     *)
SwappedShare(d, r) == [delegation |-> d, from |-> delegation[d].to, to |-> delegation[d].from, request |-> r]
ShareOf(d, r) == [delegation |-> d, from |-> delegation[d].from, to |-> delegation[d].to, request |-> r]

FindShare(h) ==
    LET x == Head(handler[h].todo) IN
    /\ Does(h, "share")
    /\ Replace(h, IF ShareOf(x.delegation, x.request) \in share THEN <<>>
                  ELSE <<[x EXCEPT !.kind = "addShare"]>>)
    /\ UNCHANGED <<place, request, task, delegation, share, nextTask, nextDelegation, copying, spreading, calls>>

AddShare(h) ==
    LET x == Head(handler[h].todo) IN
    /\ Does(h, "addShare")
    /\ share' = share \cup {ShareOf(x.delegation, x.request)}
    /\ Replace(h, <<>>)
    /\ UNCHANGED <<place, request, task, delegation, nextTask, nextDelegation, copying, spreading, calls>>

----------------------------------------------------------------------------
(***************************************************************************)
(* Closing a task: VerifyDataIntegrity, the UPDATE, then Write.            *)
(***************************************************************************)

(* A task closed already may be closed again: its state does not change.    *)
SubmitTask(h, u, t) ==
    /\ Accept(h, "close")
    /\ Exists(t) /\ task[t].user = u
    /\ handler' = [handler EXCEPT ![h] = [Idle EXCEPT !.pc = "update", !.user = u, !.task = t]]
    /\ UNCHANGED <<place, request, task, delegation, share, nextTask, nextDelegation, copying, spreading>>

UpdateTask(h) ==
    LET t == handler[h].task IN
    /\ handler[h].pc = "update"
    /\ task' = IF Exists(t) THEN [task EXCEPT ![t].state = "closed"] ELSE task
    /\ handler' = [handler EXCEPT ![h].pc = "reread"]
    /\ UNCHANGED <<place, request, delegation, share, nextTask, nextDelegation, copying, spreading, calls>>

(* The rows written are read back; a copy withdrawn meanwhile is not there. *)
RereadTask(h) ==
    LET t == handler[h].task IN
    /\ handler[h].pc = "reread"
    /\ handler' = [handler EXCEPT ![h] =
                      IF IsOpen(t) \/ ~Exists(t) THEN Idle ELSE [@ EXCEPT !.pc = "read", !.bound = task[t].bound]]
    /\ UNCHANGED <<place, request, task, delegation, share, nextTask, nextDelegation, copying, spreading, calls>>

Run(t, bound, closes, by) ==
    [task |-> t, bound |-> bound, closes |-> closes, by |-> by, pc |-> "up", above |-> 0, rows |-> {}]

(* The request is read before the bound tasks are looked at.                *)
ReadRequest(h) ==
    LET me == handler[h]  r == task[me.task].request IN
    /\ me.pc = "read"
    /\ handler' = [handler EXCEPT ![h].pc = "spread", ![h].at = place[r],
                                  ![h].ended = (request[r].state = "ended")]
    /\ spreading' = spreading \cup {Run(me.task, me.bound, TRUE, h)}
    /\ UNCHANGED <<place, request, task, delegation, share, nextTask, nextDelegation, copying, calls>>

(* Tasks of another name still open: the request stays.                     *)
CheckOthers(h) ==
    LET t == handler[h].task IN
    /\ handler[h].pc = "others"
    /\ handler' = [handler EXCEPT ![h] =
                      IF \E s \in TasksOf(task[t].request) : IsOpen(s) /\ task[s].name # task[t].name
                      THEN Idle ELSE [@ EXCEPT !.pc = "advance"]]
    /\ UNCHANGED <<place, request, task, delegation, share, nextTask, nextDelegation, copying, spreading, calls>>

(* Slip: the step before is looked at, instead of the one after.            *)
LooksBehind(i) == IF StepsAt(i) = {} /\ StepsAt(i - 1) = {} THEN "ended" ELSE "running"
StateAt(i) == IF StepsAt(i) = {} /\ StepsAt(i + 1) = {} THEN "ended" ELSE "running"

(* The request moves on.  One that had ended gets the index -1 and nothing  *)
(* is created, but its state is that of the next index: answered again, it  *)
(* goes from -1 back to its first steps.                                    *)
AdvanceRequest(h) ==
    LET me == handler[h]  r == task[me.task].request  i == me.at + 1 IN
    /\ me.pc = "advance"
    /\ \/ /\ place' = [place EXCEPT ![r] = IF me.ended THEN -1 ELSE i]
          /\ request' = [request EXCEPT ![r].state = StateAt(i),
                                        ![r].again = @ \/ (me.ended /\ StateAt(i) = "running")]
       \/ UpdatesMayFail /\ UNCHANGED <<place, request>>
    /\ \E f \in SetToSeqs(IF me.ended THEN {} ELSE StepsAt(i)) :
          handler' = [handler EXCEPT ![h] = Doing(me, FirstItems(r, f))]
    /\ UNCHANGED <<task, delegation, share, nextTask, nextDelegation, copying, spreading, calls>>

----------------------------------------------------------------------------
(***************************************************************************)
(* UpdateDelegated: what is written on a task is written on what it is     *)
(* bound to and on what is bound to it.                                    *)
(***************************************************************************)

(* A run changes; when it is over, the call it belongs to goes on.          *)
Becomes(p, q) ==
    /\ spreading' = (spreading \ {p}) \cup {q}
    /\ UNCHANGED handler
Ends(p) ==
    /\ spreading' = spreading \ {p}
    /\ handler' = IF p.by = NoHandler THEN handler ELSE [handler EXCEPT ![p.by].pc = "others"]

FindAbove(p) ==
    /\ p.pc = "up"
    /\ Becomes(p, IF p.bound # 0 /\ IsOpen(p.bound)
                  THEN [p EXCEPT !.pc = "upWrite", !.above = task[p.bound].bound]
                  ELSE [p EXCEPT !.pc = "down"])
    /\ UNCHANGED <<place, request, task, delegation, share, nextTask, nextDelegation, copying, calls>>

(* Slip: the state is left out of what is written.                          *)
ForgetsState(row, p, bound) == [row EXCEPT !.bound = bound]
(* The UPDATE writes the state of the task the run was started for, as it   *)
(* was read then; the goroutine it starts has the row as it was before.     *)
Written(row, p, bound) == [row EXCEPT !.state = IF p.closes THEN "closed" ELSE "open", !.bound = bound]
Writes(t, p, bound) ==
    \/ task' = IF Exists(t) THEN [task EXCEPT ![t] = Written(@, p, bound)] ELSE task
    \/ UpdatesMayFail /\ UNCHANGED task

WriteAbove(p) ==
    /\ p.pc = "upWrite"
    /\ Writes(p.bound, p, p.bound)
    /\ spreading' = (spreading \ {p}) \cup {[p EXCEPT !.pc = "down"],
                                            Run(p.bound, p.above, FALSE, NoHandler)}
    /\ UNCHANGED <<place, request, delegation, share, nextTask, nextDelegation, handler, copying, calls>>

(* Slip: closed tasks are written again.                                    *)
BelowEvenClosed(p) == {t \in TaskIds : Exists(t) /\ task[t].bound = p.task}
Below(p) == {t \in TaskIds : IsOpen(t) /\ task[t].bound = p.task}

FindBelow(p) ==
    LET rows == Below(p) IN
    /\ p.pc = "down"
    /\ IF rows = {} THEN Ends(p) ELSE Becomes(p, [p EXCEPT !.pc = "downWrite", !.rows = rows])
    /\ UNCHANGED <<place, request, task, delegation, share, nextTask, nextDelegation, copying, calls>>

WriteBelow(p, t) ==
    LET rest == IF p.rows = {t} THEN {} ELSE {[p EXCEPT !.rows = @ \ {t}]} IN
    /\ p.pc = "downWrite" /\ t \in p.rows
    /\ Writes(t, p, p.task)
    /\ spreading' = (spreading \ {p}) \cup rest \cup {Run(t, p.task, FALSE, NoHandler)}
    /\ handler' = IF p.rows = {t} /\ p.by # NoHandler THEN [handler EXCEPT ![p.by].pc = "others"]
                  ELSE handler
    /\ UNCHANGED <<place, request, delegation, share, nextTask, nextDelegation, copying, calls>>

----------------------------------------------------------------------------
(***************************************************************************)
(* Delegations: SpecializedCreateRow, SpecializedUpdateRow and Trigger.    *)
(***************************************************************************)

Triggers(h, u, d) ==
    handler' = [handler EXCEPT ![h] =
                   IF delegation'[d].window = "current"
                   THEN [Idle EXCEPT !.pc = "trigger", !.user = u, !.delegation = d] ELSE Idle]

(* t = 0 delegates all tasks.                                               *)
CreateDelegation(h, u, v, t, window) ==
    /\ Accept(h, "delegate")
    /\ u # v /\ v \in Delegates[u]
    /\ nextDelegation <= MaxDelegations
    /\ nextDelegation' = nextDelegation + 1
    /\ delegation' = [delegation EXCEPT ![nextDelegation] =
                         [exists |-> TRUE, window |-> window, from |-> u, to |-> v, task |-> t]]
    /\ Triggers(h, u, nextDelegation)
    /\ UNCHANGED <<place, request, task, share, nextTask, copying, spreading>>

(* Whatever is changed in the row of a current delegation, it is triggered. *)
UpdateDelegation(h, u, d) ==
    /\ Accept(h, "delegate")
    /\ delegation[d].exists /\ delegation[d].from = u
    /\ UNCHANGED delegation
    /\ Triggers(h, u, d)
    /\ UNCHANGED <<place, request, task, share, nextTask, nextDelegation, copying, spreading>>

(* A day begins or ends.                                                    *)
Today(d, window) ==
    /\ delegation[d].exists
    /\ <<delegation[d].window, window>> \in {<<"coming", "current">>, <<"current", "past">>}
    /\ "delegate" \in Alone => AtRest
    /\ delegation' = [delegation EXCEPT ![d].window = window]
    /\ UNCHANGED <<place, request, task, share, nextTask, nextDelegation, handler, copying, spreading, calls>>

(* The entities of all tasks of a user, open or closed.                     *)
EntitiesOf(u) == {task[t].entity : t \in {s \in TaskIds : Exists(s) /\ task[s].user = u}} \ {NoEntity}

(* One goroutine for each open task of the owner, or of an entity of his    *)
(* tasks; for a single task the same statements, which the call goes        *)
(* through itself.                                                          *)
Trigger(h) ==
    LET d == handler[h].delegation
        from == delegation[d].from
        rows == {t \in TaskIds : IsOpen(t) /\ IF delegation[d].task = 0
                                              THEN \/ task[t].user = from
                                                   \/ task[t].entity \in EntitiesOf(from)
                                              ELSE t = delegation[d].task}
    IN /\ handler[h].pc = "trigger"
       /\ copying' = copying \cup {[delegation |-> d, task |-> t, pc |-> "share"] : t \in rows}
       /\ handler' = [handler EXCEPT ![h] = Idle]
       /\ UNCHANGED <<place, request, task, delegation, share, nextTask, nextDelegation, spreading, calls>>

Goes(c, pc) == copying' = (copying \ {c}) \cup {[c EXCEPT !.pc = pc]}

(* A share of the same data between the same users will do, for all tasks;  *)
(* for a single task it must be of this delegation.                         *)
FindCopyShare(c) ==
    LET new == ShareOf(c.delegation, task[c.task].request)
        will(s) == IF delegation[c.delegation].task = 0
                   THEN /\ s.from = new.from /\ s.to = new.to /\ s.request = new.request
                        /\ delegation[s.delegation].window = "current"
                   ELSE s = new
    IN /\ c.pc = "share"
       /\ Goes(c, IF \E s \in share : will(s) THEN "look" ELSE "addShare")
       /\ UNCHANGED <<place, request, task, delegation, share, nextTask, nextDelegation, handler, spreading, calls>>

AddCopyShare(c) ==
    /\ c.pc = "addShare"
    /\ share' = share \cup {ShareOf(c.delegation, task[c.task].request)}
    /\ Goes(c, "look")
    /\ UNCHANGED <<place, request, task, delegation, nextTask, nextDelegation, handler, spreading, calls>>

(* Slip: the delegate's tasks are not looked at.                            *)
CopiesAgain(c) ==
    /\ c.pc = "look"
    /\ Goes(c, "add")
    /\ UNCHANGED <<place, request, task, delegation, share, nextTask, nextDelegation, handler, spreading, calls>>

(* Any task of the delegate on the request, whatever its step, open or      *)
(* closed, stops the copy.                                                  *)
FindCopy(c) ==
    /\ c.pc = "look"
    /\ IF \E t \in TasksOf(task[c.task].request) : task[t].user = delegation[c.delegation].to
       THEN copying' = copying \ {c} ELSE Goes(c, "add")
    /\ UNCHANGED <<place, request, task, delegation, share, nextTask, nextDelegation, handler, spreading, calls>>

(* The copy is open as its original was when the goroutine started.         *)
AddCopy(c) ==
    /\ c.pc = "add"
    /\ \/ AddTask([task[c.task] EXCEPT !.state = "open", !.bound = c.task, !.entity = NoEntity,
                                       !.user = delegation[c.delegation].to])
       \/ InsertsMayFail /\ UNCHANGED <<task, nextTask>>
    /\ copying' = copying \ {c}
    /\ UNCHANGED <<place, request, delegation, share, nextDelegation, handler, spreading, calls>>

----------------------------------------------------------------------------
(***************************************************************************)
(* The end of a delegation: SpecializedDeleteRow, and the daily loop.      *)
(***************************************************************************)

DeletesRow(h, u, d) ==
    /\ Accept(h, "end")
    /\ delegation[d].exists
    /\ delegation' = [delegation EXCEPT ![d].exists = FALSE]
    /\ handler' = [handler EXCEPT ![h] = [Idle EXCEPT !.pc = "unshare", !.user = u, !.delegation = d]]
    /\ UNCHANGED <<place, request, task, share, nextTask, nextDelegation, copying, spreading>>

DeleteDelegation(h, u, d) == delegation[d].from = u /\ DeletesRow(h, u, d)

(* VerifyLoop, as the super administrator: what is past is deleted, what    *)
(* has begun is triggered.                                                  *)
ExpireDaily(h, d) == Daily /\ delegation[d].window = "past" /\ DeletesRow(h, NoUser, d)
TriggerDaily(h, d) ==
    /\ Daily
    /\ Accept(h, "delegate")
    /\ Current(d)
    /\ handler' = [handler EXCEPT ![h] = [Idle EXCEPT !.pc = "trigger", !.delegation = d]]
    /\ UNCHANGED <<place, request, task, delegation, share, nextTask, nextDelegation, copying, spreading>>

(* Slip: only of a delegation that is still there.                          *)
SharesOfLiving(d) == {s \in share : s.delegation = d /\ Current(d)}
SharesOf(d) == {s \in share : s.delegation = d}

DeleteShares(h) ==
    /\ handler[h].pc = "unshare"
    /\ share' = share \ SharesOf(handler[h].delegation)
    /\ handler' = [handler EXCEPT ![h].pc = "rivals"]
    /\ UNCHANGED <<place, request, task, delegation, nextTask, nextDelegation, copying, spreading, calls>>

(* Another current delegation between the two keeps the copies.             *)
(* Slip: one that has not begun keeps them too.                             *)
RivalsToCome(d) ==
    {e \in DelegationIds : /\ delegation[e].exists /\ delegation[e].window # "past"
                           /\ delegation[e].from = delegation[d].from
                           /\ delegation[e].to = delegation[d].to}
Rivals(d) ==
    {e \in DelegationIds : /\ Current(e)
                           /\ delegation[e].from = delegation[d].from
                           /\ delegation[e].to = delegation[d].to}

FindRivals(h) ==
    /\ handler[h].pc = "rivals"
    /\ handler' = [handler EXCEPT ![h] = IF Rivals(@.delegation) # {} THEN Idle
                                         ELSE [@ EXCEPT !.pc = "withdraw"]]
    /\ UNCHANGED <<place, request, task, delegation, share, nextTask, nextDelegation, copying, spreading, calls>>

(* The open copies bound to tasks of the user of this call are deleted.     *)
WithdrawCopies(h) ==
    LET me == handler[h]
        mine == {t \in TaskIds : Exists(t) /\ task[t].user = me.user}
        copies == {t \in TaskIds : /\ IsOpen(t) /\ task[t].user = delegation[me.delegation].to
                                   /\ task[t].bound \in mine}
    IN /\ me.pc = "withdraw"
       /\ task' = [t \in TaskIds |-> IF t \in copies THEN [task[t] EXCEPT !.state = "none"] ELSE task[t]]
       /\ handler' = [handler EXCEPT ![h] = Idle]
       /\ UNCHANGED <<place, request, delegation, share, nextTask, nextDelegation, copying, spreading, calls>>

----------------------------------------------------------------------------
Call(h) ==
    \/ \E u \in Users, r \in RequestIds : OpenRequest(h, u, r)
    \/ \E u \in Users, t \in TaskIds : SubmitTask(h, u, t)
    \/ \E u, v \in Users, w \in {"coming", "current"}, t \in {0} \cup (IF Singles THEN TaskIds ELSE {}) :
           (t # 0 => Exists(t) /\ task[t].user = u) /\ CreateDelegation(h, u, v, t, w)
    \/ \E u \in Users, d \in DelegationIds : UpdateDelegation(h, u, d) \/ DeleteDelegation(h, u, d)
    \/ \E d \in DelegationIds : ExpireDaily(h, d) \/ TriggerDaily(h, d)

Proceed(h) ==
    \/ FindTask(h) \/ InsertTask(h) \/ InsertFails(h) \/ GiveOwner(h) \/ Rebind(h)
    \/ GiveDelegates(h) \/ FindShare(h) \/ AddShare(h)
    \/ UpdateTask(h) \/ RereadTask(h) \/ ReadRequest(h) \/ CheckOthers(h) \/ AdvanceRequest(h)
    \/ Trigger(h) \/ DeleteShares(h) \/ FindRivals(h) \/ WithdrawCopies(h)

SpreadStep ==
    \E p \in spreading : \/ FindAbove(p) \/ WriteAbove(p) \/ FindBelow(p)
                         \/ \E t \in p.rows : WriteBelow(p, t)
CopyStep == \E c \in copying : FindCopyShare(c) \/ AddCopyShare(c) \/ FindCopy(c) \/ AddCopy(c)

Next ==
    \/ \E h \in Handlers : Call(h) \/ Proceed(h)
    \/ SpreadStep \/ CopyStep
    \/ \E d \in DelegationIds, w \in {"current", "past"} : Today(d, w)

Spec == Init /\ [][Next]_vars
=============================================================================
