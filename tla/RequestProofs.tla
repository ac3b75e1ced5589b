--------------------------- MODULE RequestProofs ---------------------------
(* Theorems about RequestWorkflow, for any tables, users, calls and bounds.  *)
EXTENDS RequestRefinement, TLAPS

Typed == TypeOK /\ References

----------------------------------------------------------------------------
(* What the helpers return.                                                 *)

(* SetClosureStatus gives a request a legal state, and is_close to match.   *)
LEMMA RequestClosure ==
    ASSUME NEW row \in RequestRow, NEW state
    PROVE  LET new == SetClosureStatus(row, state) IN
           /\ new \in RequestRow
           /\ new.is_close <=> new.state \in Ended
           /\ new.exists = row.exists /\ new.workflow = row.workflow
BY DEF SetClosureStatus, CheckStateIsEnded, RequestRow, Ended, Open

(* The same for a task.                                                     *)
LEMMA TaskClosure ==
    ASSUME NEW row \in TaskRow, NEW state, NEW nexts \in Nexts
    PROVE  LET new == [SetClosureStatus(row, state) EXCEPT !.nexts = nexts] IN
           /\ new \in TaskRow
           /\ new.is_close <=> new.state \in Ended
           /\ new.request = row.request /\ new.state # "none"
           /\ new.name = row.name
BY DEF SetClosureStatus, CheckStateIsEnded, TaskRow, Ended, Open, Nexts

LEMMA StepFacts ==
    ASSUME NEW s \in Steps
    PROVE  /\ Step[s].index \in Nat
           /\ Step[s].wraps \in Workflows \cup {NoWorkflow}
           /\ Step[s].user \in Users \cup {NoUser}
           /\ s \in Names /\ s # Verification
BY ConfigAssumption DEF StepRow, Names

(* The moves of an index stay integers.                                     *)
LEMMA TargetType ==
    ASSUME NEW i \in Int, NEW verdict
    PROVE  TargetIndex(i, verdict) \in Int
BY DEF TargetIndex, Floor

LEMMA StartType ==
    ASSUME NEW u, NEW w
    PROVE  StartIndex(u, w) \in {0, 10}
BY DEF StartIndex

(* One item of work, and the two families of items.                         *)
LEMMA ItemType ==
    ASSUME NEW kind \in {"prepare", "task", "insert", "verification"}, NEW name \in Names,
           NEW r \in RequestIds, NEW user \in Users \cup {NoUser}, NEW nexts \in Nexts,
           NEW from \in {"request", "task"}, NEW d \in Nat
    PROVE  LET x == Item(kind, name, r, user, nexts, from, d) IN
           /\ x \in Work
           /\ x.kind = kind /\ x.name = name /\ x.request = r
BY DEF Item, Work

LEMMA VerificationWorkType ==
    ASSUME NEW names \in SUBSET Names, NEW r \in RequestIds, NEW u \in Users, NEW d \in Nat
    PROVE  \A x \in VerificationWork(names, r, u, d) :
              x \in Work /\ x.request = r /\ x.kind = "verification"
<1>1. Parents[u] \subseteq Users /\ AllNexts \in Nexts
  BY ConfigAssumption DEF Nexts, AllNexts
<1> TAKE x \in VerificationWork(names, r, u, d)
<1>2. PICK name \in names, p \in Parents[u] :
          x = Item("verification", name, r, p, AllNexts, "task", d)
  BY SMT DEF VerificationWork
<1>3. name \in Names /\ p \in Users \cup {NoUser}
  BY <1>1, <1>2
<1> QED BY <1>1, <1>2, <1>3, ItemType

LEMMA StepWorkType ==
    ASSUME NEW S \in SUBSET Steps, NEW r \in RequestIds, NEW nexts \in Nexts,
           NEW from \in {"request", "task"}, NEW d \in Nat
    PROVE  \A x \in StepWork(S, r, nexts, from, d) :
              x \in Work /\ x.request = r /\ x.name \in S
<1>1. SUFFICES ASSUME NEW s \in S
               PROVE  LET x == Item("prepare", s, r, NoUser, nexts, from, d) IN
                      x \in Work /\ x.request = r /\ x.name \in S
  BY DEF StepWork
<1>2. s \in Names /\ NoUser \in Users \cup {NoUser}
  BY StepFacts
<1> QED BY <1>2 DEF Item, Work

(* The items of a new request: typed, for that request, and for steps of    *)
(* its first index.                                                         *)
LEMMA FirstWorkType ==
    ASSUME NEW r \in RequestIds, NEW u \in Users, NEW w, NEW d \in Nat
    PROVE  /\ FirstWork(r, u, w, d) \in SUBSET Work
           /\ \A x \in FirstWork(r, u, w, d) :
                 /\ x.request = r
                 /\ x.kind # "verification" => /\ x.name \in Steps
                                               /\ 10 * Step[x.name].index = 10
                                               /\ StartIndex(u, w) = 10
<1>1. CASE StartIndex(u, w) = 0
  <2>1. {Verification} \in SUBSET Names
    BY DEF Names
  <2> QED BY <1>1, <2>1, VerificationWorkType DEF FirstWork
<1>2. CASE StartIndex(u, w) # 0
  <2>1. StartIndex(u, w) = 10
    BY <1>2, StartType
  <2>2. /\ StepsAt(w, 10) \subseteq Steps /\ AllNexts \in Nexts
        /\ \A s \in StepsAt(w, 10) : 10 * Step[s].index = 10
    BY DEF StepsAt, Nexts, AllNexts
  <2>3. FirstWork(r, u, w, d) = StepWork(StepsAt(w, 10), r, AllNexts, "request", d)
    BY <1>2 DEF FirstWork
  <2> QED BY <2>1, <2>2, <2>3, StepWorkType
<1> QED BY <1>1, <1>2

(* The row of a request after a move.                                       *)
LEMMA MovedType ==
    ASSUME NEW me \in HandlerRow, NEW row \in RequestRow
    PROVE  LET new == MovedRequest(me, row) IN
           /\ new \in RequestRow
           /\ new.is_close <=> new.state \in Ended
           /\ new.exists = row.exists /\ new.workflow = row.workflow
<1> DEFINE i == Target(me)
           state == IF Refuses(me) THEN "refused" ELSE StateAt(row.workflow, i)
           index == CASE me.ended   -> -10
                      [] Refuses(me) /\ ~me.ended -> row.current_index
                      [] OTHER -> IF SomeBefore(StepsAt(row.workflow, i)) THEN i - 1 ELSE i
           closed == SetClosureStatus(row, state)
<1>1. i \in Int
  BY TargetType DEF Target, HandlerRow
<1>2. index \in Int
  BY <1>1 DEF RequestRow, HandlerRow
<1>3. /\ closed \in RequestRow
      /\ closed.is_close <=> closed.state \in Ended
      /\ closed.exists = row.exists /\ closed.workflow = row.workflow
  BY RequestClosure
<1>4. MovedRequest(me, row) = [closed EXCEPT !.current_index = index]
  BY DEF MovedRequest
<1> HIDE DEF i, state, index, closed
<1> QED BY <1>2, <1>3, <1>4 DEF RequestRow

(* What a move leaves to create: typed, for that request, and for steps of  *)
(* the index the request is given.                                          *)
LEMMA WorkAfterType ==
    ASSUME NEW me \in HandlerRow, NEW row \in RequestRow,
           me.request \in RequestIds, me.user \in Users
    PROVE  /\ WorkAfter(me, row) \in SUBSET Work
           /\ \A x \in WorkAfter(me, row) :
                 /\ x.request = me.request
                 /\ x.kind # "verification" =>
                       /\ x.name \in Steps
                       /\ 10 * Step[x.name].index = MovedRequest(me, row).current_index
<1> DEFINE i == Target(me)
           S == StepsAt(row.workflow, i)
<1>1. S \subseteq Steps /\ S \subseteq Names /\ \A s \in S : 10 * Step[s].index = i
  BY StepFacts DEF StepsAt
<1>2. me.nexts \in Nexts
  BY DEF HandlerRow
<1>3. CASE ~me.ended /\ ~Refuses(me) /\ ~SomeBefore(S)
  <2>1. WorkAfter(me, row) = StepWork(S, me.request, me.nexts, "task", 0)
    BY <1>3 DEF WorkAfter
  <2>2. MovedRequest(me, row).current_index = i
    <3>1. SetClosureStatus(row, IF Refuses(me) THEN "refused" ELSE StateAt(row.workflow, i)) \in RequestRow
      BY RequestClosure
    <3> QED BY <1>3, <3>1 DEF MovedRequest, RequestRow
  <2> HIDE DEF i, S
  <2>3. \A x \in WorkAfter(me, row) :
            x \in Work /\ x.request = me.request /\ x.name \in S
    BY <1>1, <1>2, <2>1, StepWorkType
  <2> QED BY <1>1, <2>2, <2>3
<1>4. CASE me.ended \/ Refuses(me) \/ SomeBefore(S)
  <2>1. WorkAfter(me, row) \subseteq VerificationWork(S, me.request, me.user, 0)
    BY <1>4 DEF WorkAfter
  <2> QED BY <1>1, <2>1, VerificationWorkType
<1> QED BY <1>3, <1>4

(* A handler with more or nothing to create.                                *)
LEMMA WithTodoType ==
    ASSUME NEW row \in HandlerRow, NEW T \in SUBSET Work
    PROVE  /\ WithTodo(row, T) \in HandlerRow
           /\ WithTodo(row, T).todo = T
           /\ WithTodo(row, T).pc \in {"idle", "create"}
           /\ T # {} => WithTodo(row, T).user = row.user
           /\ T # {} => WithTodo(row, T).request = row.request
           /\ T = {} => WithTodo(row, T).request = 0 /\ WithTodo(row, T).pc = "idle"
<1>1. Idle \in HandlerRow /\ Idle.todo = {} /\ Idle.pc = "idle" /\ Idle.request = 0
  BY DEF Idle, HandlerRow, Names, Nexts, AllNexts, Open, Ended
<1>2. CASE T = {}
  <2>1. WithTodo(row, T) = Idle  BY <1>2 DEF WithTodo
  <2> QED BY <1>1, <1>2, <2>1
<1>3. CASE T # {}
  <2>1. PICK new : new = [row EXCEPT !.pc = "create", !.todo = T]  OBVIOUS
  <2>2. WithTodo(row, T) = new  BY <1>3, <2>1 DEF WithTodo
  <2>3. new \in HandlerRow  BY <2>1 DEF HandlerRow
  <2>4. new.todo = T /\ new.pc = "create" /\ new.user = row.user /\ new.request = row.request
    BY <2>1 DEF HandlerRow
  <2> QED BY <1>3, <2>2, <2>3, <2>4
<1> QED BY <1>2, <1>3

LEMMA IdleType ==
    /\ Idle \in HandlerRow /\ Idle.pc = "idle" /\ Idle.todo = {} /\ Idle.request = 0
BY DEF Idle, HandlerRow, Names, Nexts, AllNexts, Open, Ended

LEMMA NoTaskType == NoTask \in TaskRow /\ NoTask.state = "none" /\ NoTask.request = 0
BY DEF NoTask, TaskRow, Names, Nexts, AllNexts

LEMMA NoRequestType == NoRequest \in RequestRow /\ ~NoRequest.exists
BY DEF NoRequest, RequestRow

(* The insertion of a request.                                              *)
LEMMA AddRequestTyped ==
    ASSUME Typed, NEW u \in Users, NEW w \in Workflows, AddRequest(u, w)
    PROVE  /\ request' \in [RequestIds -> RequestRow]
           /\ reached' \in [RequestIds -> Int]
           /\ nextRequest \in RequestIds
           /\ nextRequest' \in 1 .. MaxRequests + 1 /\ nextRequest' = nextRequest + 1
           /\ \A r \in RequestIds : r # nextRequest => request'[r] = request[r] /\ reached'[r] = reached[r]
           /\ reached'[nextRequest] = StartIndex(u, w)
           /\ \A r \in RequestIds : request'[r].exists => r < nextRequest'
<1>1. /\ nextRequest \in RequestIds
      /\ nextRequest' \in 1 .. MaxRequests + 1 /\ nextRequest' = nextRequest + 1
  BY BoundAssumption DEF Typed, TypeOK, AddRequest, RequestIds
<1>2. StartIndex(u, w) \in Int
  BY StartType
<1> DEFINE row == IF FirstWork(nextRequest, u, w, 0) = {} THEN NoRequest
                  ELSE [exists |-> TRUE, workflow |-> w, owner |-> u, state |-> "pending",
                        is_close |-> FALSE, current_index |-> StartIndex(u, w)]
<1>3. row \in RequestRow
  BY <1>2, NoRequestType DEF RequestRow, Open
<1>4. request' = [request EXCEPT ![nextRequest] = row]
  BY DEF AddRequest
<1>5. reached' = [reached EXCEPT ![nextRequest] = StartIndex(u, w)]
  BY DEF AddRequest
<1> HIDE DEF row
<1>6. request \in [RequestIds -> RequestRow] /\ reached \in [RequestIds -> Int]
  BY DEF Typed, TypeOK
<1>7. \A r \in RequestIds : request'[r].exists => r < nextRequest'
  BY <1>1, <1>4, <1>6 DEF Typed, References, RequestIds
<1> QED BY <1>1, <1>2, <1>3, <1>4, <1>5, <1>6, <1>7

(* Typed after a step that changes only one handler.                        *)
LEMMA HandlerStepTyped ==
    ASSUME Typed, NEW h \in Handlers, NEW row \in HandlerRow,
           handler' = [handler EXCEPT ![h] = row], RefersBelow(row, nextRequest),
           UNCHANGED <<request, task, notified, nextRequest, nextTask, reached>>,
           calls' \in 0 .. MaxCalls
    PROVE  Typed'
<1>1. TypeOK'
  BY DEF Typed, TypeOK
<1>2. \A t \in TaskIds : Exists(t)' <=> Exists(t)
  BY DEF Exists
<1>3. \A g \in Handlers : RefersBelow(handler'[g], nextRequest')
  BY DEF Typed, TypeOK, References
<1> QED BY <1>1, <1>2, <1>3 DEF Typed, References, RefersBelow

LEMMA IdleRefers ==
    ASSUME Typed
    PROVE  RefersBelow(Idle, nextRequest)
BY IdleType, BoundAssumption DEF RefersBelow, Typed, TypeOK

LEMMA WithTodoRefers ==
    ASSUME NEW n \in Nat, n >= 1, NEW me \in HandlerRow, NEW T \in SUBSET Work,
           me.user \in Users, me.request < n, \A x \in T : ItemRefers(x, n)
    PROVE  RefersBelow(WithTodo(me, T), n)
BY WithTodoType DEF RefersBelow

LEMMA TypedCounters ==
    ASSUME Typed
    PROVE  nextRequest \in Nat /\ nextRequest >= 1 /\ calls \in 0 .. MaxCalls
BY BoundAssumption DEF Typed, TypeOK

(* A call that is accepted.                                                 *)
LEMMA AcceptTyped ==
    ASSUME Typed, NEW h \in Handlers, Accept(h)
    PROVE  calls' \in 0 .. MaxCalls
BY BoundAssumption DEF Typed, TypeOK, Accept

----------------------------------------------------------------------------
(* Each action keeps the types and the references.                          *)

LEMMA InitTyped == Init => Typed
<1> SUFFICES ASSUME Init PROVE Typed
  OBVIOUS
<1>1. TypeOK
  BY IdleType, NoTaskType, NoRequestType, BoundAssumption DEF Init, TypeOK
<1>2. \A t \in TaskIds : ~Exists(t)
  BY NoTaskType DEF Init, Exists
<1>3. \A r \in RequestIds : ~request[r].exists
  BY NoRequestType DEF Init
<1>4. \A h \in Handlers : RefersBelow(handler[h], nextRequest)
  BY IdleType DEF Init, RefersBelow
<1> QED BY <1>1, <1>2, <1>3, <1>4 DEF Typed, References

(* Typed after a step that inserts a request and moves one handler.         *)
LEMMA OneHandlerGrows ==
    ASSUME Typed, NEW h \in Handlers, NEW row \in HandlerRow,
           handler' = [handler EXCEPT ![h] = row], RefersBelow(row, nextRequest'),
           request' \in [RequestIds -> RequestRow], reached' \in [RequestIds -> Int],
           nextRequest' \in 1 .. MaxRequests + 1, nextRequest' = nextRequest + 1,
           \A r \in RequestIds : request'[r].exists => r < nextRequest',
           UNCHANGED <<task, notified, nextTask>>, calls' \in 0 .. MaxCalls
    PROVE  Typed'
<1>1. TypeOK'
  BY DEF Typed, TypeOK
<1>2. \A g \in Handlers : RefersBelow(handler'[g], nextRequest')
  <2> SUFFICES ASSUME NEW g \in Handlers PROVE RefersBelow(handler'[g], nextRequest')
    OBVIOUS
  <2>1. CASE g = h
    BY <2>1 DEF Typed, TypeOK
  <2>2. CASE g # h
    <3>1. handler'[g] = handler[g] /\ handler[g] \in HandlerRow /\ RefersBelow(handler[g], nextRequest)
      BY <2>2 DEF Typed, TypeOK, References
    <3> QED BY <3>1, TypedCounters DEF RefersBelow, ItemRefers, HandlerRow, RequestIds, Work
  <2> QED BY <2>1, <2>2
<1>3. \A t \in TaskIds : Exists(t)' => task'[t].request \in RequestIds /\ task'[t].request < nextRequest'
  BY TypedCounters DEF Exists, Typed, References, RequestIds
<1> QED BY <1>1, <1>2, <1>3 DEF Typed, References

LEMMA CreateRequestTyped ==
    ASSUME Typed, NEW h \in Handlers, NEW u \in Users, NEW w \in Workflows,
           CreateRequest(h, u, w)
    PROVE  Typed'
<1> DEFINE me == [Idle EXCEPT !.user = u]
           T == FirstWork(nextRequest, u, w, 0)
           row == WithTodo(me, T)
<1>1. me \in HandlerRow /\ me.user = u /\ me.request = 0
  BY IdleType DEF HandlerRow
<1>2. /\ request' \in [RequestIds -> RequestRow] /\ reached' \in [RequestIds -> Int]
      /\ nextRequest \in RequestIds
      /\ nextRequest' \in 1 .. MaxRequests + 1 /\ nextRequest' = nextRequest + 1
      /\ \A r \in RequestIds : request'[r].exists => r < nextRequest'
  BY AddRequestTyped DEF CreateRequest
<1>3. /\ T \in SUBSET Work
      /\ \A x \in T : x.request = nextRequest /\ (x.kind # "verification" => x.name \in Steps)
  BY <1>2, FirstWorkType
<1>4. handler' = [handler EXCEPT ![h] = row] /\ UNCHANGED <<task, notified, nextTask>>
  BY DEF CreateRequest
<1>5. calls' \in 0 .. MaxCalls
  BY AcceptTyped DEF CreateRequest
<1> HIDE DEF me, T
<1>6. row \in HandlerRow
  BY <1>1, <1>3, WithTodoType
<1>7. RefersBelow(row, nextRequest')
  BY <1>1, <1>2, <1>3, TypedCounters, WithTodoRefers DEF ItemRefers
<1> HIDE DEF row
<1> QED BY <1>2, <1>4, <1>5, <1>6, <1>7, OneHandlerGrows

LEMMA SubmitTaskTyped ==
    ASSUME Typed, NEW h \in Handlers, NEW u \in Users, NEW t \in TaskIds,
           NEW verdict \in Verdicts, NEW nexts \in Nexts,
           SubmitTask(h, u, t, verdict, nexts)
    PROVE  Typed'
<1> DEFINE row == [Idle EXCEPT !.pc = "update", !.user = u, !.task = t,
                               !.request = task[t].request, !.name = task[t].name,
                               !.verdict = verdict, !.nexts = nexts]
<1>1. /\ task[t] \in TaskRow /\ task[t].request \in RequestIds
      /\ task[t].request < nextRequest
  BY DEF SubmitTask, Typed, TypeOK, References
<1>2. verdict \in Open \cup Ended
  BY InputAssumption DEF Open
<1>3. row \in HandlerRow
  BY <1>1, <1>2, IdleType DEF HandlerRow, TaskRow
<1>4. RefersBelow(row, nextRequest)
  BY <1>1, IdleType DEF RefersBelow, HandlerRow
<1>5. handler' = [handler EXCEPT ![h] = row]
  BY DEF SubmitTask
<1>6. calls' \in 0 .. MaxCalls
  BY AcceptTyped DEF SubmitTask
<1> HIDE DEF row
<1> QED BY <1>3, <1>4, <1>5, <1>6, HandlerStepTyped DEF SubmitTask

(* Typed after a step that rewrites one task row and moves one handler.     *)
LEMMA TaskStepTyped ==
    ASSUME Typed, NEW h \in Handlers, NEW row \in HandlerRow,
           handler' = [handler EXCEPT ![h] = row], RefersBelow(row, nextRequest),
           NEW t \in TaskIds, NEW new \in TaskRow, task' = [task EXCEPT ![t] = new],
           new.state # "none" => new.request \in RequestIds /\ new.request < nextRequest,
           notified' \in SUBSET TaskIds, nextTask' \in 1 .. MaxTasks + 1,
           UNCHANGED <<request, nextRequest, reached>>, calls' \in 0 .. MaxCalls
    PROVE  Typed'
<1>1. TypeOK'
  BY DEF Typed, TypeOK
<1>2. \A s \in TaskIds : Exists(s)' => task'[s].request \in RequestIds /\ task'[s].request < nextRequest'
  BY DEF Exists, Typed, TypeOK, References
<1>3. \A g \in Handlers : RefersBelow(handler'[g], nextRequest')
  BY DEF Typed, TypeOK, References
<1> QED BY <1>1, <1>2, <1>3 DEF Typed, References, RefersBelow

LEMMA UpdateTaskTyped ==
    ASSUME Typed, NEW h \in Handlers, UpdateTask(h)
    PROVE  Typed'
<1> DEFINE me == handler[h]
           t == me.task
           row == [me EXCEPT !.pc = "reread"]
           new == [SetClosureStatus(task[t], me.verdict) EXCEPT !.nexts = me.nexts]
<1>1. /\ me \in HandlerRow /\ me.pc = "update" /\ RefersBelow(me, nextRequest)
      /\ t \in TaskIds /\ task[t] \in TaskRow /\ me.nexts \in Nexts
  BY DEF UpdateTask, Typed, TypeOK, References, RefersBelow, HandlerRow
<1>2. row \in HandlerRow /\ RefersBelow(row, nextRequest)
  BY <1>1 DEF HandlerRow, RefersBelow
<1>3. handler' = [handler EXCEPT ![h] = row]
  BY DEF UpdateTask
<1>4. calls' \in 0 .. MaxCalls
  BY TypedCounters DEF UpdateTask
<1>5. CASE Exists(t)
  <2>1. new \in TaskRow /\ new.request = task[t].request
    BY <1>1, TaskClosure
  <2>2. new.request \in RequestIds /\ new.request < nextRequest
    BY <1>1, <1>5, <2>1 DEF Typed, References
  <2>3. task' = [task EXCEPT ![t] = new]
    BY <1>5 DEF UpdateTask
  <2>4. notified' \in SUBSET TaskIds /\ nextTask' \in 1 .. MaxTasks + 1
    BY DEF UpdateTask, Typed, TypeOK
  <2> HIDE DEF new, row
  <2> QED BY <1>1, <1>2, <1>3, <1>4, <2>1, <2>2, <2>3, <2>4, TaskStepTyped DEF UpdateTask
<1>6. CASE ~Exists(t)
  <2>1. UNCHANGED <<request, task, notified, nextRequest, nextTask, reached>>
    BY <1>6 DEF UpdateTask
  <2> HIDE DEF row
  <2> QED BY <1>2, <1>3, <1>4, <2>1, HandlerStepTyped
<1> QED BY <1>5, <1>6

LEMMA UpdateTaskFailsTyped ==
    ASSUME Typed, NEW h \in Handlers, UpdateTaskFails(h)
    PROVE  Typed'
BY IdleType, IdleRefers, TypedCounters, HandlerStepTyped DEF UpdateTaskFails

LEMMA RereadTaskTyped ==
    ASSUME Typed, NEW h \in Handlers, RereadTask(h)
    PROVE  Typed'
<1> DEFINE me == handler[h]
           t == me.task
           row == IF CheckStateIsEnded(task[t].state)
                  THEN [me EXCEPT !.pc = "request", !.verdict = task[t].state,
                                  !.nexts = task[t].nexts]
                  ELSE Idle
<1>1. /\ me \in HandlerRow /\ me.pc = "reread" /\ RefersBelow(me, nextRequest)
      /\ t \in TaskIds /\ task[t] \in TaskRow
  BY DEF RereadTask, Typed, TypeOK, References, RefersBelow
<1>2. row \in HandlerRow /\ RefersBelow(row, nextRequest)
  <2>1. CASE CheckStateIsEnded(task[t].state)
    BY <1>1, <2>1 DEF CheckStateIsEnded, HandlerRow, TaskRow, RefersBelow
  <2>2. CASE ~CheckStateIsEnded(task[t].state)
    BY <2>2, IdleType, IdleRefers
  <2> QED BY <2>1, <2>2
<1>3. handler' = [handler EXCEPT ![h] = row]
  BY <1>1 DEF RereadTask, Typed, TypeOK
<1> HIDE DEF row
<1> QED BY <1>2, <1>3, TypedCounters, HandlerStepTyped DEF RereadTask

LEMMA DeleteTaskTyped ==
    ASSUME Typed, NEW h \in Handlers, NEW u \in Users, NEW t \in TaskIds, DeleteTask(h, u, t)
    PROVE  Typed'
<1> DEFINE row == [Idle EXCEPT !.pc = "request", !.user = u, !.task = t,
                               !.request = task[t].request, !.name = task[t].name,
                               !.verdict = "refused", !.nexts = task[t].nexts]
<1>1. /\ task[t] \in TaskRow /\ task[t].request \in RequestIds
      /\ task[t].request < nextRequest
  BY DEF DeleteTask, Typed, TypeOK, References
<1>2. row \in HandlerRow
  BY <1>1, IdleType DEF HandlerRow, TaskRow, Ended
<1>3. RefersBelow(row, nextRequest)
  BY <1>1, IdleType DEF RefersBelow, HandlerRow
<1>4. handler' = [handler EXCEPT ![h] = row] /\ task' = [task EXCEPT ![t] = NoTask]
  BY DEF DeleteTask
<1>5. calls' \in 0 .. MaxCalls
  BY AcceptTyped DEF DeleteTask
<1>6. notified' \in SUBSET TaskIds /\ nextTask' \in 1 .. MaxTasks + 1
  BY DEF DeleteTask, Typed, TypeOK
<1> HIDE DEF row
<1> QED BY <1>2, <1>3, <1>4, <1>5, <1>6, NoTaskType, TaskStepTyped DEF DeleteTask

LEMMA ReadRequestTyped ==
    ASSUME Typed, NEW h \in Handlers, ReadRequest(h)
    PROVE  Typed'
<1> DEFINE me == handler[h]
           r == me.request
           row == IF request[r].exists
                  THEN [me EXCEPT !.pc = "others", !.index = request[r].current_index,
                                  !.ended = CheckStateIsEnded(request[r].state)]
                  ELSE Idle
<1>1. /\ me \in HandlerRow /\ me.pc = "request" /\ RefersBelow(me, nextRequest)
      /\ r \in RequestIds /\ request[r] \in RequestRow
  BY DEF ReadRequest, Typed, TypeOK, References, RefersBelow
<1>2. row \in HandlerRow /\ RefersBelow(row, nextRequest)
  <2>1. CASE request[r].exists
    <3>1. CheckStateIsEnded(request[r].state) \in BOOLEAN
      BY DEF CheckStateIsEnded
    <3> QED BY <1>1, <2>1, <3>1 DEF HandlerRow, RequestRow, RefersBelow
  <2>2. CASE ~request[r].exists
    BY <2>2, IdleType, IdleRefers
  <2> QED BY <2>1, <2>2
<1>3. handler' = [handler EXCEPT ![h] = row]
  BY <1>1 DEF ReadRequest, Typed, TypeOK
<1> HIDE DEF row
<1> QED BY <1>2, <1>3, TypedCounters, HandlerStepTyped DEF ReadRequest

LEMMA CheckOthersTyped ==
    ASSUME Typed, NEW h \in Handlers, CheckOthers(h)
    PROVE  Typed'
<1> DEFINE me == handler[h]
           row == IF \E t \in OpenTasks(me.request) : task[t].name # me.name
                  THEN Idle ELSE [me EXCEPT !.pc = "advance"]
<1>1. me \in HandlerRow /\ me.pc = "others" /\ RefersBelow(me, nextRequest)
  BY DEF CheckOthers, Typed, TypeOK, References
<1>2. row \in HandlerRow /\ RefersBelow(row, nextRequest)
  BY <1>1, IdleType, IdleRefers DEF HandlerRow, RefersBelow
<1>3. handler' = [handler EXCEPT ![h] = row]
  BY <1>1 DEF CheckOthers, Typed, TypeOK
<1> HIDE DEF row
<1> QED BY <1>2, <1>3, TypedCounters, HandlerStepTyped DEF CheckOthers

LEMMA AdvanceRequestTyped ==
    ASSUME Typed, NEW h \in Handlers, AdvanceRequest(h) \/ AdvanceRequestFails(h)
    PROVE  Typed'
<1> DEFINE me == handler[h]
           r == me.request
           T == WorkAfter(me, request[r])
           row == WithTodo(me, T)
           new == MovedRequest(me, request[r])
<1>1. /\ me \in HandlerRow /\ me.pc = "advance" /\ RefersBelow(me, nextRequest)
      /\ r \in RequestIds /\ request[r] \in RequestRow /\ me.user \in Users /\ r < nextRequest
  BY DEF AdvanceRequest, AdvanceRequestFails, Typed, TypeOK, References, RefersBelow
<1>2. T \in SUBSET Work /\ \A x \in T : ItemRefers(x, nextRequest)
  BY <1>1, WorkAfterType DEF ItemRefers
<1>3. handler' = [handler EXCEPT ![h] = row]
  BY DEF AdvanceRequest, AdvanceRequestFails
<1> HIDE DEF T
<1>4. row \in HandlerRow /\ RefersBelow(row, nextRequest)
  BY <1>1, <1>2, TypedCounters, WithTodoType, WithTodoRefers
<1>5. UNCHANGED <<task, notified, nextRequest, nextTask>> /\ calls' \in 0 .. MaxCalls
  BY TypedCounters DEF AdvanceRequest, AdvanceRequestFails
<1>6. CASE UNCHANGED <<request, reached>>
  <2> HIDE DEF row
  <2> QED BY <1>3, <1>4, <1>5, <1>6, HandlerStepTyped
<1>7. CASE /\ request' = [request EXCEPT ![r] = new]
           /\ reached' = [reached EXCEPT ![r] = HighestOf(@, new.current_index)]
  <2>1. new \in RequestRow /\ new.exists = request[r].exists
    BY <1>1, MovedType
  <2> HIDE DEF row, new
  <2>2. new.current_index \in Int /\ reached \in [RequestIds -> Int]
    BY <2>1 DEF RequestRow, Typed, TypeOK
  <2>3. reached' \in [RequestIds -> Int]
    BY <1>7, <2>2 DEF HighestOf
  <2>4. /\ request' \in [RequestIds -> RequestRow]
        /\ \A q \in RequestIds : request'[q].exists = request[q].exists
    BY <1>1, <1>7, <2>1 DEF Typed, TypeOK
  <2>5. TypeOK'
    BY <1>3, <1>4, <1>5, <2>3, <2>4 DEF Typed, TypeOK
  <2>6. \A g \in Handlers : RefersBelow(handler'[g], nextRequest')
    BY <1>3, <1>4, <1>5 DEF Typed, TypeOK, References
  <2>7. \A t \in TaskIds : Exists(t)' <=> Exists(t)
    BY <1>5 DEF Exists
  <2> QED BY <1>5, <2>4, <2>5, <2>6, <2>7 DEF Typed, References
<1> QED BY <1>6, <1>7 DEF AdvanceRequest, AdvanceRequestFails

(* The items that preparing one item leaves.                                *)
LEMMA OwnWorkType ==
    ASSUME NEW x \in Work
    PROVE  /\ OwnWork(x) \in SUBSET Work
           /\ \A y \in OwnWork(x) : y.request = x.request /\ y.name = x.name
<1>1. CASE ShouldCreate(x)
  <2> DEFINE y == [x EXCEPT !.kind = "task", !.depth = @ + 1]
  <2>1. OwnWork(x) = {y}
    BY <1>1 DEF OwnWork
  <2>2. x.depth + 1 \in Nat
    BY DEF Work
  <2>3. y \in Work /\ y.request = x.request /\ y.name = x.name
    BY <2>2 DEF Work
  <2> HIDE DEF y
  <2> QED BY <2>1, <2>3
<1>2. CASE ~ShouldCreate(x)
  BY <1>2 DEF OwnWork
<1> QED BY <1>1, <1>2

LEMMA PrepareTaskTyped ==
    ASSUME Typed, NEW h \in Handlers, NEW x \in handler[h].todo, PrepareTask(h, x)
    PROVE  Typed'
<1> DEFINE me == handler[h]
           rest == me.todo \ {x}
           w == Step[x.name].wraps
           new == FirstWork(nextRequest, me.user, w, x.depth + 2)
           kept == rest \cup OwnWork(x)
<1>1. /\ me \in HandlerRow /\ me.pc = "create" /\ RefersBelow(me, nextRequest)
      /\ me.user \in Users /\ me.request < nextRequest
      /\ me.todo \in SUBSET Work /\ \A y \in me.todo : ItemRefers(y, nextRequest)
  BY DEF PrepareTask, Typed, TypeOK, References, RefersBelow, HandlerRow
<1>2. x \in Work /\ x.depth + 2 \in Nat /\ x.name \in Steps
  BY <1>1 DEF Work, ItemRefers, PrepareTask
<1>3. kept \in SUBSET Work /\ \A y \in kept : ItemRefers(y, nextRequest)
  BY <1>1, <1>2, OwnWorkType DEF ItemRefers
<1>4. UNCHANGED <<task, notified, nextTask>> /\ calls' \in 0 .. MaxCalls
  BY TypedCounters DEF PrepareTask
<1> HIDE DEF kept
<1>5. CASE Wraps(x)
  <2> DEFINE all == kept \cup new
             row == WithTodo(me, all)
  <2>1. AddRequest(me.user, w) /\ handler' = [handler EXCEPT ![h] = row]
    BY <1>5 DEF PrepareTask, kept
  <2>2. w \in Workflows
    BY <1>2, <1>5, StepFacts DEF Wraps
  <2>3. /\ request' \in [RequestIds -> RequestRow] /\ reached' \in [RequestIds -> Int]
        /\ nextRequest \in RequestIds
        /\ nextRequest' \in 1 .. MaxRequests + 1 /\ nextRequest' = nextRequest + 1
        /\ \A r \in RequestIds : request'[r].exists => r < nextRequest'
    BY <1>1, <2>1, <2>2, AddRequestTyped
  <2>4. /\ new \in SUBSET Work
        /\ \A y \in new : y.request = nextRequest /\ (y.kind # "verification" => y.name \in Steps)
    BY <1>1, <1>2, <2>3, FirstWorkType
  <2> HIDE DEF new
  <2>5. all \in SUBSET Work /\ \A y \in all : ItemRefers(y, nextRequest')
    <3>1. \A y \in kept : ItemRefers(y, nextRequest')
      BY <1>3, <2>3, TypedCounters DEF ItemRefers, Work, RequestIds
    <3>2. \A y \in new : ItemRefers(y, nextRequest')
      BY <2>3, <2>4, TypedCounters DEF ItemRefers
    <3> QED BY <1>3, <2>4, <3>1, <3>2
  <2> HIDE DEF all
  <2>6. row \in HandlerRow
    BY <1>1, <2>5, WithTodoType
  <2>7. RefersBelow(row, nextRequest')
    <3>1. me.request < nextRequest' /\ nextRequest' \in Nat /\ nextRequest' >= 1
      BY <1>1, <2>3, TypedCounters DEF HandlerRow, RequestIds
    <3> QED BY <1>1, <2>5, <3>1, WithTodoRefers
  <2> HIDE DEF row
  <2> QED BY <1>4, <2>1, <2>3, <2>6, <2>7, OneHandlerGrows
<1>6. CASE ~Wraps(x)
  <2> DEFINE row == WithTodo(me, kept)
  <2>1. /\ handler' = [handler EXCEPT ![h] = row]
        /\ UNCHANGED <<request, nextRequest, reached>>
    BY <1>6 DEF PrepareTask, kept
  <2>2. row \in HandlerRow /\ RefersBelow(row, nextRequest)
    BY <1>1, <1>3, TypedCounters, WithTodoType, WithTodoRefers
  <2> HIDE DEF row
  <2> QED BY <1>4, <2>1, <2>2, HandlerStepTyped
<1> QED BY <1>5, <1>6

LEMMA FindTaskTyped ==
    ASSUME Typed, NEW h \in Handlers, NEW x \in handler[h].todo, FindTask(h, x)
    PROVE  Typed'
<1> DEFINE me == handler[h]
           rest == me.todo \ {x}
           y == [x EXCEPT !.kind = "insert"]
           T == IF Duplicates(x, me.user) # {} THEN rest ELSE rest \cup {y}
           row == WithTodo(me, T)
<1>1. /\ me \in HandlerRow /\ me.user \in Users /\ me.request < nextRequest
      /\ me.todo \in SUBSET Work /\ \A z \in me.todo : ItemRefers(z, nextRequest)
      /\ x \in Work /\ x.kind = "task"
  BY DEF FindTask, Typed, TypeOK, References, RefersBelow, HandlerRow
<1>2. y \in Work /\ ItemRefers(y, nextRequest)
  BY <1>1 DEF Work, ItemRefers
<1> HIDE DEF y
<1>3. T \in SUBSET Work /\ \A z \in T : ItemRefers(z, nextRequest)
  BY <1>1, <1>2
<1>4. handler' = [handler EXCEPT ![h] = row]
  BY DEF FindTask, y
<1> HIDE DEF T
<1>5. row \in HandlerRow /\ RefersBelow(row, nextRequest)
  BY <1>1, <1>3, TypedCounters, WithTodoType, WithTodoRefers
<1> HIDE DEF row
<1> QED BY <1>4, <1>5, TypedCounters, HandlerStepTyped DEF FindTask

LEMMA InsertFailsTyped ==
    ASSUME Typed, NEW h \in Handlers, NEW x \in handler[h].todo, InsertFails(h, x)
    PROVE  Typed'
<1> DEFINE me == handler[h]
           kept == (me.todo \ {x}) \cup (IF x.kind = "prepare" THEN OwnWork(x) ELSE {})
           row == WithTodo(me, kept)
<1>1. /\ me \in HandlerRow /\ me.user \in Users /\ me.request < nextRequest
      /\ me.todo \in SUBSET Work /\ \A z \in me.todo : ItemRefers(z, nextRequest)
      /\ x \in Work /\ ItemRefers(x, nextRequest)
      /\ x.kind = "prepare" => x.name \in Steps
  BY DEF InsertFails, Typed, TypeOK, References, RefersBelow, HandlerRow, ItemRefers
<1>2. /\ OwnWork(x) \in SUBSET Work
      /\ x.kind = "prepare" => \A z \in OwnWork(x) : ItemRefers(z, nextRequest)
  BY <1>1, OwnWorkType DEF ItemRefers
<1>3. kept \in SUBSET Work /\ \A z \in kept : ItemRefers(z, nextRequest)
  BY <1>1, <1>2
<1>4. handler' = [handler EXCEPT ![h] = row]
  BY DEF InsertFails
<1> HIDE DEF kept
<1>5. row \in HandlerRow /\ RefersBelow(row, nextRequest)
  BY <1>1, <1>3, TypedCounters, WithTodoType, WithTodoRefers
<1> HIDE DEF row
<1> QED BY <1>4, <1>5, TypedCounters, HandlerStepTyped DEF InsertFails

LEMMA AddTaskTyped ==
    ASSUME Typed, NEW h \in Handlers, NEW x \in handler[h].todo, handler[h].pc = "create",
           NEW name \in Names, NEW user \in Users \cup {NoUser}, AddTask(h, x, name, user)
    PROVE  Typed'
<1> DEFINE me == handler[h]
           T == me.todo \ {x}
           row == WithTodo(me, T)
           new == [state |-> "pending", is_close |-> FALSE, request |-> x.request,
                   name |-> name, user |-> user, nexts |-> AllNexts]
<1>1. /\ me \in HandlerRow /\ me.user \in Users /\ me.request < nextRequest
      /\ T \in SUBSET Work /\ \A z \in T : ItemRefers(z, nextRequest)
      /\ x \in Work /\ x.request \in RequestIds /\ x.request < nextRequest
  BY DEF Typed, TypeOK, References, RefersBelow, ItemRefers, HandlerRow, Work
<1>2. handler' = [handler EXCEPT ![h] = row]
  BY DEF AddTask
<1> HIDE DEF T
<1>3. row \in HandlerRow /\ RefersBelow(row, nextRequest)
  BY <1>1, TypedCounters, WithTodoType, WithTodoRefers
<1>4. UNCHANGED <<request, nextRequest, reached>> /\ calls' \in 0 .. MaxCalls
  BY TypedCounters DEF AddTask
<1> HIDE DEF row
<1>5. new \in TaskRow /\ new.request = x.request
  BY <1>1 DEF TaskRow, Nexts, AllNexts, Open
<1>6. task' = [task EXCEPT ![nextTask] = new]
  BY DEF AddTask
<1> HIDE DEF new
<1>7. /\ nextTask \in TaskIds /\ nextTask' \in 1 .. MaxTasks + 1
      /\ notified' \in SUBSET TaskIds
  <2>1. nextTask <= MaxTasks /\ nextTask' = nextTask + 1 /\ notified' = notified \cup {nextTask}
    BY DEF AddTask
  <2>2. nextTask \in 1 .. MaxTasks + 1 /\ notified \in SUBSET TaskIds
    BY DEF Typed, TypeOK
  <2> QED BY <2>1, <2>2, BoundAssumption DEF TaskIds
<1> QED BY <1>1, <1>2, <1>3, <1>4, <1>5, <1>6, <1>7, TaskStepTyped

LEMMA InsertTaskTyped ==
    ASSUME Typed, NEW h \in Handlers, NEW x \in handler[h].todo, InsertTask(h, x)
    PROVE  Typed'
<1>1. x.name \in Steps /\ handler[h].user \in Users /\ handler[h].pc = "create"
  BY DEF InsertTask, Typed, References, RefersBelow, ItemRefers
<1>2. AssigneeOf(x.name, handler[h].user) \in Users \cup {NoUser} /\ x.name \in Names
  BY <1>1, StepFacts DEF AssigneeOf
<1> QED BY <1>1, <1>2, AddTaskTyped DEF InsertTask

LEMMA InsertVerificationTyped ==
    ASSUME Typed, NEW h \in Handlers, NEW x \in handler[h].todo, InsertVerification(h, x)
    PROVE  Typed'
<1>1. x.user \in Users \cup {NoUser} /\ Verification \in Names
  BY DEF Typed, TypeOK, HandlerRow, Work, Names
<1> QED BY <1>1, AddTaskTyped DEF InsertVerification

LEMMA EditRequestTyped ==
    ASSUME Typed, NEW r \in RequestIds, NEW state \in Edits, EditRequest(r, state)
    PROVE  Typed'
<1> DEFINE new == SetClosureStatus(request[r], state)
<1>1. new \in RequestRow /\ new.exists = request[r].exists
  BY RequestClosure DEF Typed, TypeOK
<1>2. request' = [request EXCEPT ![r] = new]
  BY DEF EditRequest
<1> HIDE DEF new
<1>3. /\ request' \in [RequestIds -> RequestRow]
      /\ \A q \in RequestIds : request'[q].exists = request[q].exists
  BY <1>1, <1>2 DEF Typed, TypeOK
<1>4. TypeOK'
  BY <1>3, BoundAssumption DEF EditRequest, Typed, TypeOK
<1>5. \A t \in TaskIds : Exists(t)' <=> Exists(t)
  BY DEF EditRequest, Exists
<1> QED BY <1>3, <1>4, <1>5 DEF EditRequest, Typed, References, RefersBelow

LEMMA DeleteRequestTyped ==
    ASSUME Typed, NEW r \in RequestIds, DeleteRequest(r)
    PROVE  Typed'
<1>1. /\ request' \in [RequestIds -> RequestRow]
      /\ ~request'[r].exists
      /\ \A q \in RequestIds : q # r => request'[q] = request[q]
  BY DEF DeleteRequest, Typed, TypeOK, RequestRow
<1>2. TypeOK'
  BY <1>1, BoundAssumption DEF DeleteRequest, Typed, TypeOK
<1>3. \A t \in TaskIds : Exists(t)' <=> Exists(t)
  BY DEF DeleteRequest, Exists
<1> QED BY <1>1, <1>2, <1>3 DEF DeleteRequest, Typed, References, RefersBelow

----------------------------------------------------------------------------
LEMMA NextTyped == Typed /\ [Next]_vars => Typed'
<1> SUFFICES ASSUME Typed, [Next]_vars PROVE Typed'
  OBVIOUS
<1>1. ASSUME NEW r \in RequestIds, DeleteRequest(r) PROVE Typed'
  BY <1>1, DeleteRequestTyped
<1>2. ASSUME NEW r \in RequestIds, NEW s \in Edits, EditRequest(r, s) PROVE Typed'
  BY <1>2, EditRequestTyped
<1>3. ASSUME NEW h \in Handlers, Call(h) PROVE Typed'
  <2>1. ASSUME NEW t \in TaskIds
        PROVE  NextsChoices \cup {task[t].nexts} \subseteq Nexts
    BY InputAssumption DEF Nexts, Typed, TypeOK, TaskRow
  <2> QED BY <1>3, <2>1, CreateRequestTyped, SubmitTaskTyped, DeleteTaskTyped DEF Call
<1>4. ASSUME NEW h \in Handlers, Proceed(h) PROVE Typed'
  <2>1. Due(h) \subseteq handler[h].todo
    BY DEF Due
  <2>2. CASE \E x \in Due(h) : \/ PrepareTask(h, x) \/ FindTask(h, x)
                              \/ InsertTask(h, x) \/ InsertVerification(h, x)
                              \/ InsertFails(h, x)
    BY <2>1, <2>2, PrepareTaskTyped, FindTaskTyped, InsertTaskTyped, InsertVerificationTyped,
       InsertFailsTyped
  <2>3. CASE \/ UpdateTask(h) \/ UpdateTaskFails(h)
             \/ RereadTask(h) \/ ReadRequest(h) \/ CheckOthers(h)
             \/ AdvanceRequest(h) \/ AdvanceRequestFails(h)
    BY <2>3, UpdateTaskTyped, UpdateTaskFailsTyped, RereadTaskTyped, ReadRequestTyped,
       CheckOthersTyped, AdvanceRequestTyped
  <2> QED BY <1>4, <2>2, <2>3 DEF Proceed
<1>5. CASE UNCHANGED vars
  BY <1>5 DEF vars, Typed, TypeOK, References, RefersBelow, Exists
<1> QED BY <1>1, <1>2, <1>3, <1>4, <1>5 DEF Next, ByHand

(* Types and references hold in every state, whatever fails and whoever     *)
(* interleaves: no call ever works on a request that was not inserted, and  *)
(* no task outlives its request.                                            *)
THEOREM TypeCorrect == Spec => [](TypeOK /\ References)
<1>1. Init => Typed
  BY InitTyped
<1>2. Typed /\ [Next]_vars => Typed'
  BY NextTyped
<1>3. Typed => TypeOK /\ References
  BY DEF Typed
<1> QED BY <1>1, <1>2, <1>3, PTL DEF Spec

----------------------------------------------------------------------------
(* state and is_close agree: every write path goes through SetClosureStatus *)
(* or inserts an open row.                                                  *)

LEMMA AddRequestClosure ==
    ASSUME Typed, ClosureAgrees, NEW u \in Users, NEW w \in Workflows, AddRequest(u, w)
    PROVE  \A r \in RequestIds : request'[r].is_close <=> request'[r].state \in Ended
<1> DEFINE row == IF FirstWork(nextRequest, u, w, 0) = {} THEN NoRequest
                  ELSE [exists |-> TRUE, workflow |-> w, owner |-> u, state |-> "pending",
                        is_close |-> FALSE, current_index |-> StartIndex(u, w)]
<1>1. row.is_close <=> row.state \in Ended
  BY DEF NoRequest, Ended
<1>2. request' = [request EXCEPT ![nextRequest] = row]
  BY DEF AddRequest
<1> HIDE DEF row
<1> QED BY <1>1, <1>2 DEF Typed, TypeOK, ClosureAgrees

LEMMA TaskWriteClosure ==
    ASSUME Typed, ClosureAgrees, NEW t, NEW new, task' = [task EXCEPT ![t] = new],
           new.is_close <=> new.state \in Ended
    PROVE  \A s \in TaskIds : task'[s].is_close <=> task'[s].state \in Ended
BY DEF Typed, TypeOK, ClosureAgrees

LEMMA AddTaskClosure ==
    ASSUME Typed, ClosureAgrees, NEW h, NEW x, NEW name, NEW user, AddTask(h, x, name, user)
    PROVE  ClosureAgrees'
<1> DEFINE new == [state |-> "pending", is_close |-> FALSE, request |-> x.request,
                   name |-> name, user |-> user, nexts |-> AllNexts]
<1>1. request' = request
  BY DEF AddTask
<1>2. task' = [task EXCEPT ![nextTask] = new]
  BY DEF AddTask
<1>3. new.is_close <=> new.state \in Ended
  BY DEF Ended
<1> HIDE DEF new
<1> QED BY <1>1, <1>2, <1>3, TaskWriteClosure DEF ClosureAgrees

LEMMA NextClosure == Typed /\ ClosureAgrees /\ [Next]_vars => ClosureAgrees'
<1> SUFFICES ASSUME Typed, ClosureAgrees, [Next]_vars PROVE ClosureAgrees'
  OBVIOUS
<1>1. ASSUME UNCHANGED <<request, task>> PROVE ClosureAgrees'
  BY <1>1 DEF ClosureAgrees
<1>2. ASSUME NEW r \in RequestIds, DeleteRequest(r) PROVE ClosureAgrees'
  <2>1. \A q \in RequestIds : /\ request'[q].is_close = request[q].is_close
                              /\ request'[q].state = request[q].state
    BY <1>2 DEF DeleteRequest, Typed, TypeOK, RequestRow
  <2> QED BY <1>2, <2>1 DEF DeleteRequest, ClosureAgrees
<1>3. ASSUME NEW r \in RequestIds, NEW s \in Edits, EditRequest(r, s) PROVE ClosureAgrees'
  <2> DEFINE new == SetClosureStatus(request[r], s)
  <2>1. new.is_close <=> new.state \in Ended
    BY RequestClosure DEF Typed, TypeOK
  <2>2. request' = [request EXCEPT ![r] = new] /\ task' = task
    BY <1>3 DEF EditRequest
  <2> HIDE DEF new
  <2> QED BY <2>1, <2>2 DEF Typed, TypeOK, ClosureAgrees
<1>4. ASSUME NEW h \in Handlers, NEW u \in Users, NEW w \in Workflows, CreateRequest(h, u, w)
      PROVE  ClosureAgrees'
  BY <1>4, AddRequestClosure DEF CreateRequest, ClosureAgrees
<1>5. ASSUME NEW h \in Handlers, NEW u \in Users, NEW t \in TaskIds, DeleteTask(h, u, t)
      PROVE  ClosureAgrees'
  <2>1. NoTask.is_close <=> NoTask.state \in Ended
    BY DEF NoTask, Ended
  <2> QED BY <1>5, <2>1, TaskWriteClosure DEF DeleteTask, ClosureAgrees
<1>6. ASSUME NEW h \in Handlers, UpdateTask(h) PROVE ClosureAgrees'
  <2> DEFINE me == handler[h]
             new == [SetClosureStatus(task[me.task], me.verdict) EXCEPT !.nexts = me.nexts]
  <2>1. me.task \in TaskIds /\ task[me.task] \in TaskRow /\ me.nexts \in Nexts
    BY <1>6 DEF UpdateTask, Typed, TypeOK, References, RefersBelow, HandlerRow
  <2>2. new.is_close <=> new.state \in Ended
    BY <2>1, TaskClosure
  <2>3. request' = request /\ (task' = task \/ task' = [task EXCEPT ![me.task] = new])
    BY <1>6 DEF UpdateTask
  <2> HIDE DEF new
  <2> QED BY <2>2, <2>3, TaskWriteClosure DEF ClosureAgrees
<1>7. ASSUME NEW h \in Handlers, AdvanceRequest(h) PROVE ClosureAgrees'
  <2> DEFINE me == handler[h]
             new == MovedRequest(me, request[me.request])
  <2>1. me \in HandlerRow /\ me.request \in RequestIds /\ request[me.request] \in RequestRow
    BY <1>7 DEF AdvanceRequest, Typed, TypeOK, References, RefersBelow
  <2>2. new.is_close <=> new.state \in Ended
    BY <2>1, MovedType
  <2>3. task' = task /\ (request' = request \/ request' = [request EXCEPT ![me.request] = new])
    BY <1>7 DEF AdvanceRequest
  <2> HIDE DEF new
  <2> QED BY <2>2, <2>3 DEF Typed, TypeOK, ClosureAgrees
<1>8. ASSUME NEW h \in Handlers, NEW x \in Due(h), PrepareTask(h, x) PROVE ClosureAgrees'
  <2>1. CASE Wraps(x)
    <3>1. handler[h].user \in Users /\ x.name \in Steps
      BY <1>8 DEF PrepareTask, Due, Typed, References, RefersBelow, ItemRefers
    <3>2. Step[x.name].wraps \in Workflows
      BY <2>1, <3>1, StepFacts DEF Wraps
    <3>3. AddRequest(handler[h].user, Step[x.name].wraps) /\ task' = task
      BY <1>8, <2>1 DEF PrepareTask
    <3> QED BY <3>1, <3>2, <3>3, AddRequestClosure DEF ClosureAgrees
  <2>2. CASE ~Wraps(x)
    BY <1>1, <1>8, <2>2 DEF PrepareTask
  <2> QED BY <2>1, <2>2
<1>9. ASSUME NEW h \in Handlers, NEW x \in Due(h), InsertTask(h, x) \/ InsertVerification(h, x)
      PROVE  ClosureAgrees'
  BY <1>9, AddTaskClosure DEF InsertTask, InsertVerification
<1>10. ASSUME NEW h \in Handlers, Call(h) PROVE ClosureAgrees'
  BY <1>1, <1>4, <1>5, <1>10 DEF Call, SubmitTask
<1>11. ASSUME NEW h \in Handlers, Proceed(h) PROVE ClosureAgrees'
  BY <1>1, <1>6, <1>7, <1>8, <1>9, <1>11
     DEF Proceed, UpdateTaskFails, RereadTask, ReadRequest, CheckOthers,
         AdvanceRequestFails, FindTask, InsertFails
<1> QED BY <1>1, <1>2, <1>3, <1>10, <1>11 DEF Next, ByHand, vars

(* state and is_close agree in every row, in every state.                   *)
THEOREM ClosureCorrect == Spec => []ClosureAgrees
<1>1. Init => Typed /\ ClosureAgrees
  BY InitTyped DEF Init, ClosureAgrees, NoRequest, NoTask, Ended
<1>2. Typed /\ ClosureAgrees /\ [Next]_vars => (Typed /\ ClosureAgrees)'
  BY NextTyped, NextClosure
<1> QED BY <1>1, <1>2, PTL DEF Spec

----------------------------------------------------------------------------
(* No task is ahead of its request.  The tasks alone are not inductive: a   *)
(* call inserts later what it decided when it moved the request, so what is *)
(* still to be created must be within reach as well.                        *)

(* Requests that existed keep existing or go for good, and reach only grows. *)
Grows ==
    \A r \in RequestIds :
        r < nextRequest => /\ request'[r].exists => request[r].exists
                           /\ reached'[r] >= reached[r]

LEMMA GrowsKeepsItem ==
    ASSUME Typed, Typed', Grows, NEW x \in Work, x.request < nextRequest, ItemWithin(x),
           x.kind # "verification" => x.name \in Steps
    PROVE  ItemWithin(x)'
<1>1. x.request \in RequestIds
  BY DEF Work
<1>2. reached[x.request] \in Int /\ reached'[x.request] \in Int
  BY <1>1 DEF Typed, TypeOK
<1>3. CASE x.kind # "verification"
  BY <1>1, <1>2, <1>3, StepFacts DEF ItemWithin, Grows
<1>4. CASE x.kind = "verification"
  BY <1>4 DEF ItemWithin
<1> QED BY <1>3, <1>4

LEMMA GrowsKeepsTasks ==
    ASSUME Typed, Typed', Grows, NoStepAhead,
           \A t \in TaskIds : Exists(t)' => Exists(t) /\ /\ task'[t].name = task[t].name
                                                        /\ task'[t].request = task[t].request
    PROVE  NoStepAhead'
<1> SUFFICES ASSUME NEW t \in TaskIds, Exists(t)', task'[t].name \in Steps,
                    request'[task'[t].request].exists
             PROVE  10 * Step[task'[t].name].index <= reached'[task'[t].request]
  BY DEF NoStepAhead
<1>1. /\ Exists(t) /\ task[t].name \in Steps /\ task[t].request \in RequestIds
      /\ task[t].request < nextRequest /\ request[task[t].request].exists
      /\ 10 * Step[task[t].name].index <= reached[task[t].request]
  BY DEF NoStepAhead, Typed, References, Grows
<1>2. reached[task[t].request] \in Int /\ reached'[task[t].request] \in Int
  BY <1>1 DEF Typed, TypeOK
<1> QED BY <1>1, <1>2, StepFacts DEF Grows

(* A step that moves one handler, whose new items are within reach.         *)
LEMMA HandlerKeepsReach ==
    ASSUME Typed, Typed', Grows, WithinReach, NEW h \in Handlers, NEW row,
           handler' = [handler EXCEPT ![h] = row],
           \A x \in row.todo : x \in handler[h].todo \/ ItemWithin(x)'
    PROVE  WithinReach'
<1> SUFFICES ASSUME NEW g \in Handlers, NEW x \in handler'[g].todo PROVE ItemWithin(x)'
  BY DEF WithinReach
<1>1. ASSUME NEW f \in Handlers, x \in handler[f].todo PROVE ItemWithin(x)'
  <2>1. /\ x \in Work /\ x.request < nextRequest /\ ItemWithin(x)
        /\ x.kind # "verification" => x.name \in Steps
    BY <1>1 DEF Typed, TypeOK, HandlerRow, References, RefersBelow, ItemRefers, WithinReach
  <2> QED BY <2>1, GrowsKeepsItem
<1>2. CASE g = h
  <2>1. handler'[g] = row
    BY <1>2 DEF Typed, TypeOK
  <2> QED BY <1>1, <1>2, <2>1
<1>3. CASE g # h
  <2>1. handler'[g] = handler[g]
    BY <1>3 DEF Typed, TypeOK
  <2> QED BY <1>1, <2>1
<1> QED BY <1>2, <1>3

LEMMA Reflexive ==
    ASSUME Typed, UNCHANGED <<request, reached>>
    PROVE  Grows
BY DEF Grows, Typed, TypeOK

LEMMA AddRequestGrows ==
    ASSUME Typed, NEW u \in Users, NEW w \in Workflows, AddRequest(u, w)
    PROVE  Grows
<1>1. \A r \in RequestIds : r # nextRequest => request'[r] = request[r] /\ reached'[r] = reached[r]
  BY AddRequestTyped
<1>2. \A r \in RequestIds : r < nextRequest => r # nextRequest
  BY TypedCounters DEF RequestIds
<1> QED BY <1>1, <1>2 DEF Grows, Typed, TypeOK

(* The items of the new request are within its first index.                 *)
LEMMA FirstWorkWithin ==
    ASSUME Typed, NEW u \in Users, NEW w \in Workflows, NEW d \in Nat, AddRequest(u, w)
    PROVE  \A x \in FirstWork(nextRequest, u, w, d) : ItemWithin(x)'
<1>1. nextRequest \in RequestIds /\ reached'[nextRequest] = StartIndex(u, w)
  BY AddRequestTyped
<1> QED BY <1>1, FirstWorkType DEF ItemWithin

LEMMA CreateRequestReach ==
    ASSUME Typed, Typed', WithinReach, NoStepAhead, NEW h \in Handlers,
           NEW u \in Users, NEW w \in Workflows, CreateRequest(h, u, w)
    PROVE  WithinReach' /\ NoStepAhead'
<1> DEFINE me == [Idle EXCEPT !.user = u]
           T == FirstWork(nextRequest, u, w, 0)
           row == WithTodo(me, T)
<1>1. AddRequest(u, w) /\ handler' = [handler EXCEPT ![h] = row] /\ task' = task
  BY DEF CreateRequest
<1>2. Grows
  BY <1>1, AddRequestGrows
<1>3. \A x \in T : ItemWithin(x)'
  BY <1>1, FirstWorkWithin
<1>4. me \in HandlerRow /\ T \in SUBSET Work
  BY <1>1, IdleType, AddRequestTyped, FirstWorkType DEF HandlerRow
<1> HIDE DEF me, T
<1>5. row.todo = T
  BY <1>4, WithTodoType
<1> HIDE DEF row
<1>6. WithinReach'
  BY <1>1, <1>2, <1>3, <1>5, HandlerKeepsReach
<1>7. NoStepAhead'
  BY <1>1, <1>2, GrowsKeepsTasks DEF Exists
<1> QED BY <1>6, <1>7

LEMMA AdvanceRequestReach ==
    ASSUME Typed, Typed', WithinReach, NoStepAhead, NEW h \in Handlers, AdvanceRequest(h)
    PROVE  WithinReach' /\ NoStepAhead'
<1> DEFINE me == handler[h]
           r == me.request
           T == WorkAfter(me, request[r])
           row == WithTodo(me, T)
           new == MovedRequest(me, request[r])
<1>1. /\ me \in HandlerRow /\ r \in RequestIds /\ request[r] \in RequestRow /\ me.user \in Users
      /\ handler' = [handler EXCEPT ![h] = row] /\ task' = task
  BY DEF AdvanceRequest, Typed, TypeOK, References, RefersBelow
<1>2. /\ T \in SUBSET Work
      /\ \A x \in T : /\ x.request = r
                      /\ x.kind # "verification" =>
                            x.name \in Steps /\ 10 * Step[x.name].index = new.current_index
  BY <1>1, WorkAfterType
<1>3. new \in RequestRow /\ new.exists = request[r].exists
  BY <1>1, MovedType
<1>4. IF request[r].exists
      THEN /\ request' = [request EXCEPT ![r] = new]
           /\ reached' = [reached EXCEPT ![r] = HighestOf(@, new.current_index)]
      ELSE request' = request /\ reached' = reached
  BY DEF AdvanceRequest
<1> HIDE DEF T, new
<1>5. row.todo = T
  BY <1>1, <1>2, WithTodoType
<1>6. new.current_index \in Int /\ \A q \in RequestIds : reached[q] \in Int
  BY <1>3 DEF RequestRow, Typed, TypeOK
<1>7. /\ \A q \in RequestIds : reached'[q] >= reached[q]
      /\ request[r].exists => reached'[r] >= new.current_index
  BY <1>1, <1>4, <1>6 DEF Typed, TypeOK, HighestOf
<1>8. \A q \in RequestIds : request'[q].exists = request[q].exists
  BY <1>1, <1>3, <1>4 DEF Typed, TypeOK
<1>9. Grows
  BY <1>7, <1>8 DEF Grows
<1>10. \A x \in T : ItemWithin(x)'
  <2>1. reached'[r] \in Int
    BY <1>1 DEF Typed, TypeOK
  <2> QED BY <1>1, <1>2, <1>6, <1>7, <1>8, <2>1 DEF ItemWithin
<1> HIDE DEF row
<1>11. WithinReach'
  BY <1>1, <1>5, <1>9, <1>10, HandlerKeepsReach
<1>12. NoStepAhead'
  BY <1>1, <1>9, GrowsKeepsTasks DEF Exists
<1> QED BY <1>11, <1>12

LEMMA PrepareTaskReach ==
    ASSUME Typed, Typed', WithinReach, NoStepAhead, NEW h \in Handlers,
           NEW x \in handler[h].todo, PrepareTask(h, x)
    PROVE  WithinReach' /\ NoStepAhead'
<1> DEFINE me == handler[h]
           w == Step[x.name].wraps
           new == FirstWork(nextRequest, me.user, w, x.depth + 2)
           kept == (me.todo \ {x}) \cup OwnWork(x)
<1>1. /\ me \in HandlerRow /\ me.user \in Users
      /\ x \in Work /\ x.kind = "prepare" /\ x.name \in Steps /\ x.depth + 2 \in Nat
      /\ x.request < nextRequest /\ ItemWithin(x)
      /\ me.todo \in SUBSET Work
  BY DEF PrepareTask, Typed, TypeOK, HandlerRow, Work, References, RefersBelow, ItemRefers, WithinReach
<1>2. Grows
  <2>1. CASE Wraps(x)
    <3>1. w \in Workflows
      BY <1>1, <2>1, StepFacts DEF Wraps
    <3> QED BY <1>1, <2>1, <3>1, AddRequestGrows DEF PrepareTask
  <2>2. CASE ~Wraps(x)
    BY <2>2, Reflexive DEF PrepareTask
  <2> QED BY <2>1, <2>2
<1>3. ItemWithin(x)'
  BY <1>1, <1>2, GrowsKeepsItem
<1>4. \A y \in OwnWork(x) : ItemWithin(y)'
  <2>1. \A y \in OwnWork(x) : y.request = x.request /\ y.name = x.name
    BY <1>1, OwnWorkType
  <2> QED BY <1>1, <1>3, <2>1 DEF ItemWithin
<1>5. kept \in SUBSET Work /\ \A y \in kept : y \in me.todo \/ ItemWithin(y)'
  BY <1>1, <1>4, OwnWorkType
<1>6. task' = task
  BY DEF PrepareTask
<1>7. WithinReach'
  <2>1. CASE Wraps(x)
    <3>1. w \in Workflows
      BY <1>1, <2>1, StepFacts DEF Wraps
    <3>2. AddRequest(me.user, w) /\ handler' = [handler EXCEPT ![h] = WithTodo(me, kept \cup new)]
      BY <2>1 DEF PrepareTask
    <3>3. \A y \in new : ItemWithin(y)'
      BY <1>1, <3>1, <3>2, FirstWorkWithin
    <3>4. new \in SUBSET Work
      BY <1>1, <3>1, <3>2, AddRequestTyped, FirstWorkType
    <3> HIDE DEF new, kept
    <3>5. WithTodo(me, kept \cup new).todo = kept \cup new
      BY <1>1, <1>5, <3>4, WithTodoType
    <3> QED BY <1>2, <1>5, <3>2, <3>3, <3>5, HandlerKeepsReach
  <2>2. CASE ~Wraps(x)
    <3>1. handler' = [handler EXCEPT ![h] = WithTodo(me, kept)]
      BY <2>2 DEF PrepareTask
    <3> HIDE DEF kept
    <3>2. WithTodo(me, kept).todo = kept
      BY <1>1, <1>5, WithTodoType
    <3> QED BY <1>2, <1>5, <3>1, <3>2, HandlerKeepsReach
  <2> QED BY <2>1, <2>2
<1>8. NoStepAhead'
  BY <1>2, <1>6, GrowsKeepsTasks DEF Exists
<1> QED BY <1>7, <1>8

LEMMA FindTaskReach ==
    ASSUME Typed, Typed', WithinReach, NoStepAhead, NEW h \in Handlers,
           NEW x \in handler[h].todo, FindTask(h, x)
    PROVE  WithinReach' /\ NoStepAhead'
<1> DEFINE me == handler[h]
           y == [x EXCEPT !.kind = "insert"]
           T == IF Duplicates(x, me.user) # {} THEN me.todo \ {x} ELSE (me.todo \ {x}) \cup {y}
<1>1. /\ me \in HandlerRow /\ me.todo \in SUBSET Work
      /\ x \in Work /\ x.kind = "task" /\ ItemWithin(x)
  BY DEF FindTask, Typed, TypeOK, HandlerRow, WithinReach
<1>2. y \in Work /\ y.request = x.request /\ y.name = x.name
  BY <1>1 DEF Work
<1>3. UNCHANGED <<request, reached, task>> /\ handler' = [handler EXCEPT ![h] = WithTodo(me, T)]
  BY DEF FindTask
<1> HIDE DEF y
<1>4. Grows
  BY <1>3, Reflexive
<1>5. ItemWithin(y)'
  BY <1>1, <1>2, <1>3 DEF ItemWithin
<1>6. T \in SUBSET Work /\ \A z \in T : z \in me.todo \/ ItemWithin(z)'
  BY <1>1, <1>2, <1>5
<1> HIDE DEF T
<1>7. WithTodo(me, T).todo = T
  BY <1>1, <1>6, WithTodoType
<1>8. WithinReach'
  BY <1>3, <1>4, <1>6, <1>7, HandlerKeepsReach
<1>9. NoStepAhead'
  BY <1>3, <1>4, GrowsKeepsTasks DEF Exists
<1> QED BY <1>8, <1>9

LEMMA InsertFailsReach ==
    ASSUME Typed, Typed', WithinReach, NoStepAhead, NEW h \in Handlers,
           NEW x \in handler[h].todo, InsertFails(h, x)
    PROVE  WithinReach' /\ NoStepAhead'
<1> DEFINE me == handler[h]
           kept == (me.todo \ {x}) \cup (IF x.kind = "prepare" THEN OwnWork(x) ELSE {})
<1>1. /\ me \in HandlerRow /\ me.todo \in SUBSET Work
      /\ x \in Work /\ ItemWithin(x)
      /\ UNCHANGED <<request, reached, task>> /\ handler' = [handler EXCEPT ![h] = WithTodo(me, kept)]
      /\ x.kind = "prepare" => x.name \in Steps
  BY DEF InsertFails, Typed, TypeOK, HandlerRow, WithinReach, References, RefersBelow, ItemRefers
<1>2. Grows
  BY <1>1, Reflexive
<1>3. /\ OwnWork(x) \in SUBSET Work
      /\ \A z \in OwnWork(x) : z.request = x.request /\ z.name = x.name
  BY <1>1, OwnWorkType
<1>4. \A z \in OwnWork(x) : x.kind = "prepare" => ItemWithin(z)'
  BY <1>1, <1>3 DEF ItemWithin
<1>5. kept \in SUBSET Work /\ \A z \in kept : z \in me.todo \/ ItemWithin(z)'
  BY <1>1, <1>3, <1>4
<1> HIDE DEF kept
<1>6. WithTodo(me, kept).todo = kept
  BY <1>1, <1>5, WithTodoType
<1>7. WithinReach'
  BY <1>1, <1>2, <1>5, <1>6, HandlerKeepsReach
<1>8. NoStepAhead'
  BY <1>1, <1>2, GrowsKeepsTasks DEF Exists
<1> QED BY <1>7, <1>8

LEMMA AddTaskReach ==
    ASSUME Typed, Typed', WithinReach, NoStepAhead, NEW h \in Handlers,
           NEW x \in handler[h].todo, NEW name, NEW user, AddTask(h, x, name, user),
           name \in Steps => name = x.name /\ x.kind # "verification"
    PROVE  WithinReach' /\ NoStepAhead'
<1> DEFINE me == handler[h]
           T == me.todo \ {x}
           new == [state |-> "pending", is_close |-> FALSE, request |-> x.request,
                   name |-> name, user |-> user, nexts |-> AllNexts]
<1>1. /\ me \in HandlerRow /\ T \in SUBSET Work /\ ItemWithin(x)
  BY DEF Typed, TypeOK, HandlerRow, WithinReach
<1>2. UNCHANGED <<request, reached>> /\ handler' = [handler EXCEPT ![h] = WithTodo(me, T)]
  BY DEF AddTask
<1>3. Grows
  BY <1>2, Reflexive
<1>4. WithTodo(me, T).todo = T
  BY <1>1, WithTodoType
<1>5. WithinReach'
  BY <1>2, <1>3, <1>4, HandlerKeepsReach
<1>6. task' = [task EXCEPT ![nextTask] = new]
  BY DEF AddTask
<1>7. name \in Steps /\ request[x.request].exists => 10 * Step[name].index <= reached[x.request]
  BY <1>1 DEF ItemWithin
<1>8. new.request = x.request /\ new.name = name
  OBVIOUS
<1> HIDE DEF new
<1>9. NoStepAhead'
  <2> SUFFICES ASSUME NEW t \in TaskIds, Exists(t)', task'[t].name \in Steps,
                      request'[task'[t].request].exists
               PROVE  10 * Step[task'[t].name].index <= reached'[task'[t].request]
    BY DEF NoStepAhead
  <2>1. CASE t = nextTask
    <3>1. task'[t] = new
      BY <1>6, <2>1 DEF Typed, TypeOK
    <3> QED BY <1>2, <1>7, <1>8, <3>1
  <2>2. CASE t # nextTask
    <3>1. task'[t] = task[t]
      BY <1>6, <2>2 DEF Typed, TypeOK
    <3> QED BY <1>2, <3>1 DEF Exists, NoStepAhead
  <2> QED BY <2>1, <2>2
<1> QED BY <1>5, <1>9

(* Steps that change neither a request nor, but for its verdict, a task.    *)
LEMMA QuietReach ==
    ASSUME Typed, Typed', WithinReach, NoStepAhead, UNCHANGED <<request, reached>>,
           \A h \in Handlers : handler'[h].todo \subseteq handler[h].todo,
           \A t \in TaskIds : Exists(t)' => Exists(t) /\ /\ task'[t].name = task[t].name
                                                        /\ task'[t].request = task[t].request
    PROVE  WithinReach' /\ NoStepAhead'
<1>1. NoStepAhead'
  BY Reflexive, GrowsKeepsTasks
<1>2. WithinReach'
  BY DEF WithinReach, ItemWithin
<1> QED BY <1>1, <1>2

LEMMA NextReach ==
    ASSUME ~UpdatesMayFail, Typed, WithinReach, NoStepAhead, [Next]_vars
    PROVE  WithinReach' /\ NoStepAhead'
<1> DEFINE Goal == WithinReach' /\ NoStepAhead'
<1>1. Typed'
  BY NextTyped
<1>2. \A h \in Handlers : /\ handler[h] \in HandlerRow
                          /\ \A row : handler' = [handler EXCEPT ![h] = row] =>
                                \A g \in Handlers : handler'[g] = IF g = h THEN row ELSE handler[g]
  BY DEF Typed, TypeOK
<1>3. ASSUME NEW r \in RequestIds, DeleteRequest(r) PROVE Goal
  <2>1. Grows
    BY <1>3 DEF DeleteRequest, Grows, Typed, TypeOK, RequestRow
  <2>2. \A t \in TaskIds : Exists(t)' => Exists(t) /\ task'[t] = task[t]
    BY <1>3 DEF DeleteRequest, Exists
  <2>3. NoStepAhead'
    BY <1>1, <2>1, <2>2, GrowsKeepsTasks
  <2>4. WithinReach'
    <3> SUFFICES ASSUME NEW h \in Handlers, NEW x \in handler[h].todo PROVE ItemWithin(x)'
      BY <1>3 DEF WithinReach, DeleteRequest
    <3>1. /\ x \in Work /\ x.request < nextRequest /\ ItemWithin(x)
          /\ x.kind # "verification" => x.name \in Steps
      BY DEF Typed, TypeOK, HandlerRow, References, RefersBelow, ItemRefers, WithinReach
    <3> QED BY <1>1, <2>1, <3>1, GrowsKeepsItem
  <2> QED BY <2>3, <2>4
<1>4. ASSUME NEW r \in RequestIds, NEW s \in Edits, EditRequest(r, s) PROVE Goal
  <2>1. request[r] \in RequestRow
    BY DEF Typed, TypeOK
  <2>2. \A q \in RequestIds : request'[q].exists = request[q].exists
    BY <1>4, <2>1, RequestClosure DEF EditRequest, Typed, TypeOK
  <2>3. Grows
    BY <1>4, <2>2 DEF EditRequest, Grows, Typed, TypeOK
  <2>4. NoStepAhead'
    BY <1>1, <1>4, <2>3, GrowsKeepsTasks DEF EditRequest, Exists
  <2>5. WithinReach'
    <3> SUFFICES ASSUME NEW h \in Handlers, NEW x \in handler[h].todo PROVE ItemWithin(x)'
      BY <1>4 DEF WithinReach, EditRequest
    <3>1. /\ x \in Work /\ x.request < nextRequest /\ ItemWithin(x)
          /\ x.kind # "verification" => x.name \in Steps
      BY DEF Typed, TypeOK, HandlerRow, References, RefersBelow, ItemRefers, WithinReach
    <3> QED BY <1>1, <2>3, <3>1, GrowsKeepsItem
  <2> QED BY <2>4, <2>5
<1>5. ASSUME NEW h \in Handlers, Call(h) PROVE Goal
  <2>1. ASSUME NEW u \in Users, NEW t \in TaskIds, NEW v \in Verdicts, NEW n,
               SubmitTask(h, u, t, v, n)
        PROVE  Goal
    <3>1. /\ UNCHANGED <<request, reached, task>>
          /\ \A g \in Handlers : handler'[g].todo \subseteq handler[g].todo
      BY <1>2, <2>1, IdleType DEF SubmitTask, HandlerRow
    <3> QED BY <1>1, <3>1, QuietReach DEF Exists
  <2>2. ASSUME NEW u \in Users, NEW t \in TaskIds, DeleteTask(h, u, t) PROVE Goal
    <3>1. /\ UNCHANGED <<request, reached>>
          /\ \A g \in Handlers : handler'[g].todo \subseteq handler[g].todo
      BY <1>2, <2>2, IdleType DEF DeleteTask, HandlerRow
    <3>2. \A s \in TaskIds : Exists(s)' => Exists(s) /\ task'[s] = task[s]
      BY <2>2, NoTaskType DEF DeleteTask, Exists, Typed, TypeOK
    <3> QED BY <1>1, <3>1, <3>2, QuietReach
  <2> QED BY <1>1, <1>5, <2>1, <2>2, CreateRequestReach DEF Call
<1>6. ASSUME NEW h \in Handlers, UpdateTask(h) PROVE Goal
  <2>1. /\ UNCHANGED <<request, reached>>
        /\ \A g \in Handlers : handler'[g].todo \subseteq handler[g].todo
    BY <1>2, <1>6 DEF UpdateTask, HandlerRow
  <2>2. \A s \in TaskIds : Exists(s)' => Exists(s) /\ /\ task'[s].name = task[s].name
                                                     /\ task'[s].request = task[s].request
    <3> DEFINE me == handler[h]
               new == [SetClosureStatus(task[me.task], me.verdict) EXCEPT !.nexts = me.nexts]
    <3>1. me.task \in TaskIds /\ task[me.task] \in TaskRow /\ me.nexts \in Nexts
      BY <1>6 DEF UpdateTask, Typed, TypeOK, References, RefersBelow, HandlerRow
    <3>2. new.request = task[me.task].request /\ new.name = task[me.task].name
      <4> DEFINE row == task[me.task]
                 state == me.verdict
      <4>1. row \in TaskRow
        BY <3>1
      <4> HIDE DEF row, state, me
      <4> QED BY <4>1 DEF SetClosureStatus, TaskRow, row, state
    <3>3. IF Exists(me.task) THEN task' = [task EXCEPT ![me.task] = new] ELSE task' = task
      BY <1>6 DEF UpdateTask
    <3> HIDE DEF new
    <3> QED BY <3>1, <3>2, <3>3 DEF Exists, Typed, TypeOK
  <2> QED BY <1>1, <2>1, <2>2, QuietReach
<1>7. ASSUME NEW h \in Handlers, RereadTask(h) \/ ReadRequest(h) \/ CheckOthers(h) PROVE Goal
  <2>1. /\ UNCHANGED <<request, reached, task>>
        /\ \A g \in Handlers : handler'[g].todo \subseteq handler[g].todo
    <3>1. CASE RereadTask(h)
      <4> DEFINE me == handler[h]
                 row == IF CheckStateIsEnded(task[me.task].state)
                        THEN [me EXCEPT !.pc = "request", !.verdict = task[me.task].state,
                                        !.nexts = task[me.task].nexts]
                        ELSE Idle
      <4>1. handler' = [handler EXCEPT ![h] = row] /\ UNCHANGED <<request, reached, task>>
        BY <1>2, <3>1 DEF RereadTask, Typed, TypeOK
      <4>2. row.todo \subseteq handler[h].todo
        BY <1>2, IdleType DEF HandlerRow
      <4> HIDE DEF row
      <4> QED BY <1>2, <4>1, <4>2
    <3>2. CASE ReadRequest(h)
      <4> DEFINE me == handler[h]
                 row == IF request[me.request].exists
                        THEN [me EXCEPT !.pc = "others", !.index = request[me.request].current_index,
                                        !.ended = CheckStateIsEnded(request[me.request].state)]
                        ELSE Idle
      <4>1. handler' = [handler EXCEPT ![h] = row] /\ UNCHANGED <<request, reached, task>>
        BY <1>2, <3>2 DEF ReadRequest, Typed, TypeOK
      <4>2. row.todo \subseteq handler[h].todo
        BY <1>2, IdleType DEF HandlerRow
      <4> HIDE DEF row
      <4> QED BY <1>2, <4>1, <4>2
    <3>3. CASE CheckOthers(h)
      <4> DEFINE me == handler[h]
                 row == IF \E t \in OpenTasks(me.request) : task[t].name # me.name
                        THEN Idle ELSE [me EXCEPT !.pc = "advance"]
      <4>1. handler' = [handler EXCEPT ![h] = row] /\ UNCHANGED <<request, reached, task>>
        BY <1>2, <3>3 DEF CheckOthers, Typed, TypeOK
      <4>2. row.todo \subseteq handler[h].todo
        BY <1>2, IdleType DEF HandlerRow
      <4> HIDE DEF row
      <4> QED BY <1>2, <4>1, <4>2
    <3> QED BY <1>7, <3>1, <3>2, <3>3
  <2> QED BY <1>1, <2>1, QuietReach DEF Exists
<1>8. ASSUME NEW h \in Handlers, NEW x \in handler[h].todo,
             InsertTask(h, x) \/ InsertVerification(h, x)
      PROVE  Goal
  <2>1. CASE InsertTask(h, x)
    BY <1>1, <2>1, AddTaskReach DEF InsertTask
  <2>2. CASE InsertVerification(h, x)
    BY <1>1, <2>2, ConfigAssumption, AddTaskReach DEF InsertVerification
  <2> QED BY <1>8, <2>1, <2>2
<1>9. ASSUME NEW h \in Handlers, Proceed(h) PROVE Goal
  <2>1. Due(h) \subseteq handler[h].todo
    BY DEF Due
  <2>2. CASE \E x \in Due(h) : \/ PrepareTask(h, x) \/ FindTask(h, x)
                              \/ InsertTask(h, x) \/ InsertVerification(h, x)
                              \/ InsertFails(h, x)
    BY <1>1, <1>8, <2>1, <2>2, PrepareTaskReach, FindTaskReach, InsertFailsReach
  <2>3. CASE \/ UpdateTask(h) \/ RereadTask(h) \/ ReadRequest(h) \/ CheckOthers(h)
             \/ AdvanceRequest(h)
    BY <1>1, <1>6, <1>7, <2>3, AdvanceRequestReach
  <2>4. ~UpdateTaskFails(h) /\ ~AdvanceRequestFails(h)
    BY DEF UpdateTaskFails, AdvanceRequestFails
  <2> QED BY <1>9, <2>2, <2>3, <2>4 DEF Proceed
<1>10. CASE UNCHANGED vars
  BY <1>1, <1>10, QuietReach DEF vars, Exists
<1> QED BY <1>3, <1>4, <1>5, <1>9, <1>10 DEF Next, ByHand

(* As long as no UPDATE is refused, no task belongs to a step its request   *)
(* has not reached.                                                         *)
THEOREM NoStepAheadCorrect ==
    ASSUME ~UpdatesMayFail
    PROVE  Spec => []NoStepAhead
<1> DEFINE Inv == Typed /\ WithinReach /\ NoStepAhead
<1>1. Init => Inv
  <2>1. Init => WithinReach
    BY IdleType DEF Init, WithinReach
  <2>2. Init => NoStepAhead
    BY NoTaskType DEF Init, NoStepAhead, Exists
  <2> QED BY <2>1, <2>2, InitTyped
<1>2. Inv /\ [Next]_vars => Inv'
  BY NextTyped, NextReach
<1>3. Inv => NoStepAhead
  OBVIOUS
<1> QED BY <1>1, <1>2, <1>3, PTL DEF Spec

----------------------------------------------------------------------------
(***************************************************************************)
(* What holds when calls take turns: one handler, nothing deleted.  Then   *)
(* what a handler has read is still so when it acts on it; the request     *)
(* moves only when its step is answered, and the engine implements         *)
(* RequestPath.                                                            *)
(***************************************************************************)

InTurns == \A h, g \in Handlers : h = g

(* What a handler knows of the task it was sent, of the request, and of the *)
(* other tasks of the request.                                              *)
KnowsTask(me) ==
    /\ Exists(me.task) /\ task[me.task].request = me.request /\ task[me.task].name = me.name
    /\ me.pc = "update" /\ task[me.task].state \in Ended => me.verdict = task[me.task].state
    /\ me.pc \in {"request", "others", "advance"} =>
          me.verdict = task[me.task].state /\ me.verdict \in Ended
Knows(me) ==
    /\ me.pc \notin {"idle", "create"} => me.todo = {} /\ KnowsTask(me)
    /\ me.pc \in {"others", "advance"} => me.index = request[me.request].current_index
    /\ me.pc = "advance" => \A t \in OpenTasks(me.request) : task[t].name = me.name
Turn == \A h \in Handlers : Knows(handler[h])

(* What is still to be created belongs where its request stands.            *)
Here(x) ==
    IF x.kind = "verification"
    THEN \A s \in Steps : request[x.request].current_index # 10 * Step[s].index
    ELSE request[x.request].current_index = 10 * Step[x.name].index
PlacedCall(me) ==
    /\ me.pc # "create" => me.todo = {}
    /\ me.pc \in {"others", "advance"} => request[me.request].exists
    /\ \A x \in me.todo : Here(x)
PlacedRows ==
    /\ \A r \in RequestIds : /\ request[r].current_index >= -10
                             /\ r >= nextRequest => request[r].current_index = 0
    /\ \A t \in TaskIds : Exists(t) => t < nextTask
Placed == PlacedRows /\ \A h \in Handlers : PlacedCall(handler[h])


----------------------------------------------------------------------------
(* Knowledge of a handler that is idle or creates tasks is empty.           *)
LEMMA Unknowing ==
    ASSUME InTurns, NEW h \in Handlers, handler'[h].pc \in {"idle", "create"}
    PROVE  Turn'
BY DEF Turn, Knows, InTurns

(* The handler's row is the one that was written.                           *)
LEMMA Written ==
    ASSUME Typed, NEW h \in Handlers, NEW row, handler' = [handler EXCEPT ![h] = row]
    PROVE  handler'[h] = row
BY DEF Typed, TypeOK

LEMMA SubmitTaskTurn ==
    ASSUME InTurns, Typed, NEW h \in Handlers, NEW u \in Users, NEW t \in TaskIds,
           NEW v \in Verdicts, NEW n, SubmitTask(h, u, t, v, n)
    PROVE  Turn'
<1>1. PICK row : row = [Idle EXCEPT !.pc = "update", !.user = u, !.task = t,
                                    !.request = task[t].request, !.name = task[t].name,
                                    !.verdict = v, !.nexts = n]
  OBVIOUS
<1>2. handler'[h] = row
  BY <1>1, Written DEF SubmitTask
<1>3. /\ row.pc = "update" /\ row.task = t /\ row.request = task[t].request
      /\ row.name = task[t].name /\ row.verdict = v /\ row.todo = {}
  BY <1>1, IdleType DEF HandlerRow
<1>4. task' = task /\ Exists(t) /\ (task[t].state \in Ended => task[t].state = v)
  BY DEF SubmitTask, CheckStateIsEnded
<1> QED BY <1>2, <1>3, <1>4 DEF Turn, Knows, KnowsTask, InTurns, Exists

LEMMA UpdateTaskTurn ==
    ASSUME InTurns, Typed, Turn, NEW h \in Handlers, UpdateTask(h)
    PROVE  Turn'
<1> DEFINE me == handler[h]
           t == me.task
           new == [SetClosureStatus(task[t], me.verdict) EXCEPT !.nexts = me.nexts]
<1>1. PICK row : row = [me EXCEPT !.pc = "reread"]
  OBVIOUS
<1>2. handler'[h] = row
  BY <1>1, Written DEF UpdateTask
<1>3. /\ me \in HandlerRow /\ me.pc = "update" /\ me.todo = {} /\ KnowsTask(me)
      /\ t \in TaskIds /\ task[t] \in TaskRow /\ me.nexts \in Nexts
  BY DEF UpdateTask, Typed, TypeOK, References, RefersBelow, HandlerRow, Turn, Knows
<1>4. /\ row.pc = "reread" /\ row.task = t /\ row.request = me.request
      /\ row.name = me.name /\ row.todo = {}
  BY <1>1, <1>3 DEF HandlerRow
<1>5. new.request = task[t].request /\ new.name = task[t].name /\ new.state # "none"
  <2> DEFINE row0 == task[t]
             verdict == me.verdict
             nexts == me.nexts
  <2>1. row0 \in TaskRow /\ nexts \in Nexts
    BY <1>3
  <2> HIDE DEF row0, verdict, nexts
  <2>2. LET n == [SetClosureStatus(row0, verdict) EXCEPT !.nexts = nexts] IN
        n.request = row0.request /\ n.name = row0.name /\ n.state # "none"
    BY <2>1, TaskClosure
  <2> QED BY <2>2 DEF row0, verdict, nexts
<1>6. task' = [task EXCEPT ![t] = new]
  BY <1>3 DEF UpdateTask, KnowsTask
<1> HIDE DEF new
<1>7. task'[t] = new
  BY <1>3, <1>6 DEF Typed, TypeOK
<1>8. KnowsTask(row)'
  BY <1>3, <1>4, <1>5, <1>7 DEF KnowsTask, Exists
<1> QED BY <1>2, <1>4, <1>8 DEF Turn, Knows, KnowsTask, InTurns

LEMMA RereadTaskTurn ==
    ASSUME InTurns, Typed, Turn, NEW h \in Handlers, RereadTask(h)
    PROVE  Turn'
<1> DEFINE me == handler[h]
           t == me.task
<1>1. PICK row : row = IF CheckStateIsEnded(task[t].state)
                       THEN [me EXCEPT !.pc = "request", !.verdict = task[t].state,
                                       !.nexts = task[t].nexts]
                       ELSE Idle
  OBVIOUS
<1>2. handler'[h] = row
  <2>1. handler' = [handler EXCEPT ![h] = row]
    BY <1>1 DEF RereadTask, Typed, TypeOK
  <2> QED BY <2>1, Written
<1>3. /\ me \in HandlerRow /\ me.pc = "reread" /\ me.todo = {} /\ KnowsTask(me)
      /\ t \in TaskIds /\ task[t] \in TaskRow /\ task' = task
  BY DEF RereadTask, Typed, TypeOK, References, RefersBelow, HandlerRow, Turn, Knows
<1>4. CASE CheckStateIsEnded(task[t].state)
  <2>1. /\ row.pc = "request" /\ row.task = t /\ row.request = me.request
        /\ row.name = me.name /\ row.todo = {} /\ row.verdict = task[t].state
    BY <1>1, <1>3, <1>4 DEF HandlerRow
  <2>2. KnowsTask(row)'
    BY <1>3, <1>4, <2>1 DEF KnowsTask, Exists, CheckStateIsEnded
  <2> QED BY <1>2, <2>1, <2>2 DEF Turn, Knows, KnowsTask, InTurns
<1>5. CASE ~CheckStateIsEnded(task[t].state)
  BY <1>1, <1>2, <1>5, IdleType, Unknowing
<1> QED BY <1>4, <1>5

LEMMA ReadRequestTurn ==
    ASSUME InTurns, Typed, Turn, NEW h \in Handlers, ReadRequest(h)
    PROVE  Turn'
<1> DEFINE me == handler[h]
           r == me.request
<1>1. PICK row : row = IF request[r].exists
                       THEN [me EXCEPT !.pc = "others", !.index = request[r].current_index,
                                       !.ended = CheckStateIsEnded(request[r].state)]
                       ELSE Idle
  OBVIOUS
<1>2. handler'[h] = row
  <2>1. handler' = [handler EXCEPT ![h] = row]
    BY <1>1 DEF ReadRequest, Typed, TypeOK
  <2> QED BY <2>1, Written
<1>3. /\ me \in HandlerRow /\ me.pc = "request" /\ me.todo = {} /\ KnowsTask(me)
      /\ task' = task /\ request' = request
  BY DEF ReadRequest, Typed, TypeOK, Turn, Knows
<1>4. CASE request[r].exists
  <2>1. /\ row.pc = "others" /\ row.task = me.task /\ row.request = r
        /\ row.name = me.name /\ row.todo = {} /\ row.verdict = me.verdict
        /\ row.index = request[r].current_index
    BY <1>1, <1>3, <1>4 DEF HandlerRow
  <2>2. KnowsTask(row)'
    BY <1>3, <2>1 DEF KnowsTask, Exists
  <2> QED BY <1>2, <1>3, <2>1, <2>2 DEF Turn, Knows, KnowsTask, InTurns
<1>5. CASE ~request[r].exists
  BY <1>1, <1>2, <1>5, IdleType, Unknowing
<1> QED BY <1>4, <1>5

LEMMA CheckOthersTurn ==
    ASSUME InTurns, Typed, Turn, NEW h \in Handlers, CheckOthers(h)
    PROVE  Turn'
<1> DEFINE me == handler[h]
           otherOpen == \E t \in OpenTasks(me.request) : task[t].name # me.name
<1>1. PICK row : row = IF otherOpen THEN Idle ELSE [me EXCEPT !.pc = "advance"]
  OBVIOUS
<1>2. handler'[h] = row
  <2>1. handler' = [handler EXCEPT ![h] = row]
    BY <1>1 DEF CheckOthers, Typed, TypeOK
  <2> QED BY <2>1, Written
<1>3. /\ me \in HandlerRow /\ me.pc = "others" /\ me.todo = {} /\ KnowsTask(me)
      /\ me.index = request[me.request].current_index
      /\ task' = task /\ request' = request
  BY DEF CheckOthers, Typed, TypeOK, Turn, Knows
<1>4. CASE ~otherOpen
  <2>1. /\ row.pc = "advance" /\ row.task = me.task /\ row.request = me.request
        /\ row.name = me.name /\ row.todo = {} /\ row.verdict = me.verdict
        /\ row.index = me.index
    BY <1>1, <1>3, <1>4 DEF HandlerRow
  <2>2. KnowsTask(row)'
    BY <1>3, <2>1 DEF KnowsTask, Exists
  <2>3. \A t \in OpenTasks(row.request)' : task'[t].name = row.name
    BY <1>3, <1>4, <2>1 DEF OpenTasks, TasksOf, Exists
  <2> QED BY <1>2, <1>3, <2>1, <2>2, <2>3 DEF Turn, Knows, KnowsTask, InTurns, OpenTasks, TasksOf, Exists
<1>5. CASE otherOpen
  BY <1>1, <1>2, <1>5, IdleType, Unknowing
<1> QED BY <1>4, <1>5


LEMMA TodoPc ==
    ASSUME NEW row \in HandlerRow, NEW T
    PROVE  WithTodo(row, T).pc \in {"idle", "create"}
BY IdleType DEF WithTodo, HandlerRow

(* The calls that create, or answer, know nothing.                          *)
LEMMA TodoTurn ==
    ASSUME InTurns, Typed, NEW h \in Handlers, NEW row \in HandlerRow, NEW T,
           handler' = [handler EXCEPT ![h] = WithTodo(row, T)]
    PROVE  Turn'
<1>1. handler'[h].pc \in {"idle", "create"}
  BY TodoPc DEF Typed, TypeOK
<1> QED BY <1>1, Unknowing

LEMMA QuietTurn ==
    ASSUME Turn, handler' = handler, task' = task,
           \A r : request'[r].current_index = request[r].current_index
    PROVE  Turn'
BY DEF Turn, Knows, KnowsTask, Exists, OpenTasks, TasksOf

LEMMA ItemTurn ==
    ASSUME InTurns, Typed, NEW h \in Handlers, NEW x,
           \/ PrepareTask(h, x) \/ FindTask(h, x) \/ InsertTask(h, x)
           \/ InsertVerification(h, x) \/ InsertFails(h, x)
    PROVE  Turn'
<1> DEFINE me == handler[h]
<1>1. me \in HandlerRow
  BY DEF Typed, TypeOK
<1>2. PICK T : handler' = [handler EXCEPT ![h] = WithTodo(me, T)]
  BY DEF PrepareTask, FindTask, InsertTask, InsertVerification, InsertFails, AddTask
<1> QED BY <1>1, <1>2, TodoTurn

LEMMA NextTurn ==
    ASSUME InTurns, ~Deletes, Typed, Turn, [Next]_vars
    PROVE  Turn'
<1>1. ASSUME NEW r \in RequestIds, NEW s \in Edits, EditRequest(r, s) PROVE Turn'
  <2>1. PICK new : new = SetClosureStatus(request[r], s)
    OBVIOUS
  <2>2. new.current_index = request[r].current_index
    BY <2>1 DEF SetClosureStatus, Typed, TypeOK, RequestRow
  <2>3. request' = [request EXCEPT ![r] = new] /\ UNCHANGED <<handler, task>>
    BY <1>1, <2>1 DEF EditRequest
  <2> QED BY <2>2, <2>3, QuietTurn DEF Typed, TypeOK
<1>2. ASSUME NEW h \in Handlers, NEW u \in Users, NEW w \in Workflows, CreateRequest(h, u, w)
      PROVE  Turn'
  <2>1. [Idle EXCEPT !.user = u] \in HandlerRow
    BY IdleType DEF HandlerRow
  <2> QED BY <1>2, <2>1, TodoTurn DEF CreateRequest
<1>3. ASSUME NEW h \in Handlers, AdvanceRequest(h) \/ AdvanceRequestFails(h) PROVE Turn'
  BY <1>3, TodoTurn DEF AdvanceRequest, AdvanceRequestFails, Typed, TypeOK
<1>4. ASSUME NEW h \in Handlers, UpdateTaskFails(h) PROVE Turn'
  BY <1>4, IdleType, Unknowing DEF UpdateTaskFails, Typed, TypeOK
<1>5. ASSUME NEW h \in Handlers, Call(h) PROVE Turn'
  BY <1>2, <1>5, SubmitTaskTurn DEF Call, DeleteTask
<1>6. ASSUME NEW h \in Handlers, Proceed(h) PROVE Turn'
  BY <1>3, <1>4, <1>6, UpdateTaskTurn, RereadTaskTurn, ReadRequestTurn, CheckOthersTurn, ItemTurn
     DEF Proceed
<1>7. CASE UNCHANGED vars
  BY <1>7, QuietTurn DEF vars
<1> QED BY <1>1, <1>5, <1>6, <1>7 DEF Next, ByHand, DeleteRequest

LEMMA InitTurn == Init => Turn
BY IdleType DEF Init, Turn, Knows

----------------------------------------------------------------------------
(* Only AdvanceRequest moves a request that stays.                          *)
LEMMA OnlyAdvanceMoves ==
    ASSUME Typed, [Next]_vars, NEW r \in RequestIds, request[r].exists, request'[r].exists,
           request'[r].current_index # request[r].current_index
    PROVE  \E h \in Handlers : AdvanceRequest(h) /\ handler[h].request = r
<1>1. ASSUME NEW q \in RequestIds, NEW s \in Edits, EditRequest(q, s) PROVE FALSE
  <2>1. PICK new : new = SetClosureStatus(request[q], s)
    OBVIOUS
  <2>2. new.current_index = request[q].current_index
    BY <2>1 DEF SetClosureStatus, Typed, TypeOK, RequestRow
  <2>3. request' = [request EXCEPT ![q] = new]
    BY <1>1, <2>1 DEF EditRequest
  <2> QED BY <2>2, <2>3 DEF Typed, TypeOK
<1>2. ASSUME NEW q \in RequestIds, DeleteRequest(q) PROVE FALSE
  BY <1>2 DEF DeleteRequest, Typed, TypeOK, RequestRow
<1>3. ASSUME NEW u \in Users, NEW w \in Workflows, AddRequest(u, w) PROVE FALSE
  <2>1. r # nextRequest
    BY TypedCounters DEF Typed, References, RequestIds
  <2> QED BY <1>3, <2>1, AddRequestTyped
<1>4. ASSUME NEW h \in Handlers, NEW x \in Due(h), PrepareTask(h, x) PROVE FALSE
  <2>1. x.name \in Steps /\ handler[h].user \in Users
    BY <1>4 DEF PrepareTask, Due, Typed, References, RefersBelow, ItemRefers
  <2>2. Wraps(x) => Step[x.name].wraps \in Workflows
    BY <2>1, StepFacts DEF Wraps
  <2> QED BY <1>3, <1>4, <2>1, <2>2 DEF PrepareTask
<1>5. ASSUME NEW h \in Handlers, AdvanceRequest(h) PROVE handler[h].request = r
  BY <1>5 DEF AdvanceRequest, Typed, TypeOK
<1>6. ASSUME NEW h \in Handlers, Call(h) PROVE FALSE
  BY <1>3, <1>6 DEF Call, CreateRequest, SubmitTask, DeleteTask
<1>7. ASSUME NEW h \in Handlers, Proceed(h)
      PROVE  AdvanceRequest(h) /\ handler[h].request = r
  BY <1>4, <1>5, <1>7 DEF Proceed, UpdateTask, UpdateTaskFails, RereadTask, ReadRequest, CheckOthers,
       AdvanceRequestFails, FindTask, InsertTask, InsertVerification, InsertFails, AddTask
<1> QED BY <1>1, <1>2, <1>6, <1>7 DEF Next, ByHand, vars

(* At the step that moves a request, its only open tasks bear the name of a *)
(* task that has been answered.                                             *)
LEMMA AdvanceAnswered ==
    ASSUME Typed, Turn, NEW h \in Handlers, handler[h].pc = "advance"
    PROVE  LET me == handler[h] IN
           /\ me.task \in TasksOf(me.request) /\ task[me.task].state \in Ended
           /\ task[me.task].name = me.name
           /\ \A t \in OpenTasks(me.request) : task[t].name = me.name
BY DEF Typed, References, RefersBelow, Turn, Knows, KnowsTask, TasksOf

(* StepGate: when calls take turns and no task is deleted, a request moves  *)
(* only once its step is answered, whatever the database refuses.           *)
THEOREM StepGateCorrect ==
    ASSUME InTurns, ~Deletes
    PROVE  Spec => StepGate
<1> DEFINE Inv == Typed /\ Turn
           Gate == \A r \in RequestIds :
                      /\ request[r].exists /\ request'[r].exists
                      /\ request'[r].current_index # request[r].current_index
                      => \A t \in OpenTasks(r) :
                             \E s \in TasksOf(r) : task[s].name = task[t].name /\ task[s].state \in Ended
<1>1. Init => Inv
  BY InitTyped, InitTurn
<1>2. Inv /\ [Next]_vars => Inv'
  BY NextTyped, NextTurn
<1>3. Inv /\ [Next]_vars => Gate
  <2> SUFFICES ASSUME Inv, [Next]_vars, NEW r \in RequestIds,
                      request[r].exists, request'[r].exists,
                      request'[r].current_index # request[r].current_index
               PROVE  \A t \in OpenTasks(r) :
                          \E s \in TasksOf(r) : task[s].name = task[t].name /\ task[s].state \in Ended
    OBVIOUS
  <2>1. PICK h \in Handlers : AdvanceRequest(h) /\ handler[h].request = r
    BY OnlyAdvanceMoves
  <2> QED BY <2>1, AdvanceAnswered DEF AdvanceRequest
<1> QED BY <1>1, <1>2, <1>3, PTL DEF Spec, StepGate


----------------------------------------------------------------------------
(* What is to be created is placed where its request stands.                *)

LEMMA MovedBounds ==
    ASSUME NEW me \in HandlerRow, NEW row \in RequestRow,
           me.index = row.current_index, row.current_index >= -10
    PROVE  MovedRequest(me, row).current_index \in -10 .. row.current_index + 10
<1> DEFINE i == Target(me)
           S == StepsAt(row.workflow, i)
           state == IF Refuses(me) THEN "refused" ELSE StateAt(row.workflow, i)
           index == CASE me.ended   -> -10
                      [] Refuses(me) /\ ~me.ended -> row.current_index
                      [] OTHER -> IF SomeBefore(S) THEN i - 1 ELSE i
           closed == SetClosureStatus(row, state)
<1>1. row.current_index \in Int
  BY DEF RequestRow
<1>2. i \in Int /\ i >= -10 /\ i <= row.current_index + 10
  BY <1>1 DEF Target, TargetIndex, Floor
<1>3. SomeBefore(S) => i >= 10
  <2>1. ASSUME NEW s \in S PROVE i >= 10
    BY <2>1, ConfigAssumption DEF StepsAt, StepRow
  <2> QED BY <2>1 DEF SomeBefore
<1>4. index \in -10 .. row.current_index + 10
  BY <1>1, <1>2, <1>3 DEF HandlerRow
<1>5. closed \in RequestRow
  BY RequestClosure
<1>6. MovedRequest(me, row) = [closed EXCEPT !.current_index = index]
  BY DEF MovedRequest
<1> HIDE DEF i, S, state, index, closed
<1> QED BY <1>4, <1>5, <1>6 DEF RequestRow

LEMMA MovedHere ==
    ASSUME NEW me \in HandlerRow, NEW row \in RequestRow,
           me.request \in RequestIds, me.user \in Users
    PROVE  \A x \in WorkAfter(me, row) :
              IF x.kind = "verification"
              THEN \A s \in Steps : MovedRequest(me, row).current_index # 10 * Step[s].index
              ELSE MovedRequest(me, row).current_index = 10 * Step[x.name].index
<1> DEFINE i == Target(me)
           S == StepsAt(row.workflow, i)
           state == IF Refuses(me) THEN "refused" ELSE StateAt(row.workflow, i)
           closed == SetClosureStatus(row, state)
<1> SUFFICES ASSUME NEW x \in WorkAfter(me, row), x.kind = "verification"
             PROVE  \A s \in Steps : MovedRequest(me, row).current_index # 10 * Step[s].index
  BY WorkAfterType
<1>1. ~me.ended /\ ~Refuses(me)
  BY DEF WorkAfter
<1>2. SomeBefore(S)
  <2>1. SUFFICES ASSUME ~SomeBefore(S) PROVE FALSE
    OBVIOUS
  <2>2. x \in StepWork(S, me.request, me.nexts, "task", 0)
    BY <1>1, <2>1 DEF WorkAfter
  <2>3. x.kind = "prepare"
    BY <2>2 DEF StepWork, Item
  <2> QED BY <2>3
<1>3. PICK b \in Steps : 10 * Step[b].index = i
  BY <1>2 DEF SomeBefore, StepsAt
<1>4. \A s \in Steps : i - 1 # 10 * Step[s].index
  BY <1>3, StepFacts
<1>5. MovedRequest(me, row).current_index = i - 1
  <2>1. closed \in RequestRow
    BY RequestClosure
  <2>2. MovedRequest(me, row) = [closed EXCEPT !.current_index = i - 1]
    BY <1>1, <1>2 DEF MovedRequest
  <2> HIDE DEF closed, i
  <2> QED BY <2>1, <2>2 DEF RequestRow
<1> QED BY <1>4, <1>5

(* The row of a new request, and its first items.                           *)
LEMMA NewRequestHere ==
    ASSUME Typed, NEW u \in Users, NEW w \in Workflows, NEW d \in Nat, AddRequest(u, w)
    PROVE  /\ request'[nextRequest].current_index \in {0, 10}
           /\ \A x \in FirstWork(nextRequest, u, w, d) :
                 /\ x.request = nextRequest
                 /\ IF x.kind = "verification"
                    THEN \A s \in Steps : request'[nextRequest].current_index # 10 * Step[s].index
                    ELSE request'[nextRequest].current_index = 10 * Step[x.name].index
<1> DEFINE r == nextRequest
           first == FirstWork(r, u, w, 0)
           new == [exists |-> TRUE, workflow |-> w, owner |-> u, state |-> "pending",
                   is_close |-> FALSE, current_index |-> StartIndex(u, w)]
<1>1. r \in RequestIds
  BY AddRequestTyped
<1>2. request'[r] = IF first = {} THEN NoRequest ELSE new
  BY <1>1 DEF AddRequest, Typed, TypeOK
<1>3. StartIndex(u, w) \in {0, 10} /\ NoRequest.current_index = 0
  BY StartType DEF NoRequest
<1>4. request'[r].current_index \in {0, 10}
  BY <1>2, <1>3
<1>5. FirstWork(r, u, w, d) # {} => first # {}
  BY DEF FirstWork, VerificationWork, StepWork
<1>6. ASSUME NEW x \in FirstWork(r, u, w, d)
      PROVE  /\ x.request = r
             /\ IF x.kind = "verification"
                THEN \A s \in Steps : request'[r].current_index # 10 * Step[s].index
                ELSE request'[r].current_index = 10 * Step[x.name].index
  <2>1. request'[r].current_index = StartIndex(u, w)
    BY <1>2, <1>5, <1>6
  <2>2. CASE StartIndex(u, w) = 0
    <3>1. x.kind = "verification" /\ x.request = r
      BY <1>6, <2>2 DEF FirstWork, VerificationWork, Item
    <3>2. \A s \in Steps : 10 * Step[s].index # 0
      BY ConfigAssumption DEF StepRow
    <3> QED BY <2>1, <2>2, <3>1, <3>2
  <2>3. CASE StartIndex(u, w) = 10
    <3>1. x \in StepWork(StepsAt(w, 10), r, AllNexts, "request", d)
      BY <1>6, <2>3 DEF FirstWork
    <3>2. x.kind = "prepare" /\ x.request = r /\ x.name \in StepsAt(w, 10)
      BY <3>1 DEF StepWork, Item
    <3> QED BY <2>1, <2>3, <3>2 DEF StepsAt
  <2> QED BY <1>3, <2>2, <2>3
<1> QED BY <1>4, <1>6


(* A call with more, or nothing, to create.                                 *)
LEMMA TodoPlaced ==
    ASSUME InTurns, Typed, NEW h \in Handlers, NEW me \in HandlerRow, NEW T \in SUBSET Work,
           handler' = [handler EXCEPT ![h] = WithTodo(me, T)],
           \A x \in T : Here(x)', PlacedRows'
    PROVE  Placed'
<1>1. PICK row : row = WithTodo(me, T)
  OBVIOUS
<1>2. handler'[h] = row
  BY <1>1, Written
<1>3. row.todo = T /\ row.pc \in {"idle", "create"} /\ (T = {} => row.pc = "idle")
  BY <1>1, WithTodoType
<1>4. T # {} => row.pc = "create"
  BY <1>1, WithTodoType DEF WithTodo, HandlerRow
<1> QED BY <1>2, <1>3, <1>4 DEF Placed, PlacedCall, InTurns

(* A step that creates nothing, and leaves the places of the requests.      *)
LEMMA QuietPlaced ==
    ASSUME Typed, Placed, UNCHANGED <<nextRequest, nextTask>>,
           \A r \in RequestIds : /\ request'[r].current_index = request[r].current_index
                                 /\ request'[r].exists = request[r].exists,
           \A t \in TaskIds : Exists(t)' => Exists(t),
           \A h \in Handlers :
              \/ handler'[h] = handler[h]
              \/ /\ handler'[h].todo = {}
                 /\ handler'[h].pc \in {"others", "advance"} =>
                        handler'[h].request \in RequestIds /\ request[handler'[h].request].exists
    PROVE  Placed'
<1>1. PlacedRows'
  BY DEF Placed, PlacedRows
<1>2. ASSUME NEW h \in Handlers PROVE PlacedCall(handler[h])'
  <2>1. CASE handler'[h] = handler[h]
    <3>1. /\ \A x \in handler[h].todo : x.request \in RequestIds
          /\ handler[h].pc \in {"others", "advance"} => handler[h].request \in RequestIds
      BY DEF Typed, TypeOK, HandlerRow, Work, References, RefersBelow
    <3> QED BY <2>1, <3>1 DEF Placed, PlacedCall, Here
  <2>2. CASE handler'[h] # handler[h]
    BY <2>2 DEF PlacedCall
  <2> QED BY <2>1, <2>2
<1> QED BY <1>1, <1>2 DEF Placed

LEMMA CreateRequestPlaced ==
    ASSUME InTurns, Typed, Placed, NEW h \in Handlers, NEW u \in Users, NEW w \in Workflows,
           CreateRequest(h, u, w)
    PROVE  Placed'
<1> DEFINE T == FirstWork(nextRequest, u, w, 0)
<1>1. PICK me : me = [Idle EXCEPT !.user = u]
  OBVIOUS
<1>2. PICK todo : todo = T
  OBVIOUS
<1>3. AddRequest(u, w) /\ handler' = [handler EXCEPT ![h] = WithTodo(me, todo)]
  BY <1>1, <1>2 DEF CreateRequest
<1>4. me \in HandlerRow /\ todo \in SUBSET Work
  BY <1>1, <1>2, <1>3, IdleType, AddRequestTyped, FirstWorkType DEF HandlerRow
<1>5. /\ request'[nextRequest].current_index \in {0, 10}
      /\ \A x \in todo : Here(x)'
  BY <1>2, <1>3, NewRequestHere DEF Here
<1>6. PlacedRows'
  BY <1>3, <1>5, AddRequestTyped, TypedCounters DEF Placed, PlacedRows, CreateRequest, Exists, RequestIds
<1> QED BY <1>3, <1>4, <1>5, <1>6, TodoPlaced

LEMMA AdvanceRequestPlaced ==
    ASSUME InTurns, Typed, Turn, Placed, NEW h \in Handlers, AdvanceRequest(h)
    PROVE  Placed'
<1> DEFINE r == handler[h].request
<1>1. PICK me : me = handler[h]
  OBVIOUS
<1>2. PICK todo : todo = WorkAfter(me, request[r])
  OBVIOUS
<1>3. PICK new : new = MovedRequest(me, request[r])
  OBVIOUS
<1>4. /\ me \in HandlerRow /\ r \in RequestIds /\ request[r] \in RequestRow
      /\ me.user \in Users /\ me.request = r /\ request[r].exists
      /\ me.index = request[r].current_index
      /\ request[r].current_index >= -10 /\ r < nextRequest
  BY <1>1 DEF AdvanceRequest, Typed, TypeOK, References, RefersBelow, Turn, Knows, Placed,
              PlacedCall, PlacedRows
<1>5. /\ handler' = [handler EXCEPT ![h] = WithTodo(me, todo)]
      /\ request' = [request EXCEPT ![r] = new]
      /\ UNCHANGED <<task, nextTask, nextRequest>>
  BY <1>1, <1>2, <1>3, <1>4 DEF AdvanceRequest
<1>6. todo \in SUBSET Work /\ \A x \in todo : x.request = r
  BY <1>2, <1>4, WorkAfterType
<1>7. request'[r] = new
  BY <1>4, <1>5 DEF Typed, TypeOK
<1>8. \A x \in todo : Here(x)'
  BY <1>2, <1>3, <1>4, <1>6, <1>7, MovedHere DEF Here
<1>9. new.current_index >= -10
  <2>1. request[r].current_index \in Int
    BY <1>4 DEF RequestRow
  <2> QED BY <1>3, <1>4, <2>1, MovedBounds
<1>10. PlacedRows'
  BY <1>4, <1>5, <1>9, TypedCounters DEF Typed, TypeOK, Placed, PlacedRows, Exists, RequestIds
<1> QED BY <1>4, <1>5, <1>6, <1>8, <1>10, TodoPlaced

LEMMA OwnWorkHere ==
    ASSUME NEW x \in Work, x.kind = "prepare", Here(x)
    PROVE  \A y \in OwnWork(x) : Here(y)
<1> SUFFICES ASSUME NEW y \in OwnWork(x) PROVE Here(y)
  OBVIOUS
<1>1. y = [x EXCEPT !.kind = "task", !.depth = x.depth + 1]
  BY DEF OwnWork
<1>2. y.kind = "task" /\ y.request = x.request /\ y.name = x.name
  BY <1>1 DEF Work
<1> QED BY <1>2 DEF Here


(* An item is at its place in the next state when its request keeps its.    *)
LEMMA StaysHere ==
    ASSUME NEW x, Here(x), request'[x.request].current_index = request[x.request].current_index
    PROVE  Here(x)'
BY DEF Here

(* What is known of a call that creates.                                    *)
LEMMA CreatingFacts ==
    ASSUME Typed, Placed, NEW h \in Handlers, NEW x \in handler[h].todo
    PROVE  /\ handler[h] \in HandlerRow /\ handler[h].user \in Users
           /\ handler[h].todo \in SUBSET Work
           /\ x \in Work /\ x.depth + 2 \in Nat
           /\ x.kind # "verification" => x.name \in Steps
           /\ \A y \in handler[h].todo : /\ y.request \in RequestIds /\ y.request < nextRequest
                                         /\ Here(y)
<1>1. handler[h].pc = "create" /\ \A y \in handler[h].todo : Here(y)
  BY DEF Placed, PlacedCall
<1> QED BY <1>1 DEF Typed, TypeOK, HandlerRow, Work, References, RefersBelow, ItemRefers

LEMMA PrepareTaskPlaced ==
    ASSUME InTurns, Typed, Placed, NEW h \in Handlers, NEW x \in handler[h].todo, PrepareTask(h, x)
    PROVE  Placed'
<1> DEFINE w == Step[x.name].wraps
           kept == (handler[h].todo \ {x}) \cup OwnWork(x)
           first == FirstWork(nextRequest, handler[h].user, w, x.depth + 2)
<1>1. PICK me : me = handler[h]
  OBVIOUS
<1>2. /\ me \in HandlerRow /\ me.user \in Users /\ me.todo \in SUBSET Work
      /\ x \in Work /\ x.kind = "prepare" /\ x.name \in Steps /\ x.depth + 2 \in Nat
      /\ \A y \in me.todo : y.request \in RequestIds /\ y.request < nextRequest /\ Here(y)
  BY <1>1, CreatingFacts DEF PrepareTask
<1>3. /\ kept \in SUBSET Work
      /\ \A y \in kept : y.request \in RequestIds /\ y.request < nextRequest /\ Here(y)
  BY <1>1, <1>2, OwnWorkType, OwnWorkHere
<1>4. CASE Wraps(x)
  <2>1. w \in Workflows
    BY <1>2, <1>4, StepFacts DEF Wraps
  <2>2. PICK todo : todo = kept \cup first
    OBVIOUS
  <2>3. AddRequest(me.user, w) /\ handler' = [handler EXCEPT ![h] = WithTodo(me, todo)]
    BY <1>1, <1>4, <2>2 DEF PrepareTask
  <2>4. /\ request'[nextRequest].current_index \in {0, 10}
        /\ first \in SUBSET Work
    BY <1>1, <1>2, <2>1, <2>3, AddRequestTyped, NewRequestHere, FirstWorkType
  <2>5. \A y \in first : Here(y)'
    BY <1>1, <1>2, <2>1, <2>3, NewRequestHere DEF Here
  <2>6. \A q \in RequestIds : q < nextRequest => request'[q] = request[q]
    BY <1>2, <2>1, <2>3, AddRequestTyped, TypedCounters DEF RequestIds
  <2>7. \A y \in kept : Here(y)'
    BY <1>3, <2>6, StaysHere
  <2> HIDE DEF kept, first
  <2>8. \A y \in todo : Here(y)'
    BY <2>2, <2>5, <2>7
  <2>9. PlacedRows'
    BY <1>2, <2>1, <2>3, <2>4, AddRequestTyped, TypedCounters
       DEF Placed, PlacedRows, PrepareTask, Exists, RequestIds
  <2>10. todo \in SUBSET Work
    BY <1>3, <2>2, <2>4
  <2> QED BY <1>2, <2>3, <2>8, <2>9, <2>10, TodoPlaced
<1>5. CASE ~Wraps(x)
  <2>1. PICK todo : todo = kept
    OBVIOUS
  <2>2. /\ handler' = [handler EXCEPT ![h] = WithTodo(me, todo)]
        /\ UNCHANGED <<request, nextRequest, task, nextTask>>
    BY <1>1, <1>5, <2>1 DEF PrepareTask
  <2> HIDE DEF kept
  <2>3. \A y \in todo : Here(y)'
    BY <1>3, <2>1, <2>2, StaysHere
  <2>4. PlacedRows'
    BY <2>2 DEF Placed, PlacedRows, Exists
  <2> QED BY <1>2, <1>3, <2>1, <2>2, <2>3, <2>4, TodoPlaced
<1> QED BY <1>4, <1>5

LEMMA FindTaskPlaced ==
    ASSUME InTurns, Typed, Placed, NEW h \in Handlers, NEW x \in handler[h].todo, FindTask(h, x)
    PROVE  Placed'
<1>1. PICK me : me = handler[h]
  OBVIOUS
<1>2. PICK y : y = [x EXCEPT !.kind = "insert"]
  OBVIOUS
<1>3. PICK todo : todo = IF Duplicates(x, me.user) # {} THEN me.todo \ {x} ELSE (me.todo \ {x}) \cup {y}
  OBVIOUS
<1>4. /\ me \in HandlerRow /\ me.todo \in SUBSET Work /\ x \in Work /\ x \in me.todo
      /\ \A z \in me.todo : Here(z)
  BY <1>1, CreatingFacts
<1>5. y \in Work /\ Here(y)
  <2>1. y \in Work /\ y.kind = "insert" /\ y.request = x.request /\ y.name = x.name
    BY <1>2, <1>4 DEF Work
  <2>2. x.kind = "task"
    BY DEF FindTask
  <2> QED BY <1>4, <2>1, <2>2 DEF Here
<1>6. todo \in SUBSET Work /\ \A z \in todo : Here(z)
  BY <1>3, <1>4, <1>5
<1>7. /\ handler' = [handler EXCEPT ![h] = WithTodo(me, todo)]
      /\ UNCHANGED <<request, nextRequest, task, nextTask>>
  BY <1>1, <1>2, <1>3 DEF FindTask
<1>8. PlacedRows' /\ \A z \in todo : Here(z)'
  BY <1>6, <1>7, StaysHere DEF Placed, PlacedRows, Exists
<1> QED BY <1>4, <1>6, <1>7, <1>8, TodoPlaced

LEMMA InsertFailsPlaced ==
    ASSUME InTurns, Typed, Placed, NEW h \in Handlers, NEW x \in handler[h].todo, InsertFails(h, x)
    PROVE  Placed'
<1>1. PICK me : me = handler[h]
  OBVIOUS
<1>2. PICK todo : todo = (me.todo \ {x}) \cup (IF x.kind = "prepare" THEN OwnWork(x) ELSE {})
  OBVIOUS
<1>3. /\ me \in HandlerRow /\ me.todo \in SUBSET Work /\ x \in Work /\ x \in me.todo
      /\ \A z \in me.todo : Here(z)
  BY <1>1, CreatingFacts
<1>4. todo \in SUBSET Work /\ \A z \in todo : Here(z)
  BY <1>2, <1>3, OwnWorkType, OwnWorkHere
<1>5. /\ handler' = [handler EXCEPT ![h] = WithTodo(me, todo)]
      /\ UNCHANGED <<request, nextRequest, task, nextTask>>
  BY <1>1, <1>2 DEF InsertFails
<1>6. PlacedRows' /\ \A z \in todo : Here(z)'
  BY <1>4, <1>5, StaysHere DEF Placed, PlacedRows, Exists
<1> QED BY <1>3, <1>4, <1>5, <1>6, TodoPlaced

LEMMA AddTaskPlaced ==
    ASSUME InTurns, Typed, Placed, NEW h \in Handlers, NEW x \in handler[h].todo,
           NEW name, NEW user, AddTask(h, x, name, user)
    PROVE  Placed'
<1>1. PICK me : me = handler[h]
  OBVIOUS
<1>2. PICK todo : todo = me.todo \ {x}
  OBVIOUS
<1>3. me \in HandlerRow /\ todo \in SUBSET Work /\ \A z \in todo : Here(z)
  BY <1>1, <1>2, CreatingFacts
<1>4. /\ handler' = [handler EXCEPT ![h] = WithTodo(me, todo)]
      /\ UNCHANGED <<request, nextRequest>> /\ nextTask' = nextTask + 1
      /\ \A t \in TaskIds : t # nextTask => task'[t] = task[t]
  BY <1>1, <1>2 DEF AddTask, Typed, TypeOK
<1>5. nextTask \in Int /\ TaskIds \subseteq Int
  BY BoundAssumption DEF Typed, TypeOK, TaskIds
<1>6. PlacedRows' /\ \A z \in todo : Here(z)'
  BY <1>3, <1>4, <1>5, StaysHere DEF Placed, PlacedRows, Exists
<1> QED BY <1>3, <1>4, <1>6, TodoPlaced

LEMMA NextPlaced ==
    ASSUME InTurns, ~Deletes, ~UpdatesMayFail, Typed, Turn, Placed, [Next]_vars
    PROVE  Placed'
<1>1. \A h \in Handlers : handler[h] \in HandlerRow /\ PlacedCall(handler[h])
  BY DEF Typed, TypeOK, Placed
<1>2. ASSUME NEW r \in RequestIds, NEW s \in Edits, EditRequest(r, s) PROVE Placed'
  <2>1. PICK new : new = SetClosureStatus(request[r], s)
    OBVIOUS
  <2>2. new.current_index = request[r].current_index /\ new.exists = request[r].exists
    BY <2>1 DEF SetClosureStatus, Typed, TypeOK, RequestRow
  <2>3. request' = [request EXCEPT ![r] = new] /\ UNCHANGED <<handler, task, nextTask, nextRequest>>
    BY <1>2, <2>1 DEF EditRequest
  <2>4. \A q \in RequestIds : /\ request'[q].current_index = request[q].current_index
                              /\ request'[q].exists = request[q].exists
    BY <2>2, <2>3 DEF Typed, TypeOK
  <2> QED BY <2>3, <2>4, QuietPlaced DEF Exists
<1>3. ASSUME NEW h \in Handlers, NEW u \in Users, NEW t \in TaskIds, NEW v \in Verdicts, NEW n,
             SubmitTask(h, u, t, v, n)
      PROVE  Placed'
  <2>1. handler'[h].todo = {} /\ handler'[h].pc = "update"
    BY <1>3, IdleType DEF SubmitTask, Typed, TypeOK, HandlerRow
  <2> QED BY <1>3, <2>1, QuietPlaced DEF SubmitTask, InTurns, Exists
<1>4. ASSUME NEW h \in Handlers, UpdateTask(h) PROVE Placed'
  <2>1. handler'[h].todo = {} /\ handler'[h].pc = "reread"
    BY <1>1, <1>4 DEF UpdateTask, HandlerRow, PlacedCall, Typed, TypeOK
  <2>2. \A t \in TaskIds : Exists(t)' => Exists(t)
    BY <1>4 DEF UpdateTask, Exists, Typed, TypeOK
  <2> QED BY <1>4, <2>1, <2>2, QuietPlaced DEF UpdateTask, InTurns
<1>5. ASSUME NEW h \in Handlers, RereadTask(h) PROVE Placed'
  <2>1. handler'[h].todo = {} /\ handler'[h].pc \in {"request", "idle"}
    BY <1>1, <1>5, IdleType DEF RereadTask, HandlerRow, PlacedCall, Typed, TypeOK
  <2> QED BY <1>5, <2>1, QuietPlaced DEF RereadTask, InTurns, Exists
<1>6. ASSUME NEW h \in Handlers, ReadRequest(h) PROVE Placed'
  <2>1. /\ handler'[h].todo = {} /\ handler'[h].pc \in {"others", "idle"}
        /\ handler'[h].pc = "others" => /\ handler'[h].request = handler[h].request
                                        /\ request[handler[h].request].exists
    BY <1>1, <1>6, IdleType DEF ReadRequest, HandlerRow, PlacedCall, Typed, TypeOK
  <2>2. handler[h].request \in RequestIds
    BY <1>6 DEF ReadRequest, Typed, References, RefersBelow
  <2> QED BY <1>6, <2>1, <2>2, QuietPlaced DEF ReadRequest, InTurns, Exists
<1>7. ASSUME NEW h \in Handlers, CheckOthers(h) PROVE Placed'
  <2>1. /\ handler'[h].todo = {} /\ handler'[h].pc \in {"advance", "idle"}
        /\ handler'[h].pc = "advance" => /\ handler'[h].request = handler[h].request
                                         /\ request[handler[h].request].exists
    BY <1>1, <1>7, IdleType DEF CheckOthers, HandlerRow, PlacedCall, Typed, TypeOK
  <2>2. handler[h].request \in RequestIds
    BY <1>7 DEF CheckOthers, Typed, References, RefersBelow
  <2> QED BY <1>7, <2>1, <2>2, QuietPlaced DEF CheckOthers, InTurns, Exists
<1>8. ASSUME NEW h \in Handlers, Call(h) PROVE Placed'
  BY <1>3, <1>8, CreateRequestPlaced DEF Call, DeleteTask
<1>9. ASSUME NEW h \in Handlers, Proceed(h) PROVE Placed'
  <2>1. Due(h) \subseteq handler[h].todo
    BY DEF Due
  <2> QED BY <1>4, <1>5, <1>6, <1>7, <1>9, <2>1, AdvanceRequestPlaced, PrepareTaskPlaced,
             FindTaskPlaced, InsertFailsPlaced, AddTaskPlaced
          DEF Proceed, UpdateTaskFails, AdvanceRequestFails, InsertTask, InsertVerification
<1>10. CASE UNCHANGED vars
  BY <1>10, QuietPlaced DEF vars, Exists
<1> QED BY <1>2, <1>8, <1>9, <1>10 DEF Next, ByHand, DeleteRequest

LEMMA InitPlaced == Init => Placed
BY IdleType, NoTaskType DEF Init, Placed, PlacedRows, PlacedCall, NoRequest, Exists


----------------------------------------------------------------------------
(* The refinement: what each action does to the path.                       *)

Pairs == <<At, StepsWith(Open), StepsWith(Ended)>>

LEMMA SamePlaces ==
    ASSUME \A r \in RequestIds : request'[r].current_index = request[r].current_index
    PROVE  UNCHANGED At
BY DEF At

LEMMA SameTasks ==
    ASSUME UNCHANGED task
    PROVE  UNCHANGED <<StepsWith(Open), StepsWith(Ended)>>
BY DEF StepsWith, TasksOf, Exists

(* One request moves to place i.                                            *)
LEMMA OnePlace ==
    ASSUME NEW r \in RequestIds, NEW i, request'[r].current_index = i,
           \A q \in RequestIds : q # r => request'[q].current_index = request[q].current_index
    PROVE  At' = [At EXCEPT ![r] = i]
BY DEF At

(* A new task opens its step.                                               *)
LEMMA AddTaskPairs ==
    ASSUME Typed, Placed, NEW h \in Handlers, NEW x \in Work, NEW name \in Names,
           NEW user, AddTask(h, x, name, user)
    PROVE  /\ StepsWith(Open)' = StepsWith(Open) \cup {<<x.request, name>>}
           /\ StepsWith(Ended)' = StepsWith(Ended)
<1> DEFINE new == [state |-> "pending", is_close |-> FALSE, request |-> x.request,
                   name |-> name, user |-> user, nexts |-> AllNexts]
<1>1. x.request \in RequestIds
  BY DEF Work
<1>2. nextTask \in TaskIds
  BY BoundAssumption DEF AddTask, Typed, TypeOK, TaskIds
<1>3. ~Exists(nextTask)
  <2>1. nextTask \in Int
    BY <1>2 DEF TaskIds
  <2> QED BY <1>2, <2>1 DEF Placed, PlacedRows
<1>4. new.state = "pending" /\ new.request = x.request /\ new.name = name
  OBVIOUS
<1>5. task' = [task EXCEPT ![nextTask] = new]
  BY DEF AddTask
<1> HIDE DEF new
<1>6. /\ task'[nextTask] = new
      /\ \A t \in TaskIds : t # nextTask => task'[t] = task[t]
  BY <1>2, <1>5 DEF Typed, TypeOK
<1>7. ASSUME NEW p \in RequestIds \X Names
      PROVE  p \in StepsWith(Open)' <=> p \in StepsWith(Open) \/ p = <<x.request, name>>
  BY <1>1, <1>2, <1>3, <1>4, <1>6 DEF StepsWith, TasksOf, Exists, Open
<1>8. ASSUME NEW p \in RequestIds \X Names
      PROVE  p \in StepsWith(Ended)' <=> p \in StepsWith(Ended)
  BY <1>1, <1>2, <1>3, <1>4, <1>6 DEF StepsWith, TasksOf, Exists, Ended
<1>9. StepsWith(Open)' \subseteq RequestIds \X Names /\ StepsWith(Ended)' \subseteq RequestIds \X Names
      /\ StepsWith(Open) \subseteq RequestIds \X Names /\ StepsWith(Ended) \subseteq RequestIds \X Names
  BY DEF StepsWith
<1>10. <<x.request, name>> \in RequestIds \X Names
  BY <1>1
<1> QED BY <1>7, <1>8, <1>9, <1>10

(* An answer: the step is answered, and may still be open to others.        *)
LEMMA UpdateTaskPairs ==
    ASSUME Typed, Turn, NEW h \in Handlers, UpdateTask(h)
    PROVE  LET p == <<handler[h].request, handler[h].name>> IN
           \/ UNCHANGED <<StepsWith(Open), StepsWith(Ended)>>
           \/ /\ p \in StepsWith(Open)
              /\ StepsWith(Open)' = StepsWith(Open) \/ StepsWith(Open)' = StepsWith(Open) \ {p}
              /\ StepsWith(Ended)' = StepsWith(Ended) \cup {p}
<1> DEFINE me == handler[h]
           t == me.task
           r == me.request
           n == me.name
<1>1. PICK new : new = [SetClosureStatus(task[t], me.verdict) EXCEPT !.nexts = me.nexts]
  OBVIOUS
<1>2. /\ me \in HandlerRow /\ me.pc = "update" /\ KnowsTask(me)
      /\ t \in TaskIds /\ task[t] \in TaskRow /\ me.nexts \in Nexts
      /\ r \in RequestIds /\ n \in Names
  BY DEF UpdateTask, Typed, TypeOK, References, RefersBelow, HandlerRow, Turn, Knows
<1>3. /\ task[t].request = r /\ task[t].name = n /\ task[t].state # "none"
      /\ task[t].state \in Open \cup Ended
      /\ task[t].state \in Ended => me.verdict = task[t].state
  BY <1>2 DEF KnowsTask, Exists, TaskRow
<1>4. /\ new.request = r /\ new.name = n
      /\ new.state = IF me.verdict \in Ended THEN me.verdict ELSE "running"
  <2> DEFINE row == task[t]
             verdict == me.verdict
             nexts == me.nexts
  <2>1. row \in TaskRow /\ new = [SetClosureStatus(row, verdict) EXCEPT !.nexts = nexts]
    BY <1>1, <1>2
  <2>2. row.request = r /\ row.name = n
    BY <1>3
  <2> HIDE DEF row, verdict, nexts
  <2>3. /\ new.request = row.request /\ new.name = row.name
        /\ new.state = IF verdict \in Ended THEN verdict ELSE "running"
    BY <2>1 DEF SetClosureStatus, CheckStateIsEnded, TaskRow, Ended
  <2> QED BY <2>2, <2>3 DEF verdict
<1>5. task' = [task EXCEPT ![t] = new]
  BY <1>1, <1>2 DEF UpdateTask, KnowsTask
<1>6. /\ task'[t] = new
      /\ \A s \in TaskIds : s # t => task'[s] = task[s]
  BY <1>2, <1>5 DEF Typed, TypeOK
<1> HIDE DEF r, n, t, me
<1>7. /\ StepsWith(Open)' \subseteq RequestIds \X Names /\ StepsWith(Ended)' \subseteq RequestIds \X Names
      /\ StepsWith(Open) \subseteq RequestIds \X Names /\ StepsWith(Ended) \subseteq RequestIds \X Names
  BY DEF StepsWith
<1>8. CASE task[t].state \in Ended \/ me.verdict \notin Ended
  <2>1. task[t].state \in Open <=> new.state \in Open
    BY <1>3, <1>4, <1>8 DEF Open, Ended
  <2>2. task[t].state \in Ended <=> new.state \in Ended
    BY <1>3, <1>4, <1>8 DEF Open, Ended
  <2>3. new.state # "none"
    BY <1>3, <1>4, <1>8 DEF Ended
  <2>4. ASSUME NEW p \in RequestIds \X Names
        PROVE  /\ p \in StepsWith(Open)' <=> p \in StepsWith(Open)
               /\ p \in StepsWith(Ended)' <=> p \in StepsWith(Ended)
    BY <1>2, <1>3, <1>4, <1>6, <2>1, <2>2, <2>3 DEF StepsWith, TasksOf, Exists
  <2>5. UNCHANGED <<StepsWith(Open), StepsWith(Ended)>>
    BY <1>7, <2>4
  <2> QED BY <2>5
<1>9. CASE task[t].state \in Open /\ me.verdict \in Ended
  <2>1. new.state \in Ended /\ new.state \notin Open /\ new.state # "none"
    BY <1>4, <1>9 DEF Open, Ended
  <2>2. <<r, n>> \in StepsWith(Open) /\ <<r, n>> \in StepsWith(Ended)'
    BY <1>2, <1>3, <1>4, <1>6, <1>9, <2>1 DEF StepsWith, TasksOf, Exists
  <2>3. ASSUME NEW p \in RequestIds \X Names, p # <<r, n>>
        PROVE  /\ p \in StepsWith(Open)' <=> p \in StepsWith(Open)
               /\ p \in StepsWith(Ended)' <=> p \in StepsWith(Ended)
    BY <1>2, <1>3, <1>4, <1>6, <2>1, <2>3 DEF StepsWith, TasksOf, Exists
  <2>4. StepsWith(Ended)' = StepsWith(Ended) \cup {<<r, n>>}
    BY <1>7, <2>2, <2>3
  <2>5. StepsWith(Open)' = StepsWith(Open) \/ StepsWith(Open)' = StepsWith(Open) \ {<<r, n>>}
    BY <1>7, <2>2, <2>3
  <2> QED BY <2>2, <2>4, <2>5 DEF r, n, me
<1> QED BY <1>3, <1>8, <1>9


LEMMA AddRequestPath ==
    ASSUME Typed, Placed, NEW u \in Users, NEW w \in Workflows, AddRequest(u, w), UNCHANGED task
    PROVE  Path!Start(nextRequest) \/ UNCHANGED Pairs
<1> DEFINE r == nextRequest
<1>1. /\ r \in RequestIds
      /\ \A q \in RequestIds : q # r => request'[q].current_index = request[q].current_index
  BY AddRequestTyped
<1>2. request'[r].current_index \in {0, 10}
  BY NewRequestHere
<1>3. request[r].current_index = 0
  BY <1>1, TypedCounters DEF Placed, PlacedRows
<1>4. UNCHANGED <<StepsWith(Open), StepsWith(Ended)>>
  BY SameTasks
<1>5. CASE request'[r].current_index = 0
  BY <1>1, <1>3, <1>4, <1>5, SamePlaces DEF Pairs
<1>6. CASE request'[r].current_index = 10
  <2>1. At' = [At EXCEPT ![r] = 10]
    BY <1>1, <1>6, OnePlace
  <2>2. \A t \in TaskIds : Exists(t) => task[t].request < r /\ task[t].request \in Int
    BY DEF Typed, References, RequestIds
  <2>3. \A n \in Names : <<r, n>> \notin StepsWith(Open) \cup StepsWith(Ended)
    BY <2>2, TypedCounters DEF StepsWith, TasksOf
  <2> QED BY <1>4, <2>1, <2>3 DEF Path!Start, Path!Untouched
<1> QED BY <1>2, <1>5, <1>6

LEMMA AddTaskPath ==
    ASSUME Typed, Placed, NEW h \in Handlers, NEW x \in handler[h].todo, NEW name \in Names,
           NEW user, AddTask(h, x, name, user),
           IF x.kind = "verification" THEN name = Verification ELSE name = x.name
    PROVE  Path!Give(x.request, name)
<1>1. x \in Work /\ x.request \in RequestIds /\ Here(x) /\ (x.kind # "verification" => x.name \in Steps)
  BY CreatingFacts
<1>2. UNCHANGED At
  BY SamePlaces DEF AddTask
<1>3. IF name \in Steps THEN At[x.request] = [s \in Steps |-> 10 * Step[s].index][name]
      ELSE \A s \in Steps : At[x.request] # [q \in Steps |-> 10 * Step[q].index][s]
  BY <1>1, ConfigAssumption DEF Here, At
<1>4. /\ StepsWith(Open)' = StepsWith(Open) \cup {<<x.request, name>>}
      /\ StepsWith(Ended)' = StepsWith(Ended)
  BY <1>1, AddTaskPairs
<1> QED BY <1>2, <1>3, <1>4 DEF Path!Give

LEMMA UpdateTaskPath ==
    ASSUME Typed, Turn, NEW h \in Handlers, UpdateTask(h)
    PROVE  Path!Answer(handler[h].request, handler[h].name) \/ UNCHANGED Pairs
<1>1. UNCHANGED At
  BY SamePlaces DEF UpdateTask
<1> QED BY <1>1, UpdateTaskPairs DEF Path!Answer, Pairs

LEMMA AdvanceRequestPath ==
    ASSUME Typed, Turn, Placed, NEW h \in Handlers, AdvanceRequest(h)
    PROVE  Path!Move(handler[h].request)
<1> DEFINE me == handler[h]
           r == me.request
           n == me.name
           i == MovedRequest(me, request[r]).current_index
<1>1. /\ me \in HandlerRow /\ r \in RequestIds /\ request[r] \in RequestRow /\ request[r].exists
      /\ me.index = request[r].current_index /\ request[r].current_index >= -10
      /\ n \in Names
  BY DEF AdvanceRequest, Typed, TypeOK, References, RefersBelow, HandlerRow, Turn, Knows, Placed,
         PlacedCall, PlacedRows
<1>2. i \in -10 .. At[r] + 10
  BY <1>1, MovedBounds DEF At
<1>3. /\ request'[r].current_index = i
      /\ \A q \in RequestIds : q # r => request'[q].current_index = request[q].current_index
  BY <1>1 DEF AdvanceRequest, Typed, TypeOK
<1> HIDE DEF i
<1>4. At' = [At EXCEPT ![r] = i]
  BY <1>1, <1>3, OnePlace
<1>5. <<r, n>> \in StepsWith(Ended) /\ \A m \in Names : <<r, m>> \in StepsWith(Open) => m = n
  <2>1. /\ me.task \in TasksOf(r) /\ task[me.task].state \in Ended /\ task[me.task].name = n
        /\ \A t \in OpenTasks(r) : task[t].name = n
    BY AdvanceAnswered DEF AdvanceRequest
  <2> QED BY <1>1, <2>1 DEF StepsWith, OpenTasks
<1>6. UNCHANGED <<StepsWith(Open), StepsWith(Ended)>>
  BY SameTasks DEF AdvanceRequest
<1> QED BY <1>1, <1>2, <1>4, <1>5, <1>6 DEF Path!Move

LEMMA StepRefines ==
    ASSUME InTurns, ~Deletes, ~UpdatesMayFail, Typed, Turn, Placed, [Next]_vars
    PROVE  Path!Next \/ UNCHANGED Pairs
<1> DEFINE Goal == Path!Next \/ UNCHANGED Pairs
<1>1. ASSUME UNCHANGED <<request, task>> PROVE Goal
  BY <1>1, SamePlaces, SameTasks DEF Pairs
<1>2. ASSUME NEW r \in RequestIds, NEW s \in Edits, EditRequest(r, s) PROVE Goal
  <2>1. PICK new : new = SetClosureStatus(request[r], s)
    OBVIOUS
  <2>2. new.current_index = request[r].current_index
    BY <2>1 DEF SetClosureStatus, Typed, TypeOK, RequestRow
  <2>3. request' = [request EXCEPT ![r] = new] /\ UNCHANGED task
    BY <1>2, <2>1 DEF EditRequest
  <2> QED BY <2>2, <2>3, SamePlaces, SameTasks DEF Pairs, Typed, TypeOK
<1>3. ASSUME NEW u \in Users, NEW w \in Workflows, AddRequest(u, w), UNCHANGED task PROVE Goal
  BY <1>3, AddRequestPath, AddRequestTyped DEF Path!Next
<1>4. ASSUME NEW h \in Handlers, Call(h) PROVE Goal
  BY <1>1, <1>3, <1>4 DEF Call, CreateRequest, SubmitTask, DeleteTask
<1>5. ASSUME NEW h \in Handlers, NEW x \in handler[h].todo, PrepareTask(h, x) PROVE Goal
  <2>1. x.name \in Steps /\ handler[h].user \in Users
    BY <1>5, CreatingFacts DEF PrepareTask
  <2>2. Wraps(x) => Step[x.name].wraps \in Workflows
    BY <2>1, StepFacts DEF Wraps
  <2> QED BY <1>1, <1>3, <1>5, <2>1, <2>2 DEF PrepareTask
<1>6. ASSUME NEW h \in Handlers, NEW x \in handler[h].todo,
             InsertTask(h, x) \/ InsertVerification(h, x)
      PROVE  Goal
  <2>1. PICK name \in Names : \E user :
           /\ AddTask(h, x, name, user)
           /\ IF x.kind = "verification" THEN name = Verification ELSE name = x.name
    BY <1>6, CreatingFacts, StepFacts DEF InsertTask, InsertVerification, Names
  <2>2. x.request \in RequestIds
    BY CreatingFacts
  <2> QED BY <2>1, <2>2, AddTaskPath DEF Path!Next
<1>7. ASSUME NEW h \in Handlers, UpdateTask(h) PROVE Goal
  <2>1. handler[h].request \in RequestIds /\ handler[h].name \in Names
    BY <1>7 DEF UpdateTask, Typed, TypeOK, References, RefersBelow, HandlerRow
  <2> QED BY <1>7, <2>1, UpdateTaskPath DEF Path!Next
<1>8. ASSUME NEW h \in Handlers, AdvanceRequest(h) PROVE Goal
  <2>1. handler[h].request \in RequestIds
    BY <1>8 DEF AdvanceRequest, Typed, References, RefersBelow
  <2> QED BY <1>8, <2>1, AdvanceRequestPath DEF Path!Next
<1>9. ASSUME NEW h \in Handlers, Proceed(h) PROVE Goal
  <2>1. Due(h) \subseteq handler[h].todo
    BY DEF Due
  <2>2. CASE \E x \in Due(h) : \/ PrepareTask(h, x) \/ FindTask(h, x)
                              \/ InsertTask(h, x) \/ InsertVerification(h, x)
                              \/ InsertFails(h, x)
    BY <1>1, <1>5, <1>6, <2>1, <2>2 DEF FindTask, InsertFails
  <2>3. CASE UpdateTask(h) \/ AdvanceRequest(h)
    BY <1>7, <1>8, <2>3
  <2>4. CASE RereadTask(h) \/ ReadRequest(h) \/ CheckOthers(h)
    BY <1>1, <2>4 DEF RereadTask, ReadRequest, CheckOthers
  <2> QED BY <1>9, <2>2, <2>3, <2>4 DEF Proceed, UpdateTaskFails, AdvanceRequestFails
<1>10. CASE UNCHANGED vars
  BY <1>1, <1>10 DEF vars
<1> QED BY <1>2, <1>4, <1>9, <1>10 DEF Next, ByHand, DeleteRequest

LEMMA InitRefines == Init => Path!Init
<1> SUFFICES ASSUME Init PROVE Path!Init
  OBVIOUS
<1>1. At = [r \in RequestIds |-> 0]
  BY DEF At, Init, NoRequest
<1>2. \A t \in TaskIds : ~Exists(t)
  BY NoTaskType DEF Init, Exists
<1>3. StepsWith(Open) = {} /\ StepsWith(Ended) = {}
  BY <1>2 DEF StepsWith, TasksOf
<1> QED BY <1>1, <1>3 DEF Path!Init

(* When calls take turns, nothing is deleted and no UPDATE is refused, the  *)
(* engine implements RequestPath.                                           *)
THEOREM PathRefinement ==
    ASSUME InTurns, ~Deletes, ~UpdatesMayFail
    PROVE  Spec => PathRefined
<1> DEFINE Inv == Typed /\ Turn /\ Placed
<1>1. Init => Inv
  BY InitTyped, InitTurn, InitPlaced
<1>2. Inv /\ [Next]_vars => Inv'
  BY NextTyped, NextTurn, NextPlaced
<1>3. Inv /\ [Next]_vars => [Path!Next]_(Path!vars)
  BY StepRefines DEF Path!vars, Pairs
<1> QED BY <1>1, <1>2, <1>3, InitRefines, PTL DEF Spec, PathRefined, Path!Spec

----------------------------------------------------------------------------
(***************************************************************************)
(* Who is given which task, and how requests end, when calls take turns:   *)
(* no user gets a step twice, what a step chose is honoured, a request     *)
(* ends as its users answered, reopens only by a dismissal, and is never   *)
(* left behind.                                                            *)
(***************************************************************************)
(* The name that the task an item leads to will bear.                       *)
ItemName(x) == IF x.kind = "verification" THEN Verification ELSE x.name
SameItem(x, y) ==
    x.kind # "verification" /\ y.kind # "verification" /\ x.request = y.request /\ x.name = y.name

(* A task named n of request r belongs where the request stands: at the     *)
(* step, or, for a verification, below a first step that asks for one.      *)
InPlace(r, n) ==
    IF n \in Steps
    THEN /\ Step[n].workflow = request[r].workflow
         /\ request[r].current_index = 10 * Step[n].index
    ELSE /\ request[r].current_index \in {-10, 0, 9}
         /\ SomeBefore(StepsAt(request[r].workflow, 10))

----------------------------------------------------------------------------
(* What a step does to the rows and to what is left to create.              *)

(* Item y goes on with the creation that x began, in a call of user u.      *)
Follows(y, x, u) ==
    /\ y.request = x.request /\ y.name = x.name /\ y.nexts = x.nexts /\ y.from = x.from
    /\ \/ x.kind = "prepare" /\ y.kind = "task" /\ ShouldCreate(x)
       \/ x.kind = "task" /\ y.kind = "insert" /\ Duplicates(x, u) = {}

(* Item y is one of the first of the request that this step opens.          *)
FirstItem(y) ==
    /\ y.kind \in {"prepare", "verification"} /\ y.request = nextRequest
    /\ y.kind = "prepare" => Step[y.name].index = 1
    /\ y.nexts = AllNexts
    /\ InPlace(y.request, ItemName(y))'
    /\ ~request'[y.request].is_close

NewDistinct(h) ==
    \A y, z \in handler'[h].todo :
        y \notin handler[h].todo /\ z \notin handler[h].todo /\ SameItem(y, z) => y = z
SameUser(h) == handler'[h].todo # {} => handler'[h].user = handler[h].user
OnlyOpens ==
    \A r \in RequestIds :
        \/ request'[r] = request[r]
        \/ /\ r = nextRequest /\ r < nextRequest'
           /\ ~request'[r].is_close /\ request'[r].state \notin Ended
           /\ request'[r].current_index \in {0, 10}

(* A request that opens has first items; no other item is dropped; the item *)
(* worked off leads to a task, unless it is not wanted, found, or refused.  *)
Starts(h) ==
    \A r \in RequestIds :
        request'[r] # request[r] /\ request'[r].exists => \E y \in handler'[h].todo : y.request = r
KeepsRest(h, x) == \A y \in handler[h].todo : y # x => y \in handler'[h].todo
Leads(h, x) ==
    \/ \E y \in handler'[h].todo : Follows(y, x, handler[h].user)
    \/ nextTask \in TaskIds /\ task'[nextTask].state = "pending" /\ task'[nextTask].request = x.request
    \/ x.kind = "prepare" /\ ~ShouldCreate(x)
    \/ x.kind = "task" /\ Duplicates(x, handler[h].user) # {}
    \/ InsertsMayFail

(* One item x of handler h is worked off.                                   *)
ItemEffect(h, x) ==
    /\ \A y \in handler'[h].todo : \/ y \in handler[h].todo /\ y # x
                                   \/ Follows(y, x, handler[h].user)
                                   \/ FirstItem(y)
    /\ NewDistinct(h) /\ SameUser(h) /\ OnlyOpens
    /\ Starts(h) /\ KeepsRest(h, x) /\ Leads(h, x)
    /\ handler'[h].pc \in {"idle", "create"}
    /\ nextRequest' \in {nextRequest, nextRequest + 1}
    /\ \/ task' = task
       \/ /\ x.kind \in {"insert", "verification"}
          /\ handler'[h].todo \subseteq handler[h].todo \ {x}
          /\ nextTask \in TaskIds
          /\ \A t \in TaskIds : t # nextTask => task'[t] = task[t]
          /\ task'[nextTask].state = "pending" /\ task'[nextTask].nexts = AllNexts
          /\ task'[nextTask].request = x.request /\ task'[nextTask].name = ItemName(x)
          /\ x.kind = "insert" => task'[nextTask].user = AssigneeOf(x.name, handler[h].user)

(* The first items of a new request.                                        *)
LEMMA FirstItems ==
    ASSUME Typed, NEW u \in Users, NEW w \in Workflows, NEW d \in Nat, AddRequest(u, w)
    PROVE  /\ \A y \in FirstWork(nextRequest, u, w, d) : FirstItem(y)
           /\ \A y, z \in FirstWork(nextRequest, u, w, d) : SameItem(y, z) => y = z
           /\ OnlyOpens
           /\ request'[nextRequest].exists => FirstWork(nextRequest, u, w, d) # {}
           /\ nextRequest' = nextRequest + 1
<1>0. PICK r : r = nextRequest
  OBVIOUS
<1> DEFINE first == FirstWork(r, u, w, 0)
           new == [exists |-> TRUE, workflow |-> w, owner |-> u, state |-> "pending",
                   is_close |-> FALSE, current_index |-> StartIndex(u, w)]
<1>1. r \in RequestIds /\ r < nextRequest' /\ nextRequest' = nextRequest + 1
  BY <1>0, AddRequestTyped, TypedCounters
<1>2. request'[r] = IF first = {} THEN NoRequest ELSE new
  BY <1>0, <1>1 DEF AddRequest, Typed, TypeOK
<1>3. FirstWork(r, u, w, d) # {} <=> first # {}
  BY DEF FirstWork, VerificationWork, StepWork
<1>4. OnlyOpens
  <2>1. /\ ~request'[r].is_close /\ request'[r].state \notin Ended
        /\ request'[r].current_index \in {0, 10}
    BY <1>2, StartType DEF NoRequest, Ended
  <2> QED BY <1>0, <1>1, <2>1, AddRequestTyped DEF OnlyOpens
<1>5. ASSUME NEW y \in FirstWork(r, u, w, d) PROVE FirstItem(y)
  <2>1. /\ request'[r].workflow = w /\ ~request'[r].is_close
        /\ request'[r].current_index = StartIndex(u, w)
    BY <1>2, <1>3, <1>5
  <2>2. CASE StartIndex(u, w) = 0
    <3>1. /\ y.kind = "verification" /\ y.request = r /\ y.nexts = AllNexts
      BY <1>5, <2>2 DEF FirstWork, VerificationWork, Item
    <3>2. SomeBefore(StepsAt(w, 10))
      BY <2>2 DEF StartIndex
    <3>3. InPlace(r, Verification)'
      BY <2>1, <2>2, <3>2, ConfigAssumption DEF InPlace
    <3> QED BY <1>0, <2>1, <3>1, <3>3 DEF FirstItem, ItemName
  <2>3. CASE StartIndex(u, w) = 10
    <3>1. y \in StepWork(StepsAt(w, 10), r, AllNexts, "request", d)
      BY <1>5, <2>3 DEF FirstWork
    <3>2. y.kind = "prepare" /\ y.request = r /\ y.nexts = AllNexts /\ y.name \in StepsAt(w, 10)
      BY <3>1 DEF StepWork, Item
    <3>3. y.name \in Steps /\ Step[y.name].workflow = w /\ 10 * Step[y.name].index = 10
      BY <3>2 DEF StepsAt
    <3>4. Step[y.name].index = 1
      BY <3>3, StepFacts
    <3>5. InPlace(r, y.name)'
      BY <2>1, <2>3, <3>3 DEF InPlace
    <3> QED BY <1>0, <2>1, <3>2, <3>4, <3>5 DEF FirstItem, ItemName
  <2> QED BY <2>2, <2>3, StartType
<1>6. ASSUME NEW y \in FirstWork(r, u, w, d), NEW z \in FirstWork(r, u, w, d), SameItem(y, z)
      PROVE  y = z
  <2>1. CASE StartIndex(u, w) = 0
    BY <1>6, <2>1 DEF FirstWork, VerificationWork, Item, SameItem
  <2>2. CASE StartIndex(u, w) # 0
    BY <1>6, <2>2 DEF FirstWork, StepWork, Item, SameItem
  <2> QED BY <2>1, <2>2
<1>7. request'[r].exists => FirstWork(r, u, w, d) # {}
  BY <1>2, <1>3 DEF NoRequest
<1> QED BY <1>0, <1>1, <1>4, <1>5, <1>6, <1>7

(* The items that preparing x leaves.                                       *)
LEMMA OwnWorkFollows ==
    ASSUME NEW x \in Work, x.kind = "prepare", NEW u
    PROVE  /\ \A y \in OwnWork(x) : y \in Work /\ Follows(y, x, u)
           /\ \A y, z \in OwnWork(x) : y = z
           /\ ShouldCreate(x) => OwnWork(x) # {}
<1>1. PICK next : next = [x EXCEPT !.kind = "task", !.depth = x.depth + 1]
  OBVIOUS
<1>2. OwnWork(x) = IF ShouldCreate(x) THEN {next} ELSE {}
  BY <1>1 DEF OwnWork
<1>3. x.depth + 1 \in Nat
  BY DEF Work
<1>4. /\ next \in Work /\ next.request = x.request /\ next.name = x.name /\ next.kind = "task"
      /\ next.nexts = x.nexts /\ next.from = x.from
  BY <1>1, <1>3 DEF Work
<1> QED BY <1>2, <1>4 DEF Follows

(* What is known of an item about to be worked off.                         *)
LEMMA ItemFacts ==
    ASSUME Typed, NEW h \in Handlers, NEW x \in handler[h].todo
    PROVE  /\ handler[h] \in HandlerRow /\ handler[h].todo \in SUBSET Work
           /\ handler[h].pc = "create" => handler[h].user \in Users
           /\ x \in Work /\ x.depth + 2 \in Nat
           /\ x.kind # "verification" => x.name \in Steps
           /\ \A y \in handler[h].todo : y.request \in RequestIds /\ y.request < nextRequest
BY DEF Typed, TypeOK, HandlerRow, Work, References, RefersBelow, ItemRefers

LEMMA PrepareTaskEffect ==
    ASSUME Typed, NEW h \in Handlers, NEW x \in handler[h].todo, PrepareTask(h, x)
    PROVE  ItemEffect(h, x)
<1> DEFINE w == Step[x.name].wraps
           own == OwnWork(x)
           first == FirstWork(nextRequest, handler[h].user, w, x.depth + 2)
<1>1. PICK me : me = handler[h]
  OBVIOUS
<1>2. /\ me \in HandlerRow /\ me.user \in Users /\ me.todo \in SUBSET Work
      /\ x \in Work /\ x.kind = "prepare" /\ x.name \in Steps /\ x.depth + 2 \in Nat
      /\ \A y \in me.todo : y.request \in RequestIds /\ y.request < nextRequest
  BY <1>1, ItemFacts DEF PrepareTask
<1>3. /\ \A y \in own : y \in Work /\ Follows(y, x, me.user)
      /\ \A y, z \in own : y = z
      /\ ShouldCreate(x) => own # {}
  BY <1>2, OwnWorkFollows
<1>4. \A y \in own : y.request = x.request
  BY <1>3 DEF Follows
<1>5. CASE Wraps(x)
  <2>1. w \in Workflows
    BY <1>2, <1>5, StepFacts DEF Wraps
  <2>2. PICK todo : todo = (me.todo \ {x}) \cup own \cup first
    OBVIOUS
  <2>3. PICK row : row = WithTodo(me, todo)
    OBVIOUS
  <2>4. AddRequest(me.user, w) /\ task' = task /\ handler' = [handler EXCEPT ![h] = row]
    BY <1>1, <1>5, <2>2, <2>3 DEF PrepareTask
  <2>5. nextRequest \in RequestIds
    BY <1>2, <2>1, <2>4, AddRequestTyped
  <2>6. /\ first \in SUBSET Work
        /\ \A y \in first : FirstItem(y)
        /\ \A y, z \in first : SameItem(y, z) => y = z
        /\ OnlyOpens /\ nextRequest' = nextRequest + 1
        /\ request'[nextRequest].exists => first # {}
    BY <1>1, <1>2, <2>1, <2>4, <2>5, FirstItems, FirstWorkType
  <2>7. \A y \in first : y.request = nextRequest
    BY <2>6 DEF FirstItem
  <2> HIDE DEF own, first
  <2>8. todo \in SUBSET Work
    BY <1>2, <1>3, <2>2, <2>6
  <2>9. /\ handler'[h] = row /\ row.todo = todo /\ row.pc \in {"idle", "create"}
        /\ todo # {} => row.user = me.user
    BY <1>2, <2>3, <2>4, <2>8, Written, WithTodoType
  <2>10. NewDistinct(h)
    <3> SUFFICES ASSUME NEW y \in todo, NEW z \in todo, y \notin me.todo, z \notin me.todo,
                        SameItem(y, z)
                 PROVE  y = z
      BY <1>1, <2>9 DEF NewDistinct
    <3>1. y.request = z.request
      BY DEF SameItem
    <3>2. x.request < nextRequest /\ nextRequest \in Nat
      BY <1>1, <1>2, TypedCounters
    <3> QED BY <1>3, <1>4, <2>2, <2>6, <2>7, <3>1, <3>2
  <2>11. Starts(h)
    BY <2>2, <2>6, <2>7, <2>9 DEF Starts, OnlyOpens
  <2>12. KeepsRest(h, x) /\ Leads(h, x)
    BY <1>1, <1>2, <1>3, <2>2, <2>9 DEF KeepsRest, Leads
  <2> QED BY <1>1, <1>3, <2>2, <2>4, <2>6, <2>9, <2>10, <2>11, <2>12 DEF ItemEffect, SameUser
<1>6. CASE ~Wraps(x)
  <2>1. PICK todo : todo = (me.todo \ {x}) \cup own
    OBVIOUS
  <2>2. PICK row : row = WithTodo(me, todo)
    OBVIOUS
  <2>3. handler' = [handler EXCEPT ![h] = row] /\ UNCHANGED <<request, nextRequest, task>>
    BY <1>1, <1>6, <2>1, <2>2 DEF PrepareTask
  <2> HIDE DEF own
  <2>4. todo \in SUBSET Work
    BY <1>2, <1>3, <2>1
  <2>5. /\ handler'[h] = row /\ row.todo = todo /\ row.pc \in {"idle", "create"}
        /\ todo # {} => row.user = me.user
    BY <1>2, <2>2, <2>3, <2>4, Written, WithTodoType
  <2>6. NewDistinct(h) /\ SameUser(h) /\ OnlyOpens /\ Starts(h)
    BY <1>1, <1>3, <2>1, <2>3, <2>5 DEF NewDistinct, SameUser, OnlyOpens, Starts
  <2>7. KeepsRest(h, x) /\ Leads(h, x)
    BY <1>1, <1>2, <1>3, <2>1, <2>5 DEF KeepsRest, Leads
  <2> QED BY <1>1, <1>3, <2>1, <2>3, <2>5, <2>6, <2>7 DEF ItemEffect
<1> QED BY <1>5, <1>6

LEMMA FindTaskEffect ==
    ASSUME Typed, NEW h \in Handlers, NEW x \in handler[h].todo, FindTask(h, x)
    PROVE  ItemEffect(h, x)
<1>1. PICK me : me = handler[h]
  OBVIOUS
<1>2. PICK y : y = [x EXCEPT !.kind = "insert"]
  OBVIOUS
<1>3. PICK todo : todo = IF Duplicates(x, me.user) # {} THEN me.todo \ {x}
                         ELSE (me.todo \ {x}) \cup {y}
  OBVIOUS
<1>4. PICK row : row = WithTodo(me, todo)
  OBVIOUS
<1>5. /\ me \in HandlerRow /\ me.todo \in SUBSET Work /\ x \in Work /\ x.kind = "task"
  BY <1>1, ItemFacts DEF FindTask
<1>6. handler' = [handler EXCEPT ![h] = row] /\ UNCHANGED <<request, nextRequest, task>>
  BY <1>1, <1>2, <1>3, <1>4 DEF FindTask
<1>7. /\ y \in Work /\ y.request = x.request /\ y.name = x.name /\ y.kind = "insert"
      /\ y.nexts = x.nexts /\ y.from = x.from
  BY <1>2, <1>5 DEF Work
<1>8. todo \in SUBSET Work
  BY <1>3, <1>5, <1>7
<1>9. /\ handler'[h] = row /\ row.todo = todo /\ row.pc \in {"idle", "create"}
      /\ todo # {} => row.user = me.user
  BY <1>4, <1>5, <1>6, <1>8, Written, WithTodoType
<1>10. \A z \in todo : (z \in me.todo /\ z # x) \/ Follows(z, x, me.user)
  BY <1>3, <1>5, <1>7 DEF Follows
<1>11. NewDistinct(h) /\ SameUser(h) /\ OnlyOpens /\ Starts(h)
  BY <1>1, <1>3, <1>6, <1>9 DEF NewDistinct, SameUser, OnlyOpens, Starts
<1>12. KeepsRest(h, x) /\ Leads(h, x)
  BY <1>1, <1>3, <1>5, <1>7, <1>9 DEF KeepsRest, Leads, Follows
<1> QED BY <1>1, <1>6, <1>9, <1>10, <1>11, <1>12 DEF ItemEffect

LEMMA InsertFailsEffect ==
    ASSUME Typed, NEW h \in Handlers, NEW x \in handler[h].todo, InsertFails(h, x)
    PROVE  ItemEffect(h, x)
<1> DEFINE own == OwnWork(x)
<1>1. PICK me : me = handler[h]
  OBVIOUS
<1>2. PICK todo : todo = (me.todo \ {x}) \cup (IF x.kind = "prepare" THEN own ELSE {})
  OBVIOUS
<1>3. PICK row : row = WithTodo(me, todo)
  OBVIOUS
<1>4. me \in HandlerRow /\ me.todo \in SUBSET Work /\ x \in Work
  BY <1>1, ItemFacts
<1>5. handler' = [handler EXCEPT ![h] = row] /\ UNCHANGED <<request, nextRequest, task>>
  BY <1>1, <1>2, <1>3 DEF InsertFails
<1>6. x.kind = "prepare" => /\ \A y \in own : y \in Work /\ Follows(y, x, me.user)
                            /\ \A y, z \in own : y = z
  BY <1>4, OwnWorkFollows
<1> HIDE DEF own
<1>7. todo \in SUBSET Work
  BY <1>2, <1>4, <1>6
<1>8. /\ handler'[h] = row /\ row.todo = todo /\ row.pc \in {"idle", "create"}
      /\ todo # {} => row.user = me.user
  BY <1>3, <1>4, <1>5, <1>7, Written, WithTodoType
<1>9. NewDistinct(h) /\ SameUser(h) /\ OnlyOpens /\ Starts(h)
  BY <1>1, <1>2, <1>5, <1>6, <1>8 DEF NewDistinct, SameUser, OnlyOpens, Starts
<1>10. KeepsRest(h, x) /\ Leads(h, x)
  BY <1>1, <1>2, <1>8 DEF KeepsRest, Leads, InsertFails
<1> QED BY <1>1, <1>2, <1>5, <1>6, <1>8, <1>9, <1>10 DEF ItemEffect

LEMMA AddTaskEffect ==
    ASSUME Typed, NEW h \in Handlers, NEW x \in handler[h].todo,
           InsertTask(h, x) \/ InsertVerification(h, x)
    PROVE  ItemEffect(h, x)
<1>1. PICK me : me = handler[h]
  OBVIOUS
<1>2. PICK todo : todo = me.todo \ {x}
  OBVIOUS
<1>3. PICK row : row = WithTodo(me, todo)
  OBVIOUS
<1>4. PICK name, user : /\ AddTask(h, x, name, user) /\ name = ItemName(x)
                        /\ x.kind \in {"insert", "verification"}
                        /\ x.kind = "insert" => user = AssigneeOf(x.name, me.user)
  BY <1>1 DEF InsertTask, InsertVerification, ItemName
<1>5. PICK new : new = [state |-> "pending", is_close |-> FALSE, request |-> x.request,
                        name |-> name, user |-> user, nexts |-> AllNexts]
  OBVIOUS
<1>6. me \in HandlerRow /\ me.todo \in SUBSET Work /\ todo \in SUBSET Work
  BY <1>1, <1>2, ItemFacts
<1>7. /\ handler' = [handler EXCEPT ![h] = row] /\ UNCHANGED <<request, nextRequest>>
      /\ task' = [task EXCEPT ![nextTask] = new]
  BY <1>1, <1>2, <1>3, <1>4, <1>5 DEF AddTask
<1>8. nextTask \in TaskIds
  BY <1>4, BoundAssumption DEF AddTask, Typed, TypeOK, TaskIds
<1>9. task'[nextTask] = new /\ \A t \in TaskIds : t # nextTask => task'[t] = task[t]
  BY <1>7, <1>8 DEF Typed, TypeOK
<1>10. /\ handler'[h] = row /\ row.todo = todo /\ row.pc \in {"idle", "create"}
       /\ todo # {} => row.user = me.user
  BY <1>3, <1>6, <1>7, Written, WithTodoType
<1>11. /\ new.state = "pending" /\ new.nexts = AllNexts /\ new.request = x.request
       /\ new.name = name /\ new.user = user
  BY <1>5
<1>12. NewDistinct(h) /\ SameUser(h) /\ OnlyOpens /\ Starts(h)
  BY <1>1, <1>2, <1>7, <1>10 DEF NewDistinct, SameUser, OnlyOpens, Starts
<1>13. KeepsRest(h, x) /\ Leads(h, x)
  BY <1>1, <1>2, <1>8, <1>9, <1>10, <1>11 DEF KeepsRest, Leads
<1> QED BY <1>1, <1>2, <1>4, <1>7, <1>8, <1>9, <1>10, <1>11, <1>12, <1>13 DEF ItemEffect

(* Every step that works off an item has such an effect.                    *)
LEMMA ItemSteps ==
    ASSUME Typed, NEW h \in Handlers, NEW x \in handler[h].todo,
           \/ PrepareTask(h, x) \/ FindTask(h, x) \/ InsertTask(h, x)
           \/ InsertVerification(h, x) \/ InsertFails(h, x)
    PROVE  ItemEffect(h, x)
BY PrepareTaskEffect, FindTaskEffect, InsertFailsEffect, AddTaskEffect

(* A request that is created: only first items are left to create.          *)
LEMMA CreateRequestEffect ==
    ASSUME Typed, NEW h \in Handlers, NEW u \in Users, NEW w \in Workflows,
           CreateRequest(h, u, w)
    PROVE  /\ \A y \in handler'[h].todo : FirstItem(y)
           /\ \A y, z \in handler'[h].todo : SameItem(y, z) => y = z
           /\ handler'[h].pc \in {"idle", "create"}
           /\ OnlyOpens /\ Starts(h) /\ task' = task /\ nextRequest' = nextRequest + 1
<1> DEFINE T == FirstWork(nextRequest, u, w, 0)
<1>1. PICK me : me = [Idle EXCEPT !.user = u]
  OBVIOUS
<1>2. PICK todo : todo = T
  OBVIOUS
<1>3. PICK row : row = WithTodo(me, todo)
  OBVIOUS
<1>4. AddRequest(u, w) /\ handler' = [handler EXCEPT ![h] = row] /\ task' = task
  BY <1>1, <1>2, <1>3 DEF CreateRequest
<1>5. me \in HandlerRow /\ todo \in SUBSET Work
  BY <1>1, <1>2, <1>4, IdleType, AddRequestTyped, FirstWorkType DEF HandlerRow
<1>6. handler'[h] = row /\ row.todo = todo /\ row.pc \in {"idle", "create"}
  BY <1>3, <1>4, <1>5, Written, WithTodoType
<1>7. /\ \A y \in T : FirstItem(y)
      /\ \A y, z \in T : SameItem(y, z) => y = z
      /\ OnlyOpens /\ nextRequest' = nextRequest + 1
      /\ request'[nextRequest].exists => T # {}
  BY <1>4, FirstItems
<1>8. Starts(h)
  BY <1>2, <1>6, <1>7 DEF Starts, OnlyOpens, FirstItem
<1> QED BY <1>2, <1>4, <1>6, <1>7, <1>8

----------------------------------------------------------------------------
(* No user is given a step twice.                                           *)

(* A call never creates a step's task twice, and has looked for a task in   *)
(* vain when it inserts one.                                                *)
Sparing(me) ==
    /\ \A x, y \in me.todo : SameItem(x, y) => x = y
    /\ \A x \in me.todo : x.kind = "insert" => Duplicates(x, me.user) = {}
Single == NoDuplicateTask /\ \A h \in Handlers : Sparing(handler[h])

KeepsTasks ==
    \A t \in TaskIds :
        Exists(t)' => /\ Exists(t) /\ task'[t].request = task[t].request
                      /\ task'[t].name = task[t].name /\ task'[t].user = task[t].user

LEMMA KeepsDuplicates ==
    ASSUME KeepsTasks, NEW x, NEW u, Duplicates(x, u) = {}
    PROVE  Duplicates(x, u)' = {}
BY DEF KeepsTasks, Duplicates, TasksOf, Exists

(* A step that creates nothing.                                             *)
LEMMA QuietSingle ==
    ASSUME Single, KeepsTasks,
           \A h \in Handlers : \/ handler'[h].todo = {}
                              \/ /\ handler'[h].todo = handler[h].todo
                                 /\ handler'[h].user = handler[h].user
    PROVE  Single'
<1>1. NoDuplicateTask'
  BY DEF Single, NoDuplicateTask, KeepsTasks, Exists
<1>2. ASSUME NEW h \in Handlers PROVE Sparing(handler[h])'
  <2>1. CASE handler'[h].todo = {}
    BY <2>1 DEF Sparing
  <2>2. CASE handler'[h].todo = handler[h].todo /\ handler'[h].user = handler[h].user
    <3>1. Sparing(handler[h])
      BY DEF Single
    <3>2. ASSUME NEW x \in handler[h].todo, x.kind = "insert"
          PROVE  Duplicates(x, handler[h].user)' = {}
      <4>1. PICK u : u = handler[h].user
        OBVIOUS
      <4>2. Duplicates(x, u)' = {}
        BY <3>1, <3>2, <4>1, KeepsDuplicates DEF Sparing
      <4> QED BY <2>2, <4>1, <4>2 DEF Duplicates
    <3> QED BY <2>2, <3>1, <3>2 DEF Sparing, Duplicates, SameItem
  <2> QED BY <2>1, <2>2
<1> QED BY <1>1, <1>2 DEF Single

LEMMA WorkAfterDistinct ==
    ASSUME NEW me, NEW row
    PROVE  /\ \A x \in WorkAfter(me, row) : x.kind \in {"prepare", "verification"}
           /\ \A x, y \in WorkAfter(me, row) : SameItem(x, y) => x = y
<1> DEFINE S == StepsAt(row.workflow, Target(me))
<1>1. \/ WorkAfter(me, row) \subseteq VerificationWork(S, me.request, me.user, 0)
      \/ WorkAfter(me, row) \subseteq StepWork(S, me.request, me.nexts, "task", 0)
  BY DEF WorkAfter
<1> HIDE DEF S
<1>2. CASE WorkAfter(me, row) \subseteq VerificationWork(S, me.request, me.user, 0)
  BY <1>2 DEF VerificationWork, Item, SameItem
<1>3. CASE WorkAfter(me, row) \subseteq StepWork(S, me.request, me.nexts, "task", 0)
  BY <1>3 DEF StepWork, Item, SameItem
<1> QED BY <1>1, <1>2, <1>3

(* A handler that starts to create.                                         *)
LEMMA StartSingle ==
    ASSUME InTurns, Single, KeepsTasks, NEW h \in Handlers,
           \A x \in handler'[h].todo : x.kind # "insert",
           \A x, y \in handler'[h].todo : SameItem(x, y) => x = y
    PROVE  Single'
<1>1. NoDuplicateTask'
  BY DEF Single, NoDuplicateTask, KeepsTasks, Exists
<1>2. Sparing(handler[h])'
  BY DEF Sparing, SameItem
<1> QED BY <1>1, <1>2 DEF Single, InTurns

LEMMA AdvanceSingle ==
    ASSUME InTurns, Typed, Single, NEW h \in Handlers, AdvanceRequest(h) \/ AdvanceRequestFails(h)
    PROVE  Single'
<1>1. PICK me : me = handler[h]
  OBVIOUS
<1>2. PICK todo : todo = WorkAfter(me, request[me.request])
  OBVIOUS
<1>3. PICK row : row = WithTodo(me, todo)
  OBVIOUS
<1>4. /\ me \in HandlerRow /\ me.request \in RequestIds /\ me.user \in Users
      /\ request[me.request] \in RequestRow
  BY <1>1 DEF AdvanceRequest, AdvanceRequestFails, Typed, TypeOK, References, RefersBelow
<1>5. handler' = [handler EXCEPT ![h] = row] /\ task' = task
  BY <1>1, <1>2, <1>3 DEF AdvanceRequest, AdvanceRequestFails
<1>6. todo \in SUBSET Work
  BY <1>2, <1>4, WorkAfterType
<1>7. handler'[h] = row /\ row.todo = todo
  BY <1>3, <1>4, <1>5, <1>6, Written, WithTodoType
<1>8. /\ \A x \in todo : x.kind \in {"prepare", "verification"}
      /\ \A x, y \in todo : SameItem(x, y) => x = y
  BY <1>2, WorkAfterDistinct
<1>9. \A x \in todo : x.kind # "insert"
  BY <1>8
<1>10. KeepsTasks
  BY <1>5 DEF KeepsTasks, Exists
<1> QED BY <1>7, <1>8, <1>9, <1>10, StartSingle

LEMMA CreateRequestSingle ==
    ASSUME InTurns, Typed, Single, NEW h \in Handlers, NEW u \in Users, NEW w \in Workflows,
           CreateRequest(h, u, w)
    PROVE  Single'
<1>1. /\ \A y \in handler'[h].todo : FirstItem(y)
      /\ \A y, z \in handler'[h].todo : SameItem(y, z) => y = z
      /\ task' = task
  BY CreateRequestEffect
<1>2. \A y \in handler'[h].todo : y.kind # "insert"
  BY <1>1 DEF FirstItem
<1>3. KeepsTasks
  BY <1>1 DEF KeepsTasks, Exists
<1> QED BY <1>1, <1>2, <1>3, StartSingle

(* The items left when one is worked off are still one per step.            *)
LEMMA ItemDistinct ==
    ASSUME Typed, Single, NEW h \in Handlers, NEW x \in handler[h].todo, ItemEffect(h, x)
    PROVE  \A y, z \in handler'[h].todo : SameItem(y, z) => y = z
<1> SUFFICES ASSUME NEW y \in handler'[h].todo, NEW z \in handler'[h].todo, SameItem(y, z)
             PROVE  y = z
  OBVIOUS
<1>1. \A a, b \in handler[h].todo : SameItem(a, b) => a = b
  BY DEF Single, Sparing
<1>2. \A a \in handler[h].todo : a.request < nextRequest /\ a.request \in Int
  BY ItemFacts DEF RequestIds
<1>3. nextRequest \in Int
  BY TypedCounters
<1>4. ASSUME NEW a \in handler[h].todo, a # x, NEW b \in handler'[h].todo, SameItem(a, b),
             b \notin handler[h].todo
      PROVE  FALSE
  <2>1. ~FirstItem(b)
    BY <1>2, <1>3, <1>4 DEF SameItem, FirstItem
  <2>2. Follows(b, x, handler[h].user)
    BY <1>4, <2>1 DEF ItemEffect
  <2>3. SameItem(a, x)
    BY <1>4, <2>2 DEF SameItem, Follows
  <2> QED BY <1>1, <1>4, <2>3
<1>5. ASSUME NEW a \in handler'[h].todo PROVE a # x
  <2>1. ~FirstItem(x) /\ ~Follows(x, x, handler[h].user)
    BY <1>2, <1>3 DEF FirstItem, Follows
  <2> QED BY <1>5, <2>1 DEF ItemEffect
<1>6. SameItem(z, y)
  BY DEF SameItem
<1> QED BY <1>1, <1>4, <1>5, <1>6 DEF ItemEffect, NewDistinct

LEMMA ItemSingle ==
    ASSUME InTurns, Typed, Single, NEW h \in Handlers, NEW x \in handler[h].todo, ItemEffect(h, x)
    PROVE  Single'
<1>1. PICK u : u = handler[h].user
  OBVIOUS
<1>2. /\ \A y \in handler[h].todo : y.kind = "insert" => Duplicates(y, u) = {}
      /\ \A y, z \in handler[h].todo : SameItem(y, z) => y = z
  BY <1>1 DEF Single, Sparing
<1>3. \A y \in handler[h].todo : y.kind # "verification" => y.name \in Steps
  BY ItemFacts
<1>4. CASE task' = task
  <2>1. NoDuplicateTask'
    BY <1>4 DEF Single, NoDuplicateTask, Exists
  <2>2. ASSUME NEW y \in handler'[h].todo, y.kind = "insert" PROVE Duplicates(y, u) = {}
    <3>1. CASE y \in handler[h].todo
      BY <1>2, <2>2, <3>1
    <3>2. CASE y \notin handler[h].todo
      <4>1. Follows(y, x, u)
        BY <1>1, <2>2, <3>2 DEF ItemEffect, FirstItem
      <4> QED BY <2>2, <4>1 DEF Follows, Duplicates
    <3> QED BY <3>1, <3>2
  <2>3. ASSUME NEW y \in handler'[h].todo, y.kind = "insert"
        PROVE  Duplicates(y, handler[h].user)' = {}
    <3>1. handler'[h].user = u
      BY <1>1, <2>3 DEF ItemEffect, SameUser
    <3>2. Duplicates(y, u)' = {}
      BY <1>4, <2>2, <2>3, KeepsDuplicates DEF KeepsTasks, Exists
    <3> QED BY <3>1, <3>2 DEF Duplicates
  <2>4. Sparing(handler[h])'
    BY <2>3, ItemDistinct DEF Sparing, SameItem
  <2> QED BY <2>1, <2>4 DEF Single, InTurns
<1>5. CASE task' # task
  <2>1. PICK n : n = nextTask
    OBVIOUS
  <2>2. /\ x.kind \in {"insert", "verification"}
        /\ handler'[h].todo \subseteq handler[h].todo \ {x}
        /\ n \in TaskIds
        /\ \A t \in TaskIds : t # n => task'[t] = task[t]
        /\ task'[n].state = "pending" /\ task'[n].request = x.request
        /\ task'[n].name = ItemName(x)
        /\ x.kind = "insert" => task'[n].user = AssigneeOf(x.name, u)
    BY <1>1, <1>5, <2>1 DEF ItemEffect
  <2>3. ASSUME NEW t \in TaskIds, t # n, Exists(t), task[t].request = task'[n].request,
               task[t].user = task'[n].user, task[t].name = task'[n].name,
               task[t].name \in Steps, ~Step[task[t].name].ownData
        PROVE  FALSE
    <3>1. x.kind = "insert"
      BY <2>2, <2>3, ConfigAssumption DEF ItemName
    <3>2. t \in Duplicates(x, u)
      BY <2>2, <2>3, <3>1 DEF Duplicates, TasksOf, ItemName
    <3> QED BY <1>2, <3>1, <3>2
  <2>4. NoDuplicateTask'
    <3> SUFFICES ASSUME NEW t \in TaskIds, NEW s \in TaskIds, Exists(t)', Exists(s)',
                        task'[t].request = task'[s].request, task'[t].user = task'[s].user,
                        task'[t].name = task'[s].name,
                        task'[t].name \in Steps, ~Step[task'[t].name].ownData, t # s
                 PROVE  FALSE
      BY DEF NoDuplicateTask
    <3>1. CASE t # n /\ s # n
      BY <2>2, <3>1 DEF Single, NoDuplicateTask, Exists
    <3>2. CASE t = n
      BY <2>2, <2>3, <3>2 DEF Exists
    <3>3. CASE s = n
      BY <2>2, <2>3, <3>3 DEF Exists
    <3> QED BY <3>1, <3>2, <3>3
  <2>5. ASSUME NEW y \in handler'[h].todo, y.kind = "insert" PROVE Duplicates(y, u)' = {}
    <3>1. y \in handler[h].todo /\ y # x /\ y.name \in Steps
      BY <1>3, <2>2, <2>5
    <3>2. Duplicates(y, u) = {}
      BY <1>2, <2>5, <3>1
    <3>3. ~(task'[n].request = y.request /\ task'[n].name = y.name)
      BY <1>2, <2>2, <2>5, <3>1, ConfigAssumption DEF ItemName, SameItem
    <3> QED BY <2>2, <3>2, <3>3 DEF Duplicates, TasksOf, Exists
  <2>6. ASSUME NEW y \in handler'[h].todo, y.kind = "insert"
        PROVE  Duplicates(y, handler[h].user)' = {}
    <3>1. handler'[h].user = u
      BY <1>1, <2>6 DEF ItemEffect, SameUser
    <3> QED BY <2>5, <2>6, <3>1 DEF Duplicates
  <2>7. Sparing(handler[h])'
    BY <2>6, ItemDistinct DEF Sparing, SameItem
  <2> QED BY <2>4, <2>7 DEF Single, InTurns
<1> QED BY <1>4, <1>5

LEMMA NextSingle ==
    ASSUME InTurns, Typed, Single, [Next]_vars
    PROVE  Single'
<1>1. ASSUME NEW r \in RequestIds, DeleteRequest(r) \/ \E s \in Edits : EditRequest(r, s)
      PROVE  Single'
  BY <1>1, QuietSingle DEF DeleteRequest, EditRequest, KeepsTasks, Exists
<1>2. ASSUME NEW h \in Handlers, NEW u \in Users, NEW t \in TaskIds, NEW v, NEW n,
             SubmitTask(h, u, t, v, n) \/ DeleteTask(h, u, t)
      PROVE  Single'
  <2>1. \E row : row.todo = {} /\ handler' = [handler EXCEPT ![h] = row]
    BY <1>2, IdleType DEF SubmitTask, DeleteTask, HandlerRow
  <2>2. KeepsTasks
    BY <1>2, NoTaskType DEF SubmitTask, DeleteTask, KeepsTasks, Exists, Typed, TypeOK
  <2>3. handler'[h].todo = {}
    BY <2>1, Written
  <2> QED BY <2>2, <2>3, QuietSingle DEF InTurns
<1>3. ASSUME NEW h \in Handlers, UpdateTask(h) PROVE Single'
  <2>1. /\ handler'[h].todo = handler[h].todo /\ handler'[h].user = handler[h].user
    BY <1>3 DEF UpdateTask, Typed, TypeOK, HandlerRow
  <2>2. KeepsTasks
    <3>1. CASE ~Exists(handler[h].task)
      BY <1>3, <3>1 DEF UpdateTask, KeepsTasks, Exists
    <3>2. CASE Exists(handler[h].task)
      <4>1. PICK k : k = handler[h].task
        OBVIOUS
      <4>2. PICK new : new = [SetClosureStatus(task[k], handler[h].verdict)
                                 EXCEPT !.nexts = handler[h].nexts]
        OBVIOUS
      <4>3. k \in TaskIds /\ task[k] \in TaskRow
        BY <1>3, <4>1 DEF UpdateTask, Typed, TypeOK, References, RefersBelow
      <4>4. /\ new.request = task[k].request /\ new.name = task[k].name
            /\ new.user = task[k].user
        BY <4>2, <4>3 DEF SetClosureStatus, TaskRow
      <4>5. task' = [task EXCEPT ![k] = new]
        BY <1>3, <3>2, <4>1, <4>2 DEF UpdateTask
      <4> QED BY <3>2, <4>1, <4>3, <4>4, <4>5 DEF KeepsTasks, Exists, Typed, TypeOK
    <3> QED BY <3>1, <3>2
  <2> QED BY <2>1, <2>2, QuietSingle DEF InTurns
<1>4. ASSUME NEW h \in Handlers,
             UpdateTaskFails(h) \/ RereadTask(h) \/ ReadRequest(h) \/ CheckOthers(h)
      PROVE  Single'
  <2>1. \/ handler'[h].todo = {}
        \/ /\ handler'[h].todo = handler[h].todo /\ handler'[h].user = handler[h].user
    <3>1. /\ handler[h] \in HandlerRow
          /\ handler' = [handler EXCEPT ![h] = handler'[h]]
      BY <1>4 DEF UpdateTaskFails, RereadTask, ReadRequest, CheckOthers, Typed, TypeOK
    <3>2. CASE handler'[h] = Idle
      BY <3>2, IdleType
    <3>3. CASE handler'[h] # Idle
      <4>1. CASE RereadTask(h)
        BY <3>1, <3>3, <4>1 DEF RereadTask, HandlerRow, Typed, TypeOK
      <4>2. CASE ReadRequest(h)
        BY <3>1, <3>3, <4>2 DEF ReadRequest, HandlerRow, Typed, TypeOK
      <4>3. CASE CheckOthers(h)
        BY <3>1, <3>3, <4>3 DEF CheckOthers, HandlerRow, Typed, TypeOK
      <4>4. CASE UpdateTaskFails(h)
        BY <3>3, <4>4 DEF UpdateTaskFails, Typed, TypeOK
      <4> QED BY <1>4, <4>1, <4>2, <4>3, <4>4
    <3> QED BY <3>2, <3>3
  <2>2. KeepsTasks
    BY <1>4 DEF UpdateTaskFails, RereadTask, ReadRequest, CheckOthers, KeepsTasks, Exists
  <2> QED BY <2>1, <2>2, QuietSingle DEF InTurns
<1>5. ASSUME NEW h \in Handlers, Call(h) PROVE Single'
  BY <1>2, <1>5, CreateRequestSingle DEF Call
<1>6. ASSUME NEW h \in Handlers, Proceed(h) PROVE Single'
  <2>1. Due(h) \subseteq handler[h].todo
    BY DEF Due
  <2> QED BY <1>3, <1>4, <1>6, <2>1, AdvanceSingle, ItemSteps, ItemSingle DEF Proceed
<1>7. CASE UNCHANGED vars
  BY <1>7, QuietSingle DEF vars, KeepsTasks, Exists
<1> QED BY <1>1, <1>5, <1>6, <1>7 DEF Next, ByHand

(* NoDuplicateTask: when calls take turns no user is given a step of a      *)
(* request twice, by whatever route the request comes back to the step and  *)
(* whatever is refused, deleted or sent again on the way.                   *)
THEOREM NoDuplicateCorrect ==
    ASSUME InTurns
    PROVE  Spec => []NoDuplicateTask
<1>1. Init => Typed /\ Single
  BY InitTyped, IdleType, NoTaskType DEF Init, Single, Sparing, NoDuplicateTask, Exists
<1>2. Typed /\ Single /\ [Next]_vars => (Typed /\ Single)'
  BY NextTyped, NextSingle
<1>3. Typed /\ Single => NoDuplicateTask
  BY DEF Single
<1> QED BY <1>1, <1>2, <1>3, PTL DEF Spec

----------------------------------------------------------------------------
(* What one move of a request does, case by case.                           *)

LEMMA MoveCases ==
    ASSUME NEW me \in HandlerRow, NEW row \in RequestRow, NEW i, i = Target(me)
    PROVE  LET new == MovedRequest(me, row)
               T == WorkAfter(me, row)
               S == StepsAt(row.workflow, i)
           IN
           /\ new.exists = row.exists /\ new.workflow = row.workflow
           /\ new.is_close <=> new.state \in Ended
           /\ new.state = IF Refuses(me) THEN "refused"
                          ELSE IF AllOptionnal(S) /\ StepsAt(row.workflow, i + 10) = {}
                               THEN "completed" ELSE "running"
           /\ me.ended => new.current_index = -10 /\ T = {}
           /\ ~me.ended /\ Refuses(me) => new.current_index = row.current_index /\ T = {}
           /\ ~me.ended /\ ~Refuses(me) /\ SomeBefore(S) =>
                 /\ new.current_index = i - 1
                 /\ T = IF new.is_close THEN {} ELSE VerificationWork(S, me.request, me.user, 0)
           /\ ~me.ended /\ ~Refuses(me) /\ ~SomeBefore(S) =>
                 new.current_index = i /\ T = StepWork(S, me.request, me.nexts, "task", 0)
<1> DEFINE S == StepsAt(row.workflow, i)
           final == AllOptionnal(S) /\ StepsAt(row.workflow, i + 10) = {}
           state == IF Refuses(me) THEN "refused" ELSE StateAt(row.workflow, i)
           before == SomeBefore(S)
           index == CASE me.ended   -> -10
                      [] Refuses(me) /\ ~me.ended -> row.current_index
                      [] OTHER -> IF before THEN i - 1 ELSE i
           closed == SetClosureStatus(row, state)
           new == MovedRequest(me, row)
<1>1. i \in Int
  BY TargetType DEF Target, HandlerRow
<1>2. index \in Int
  BY <1>1 DEF RequestRow, HandlerRow
<1>3. /\ closed \in RequestRow
      /\ closed.is_close <=> closed.state \in Ended
      /\ closed.exists = row.exists /\ closed.workflow = row.workflow
  BY RequestClosure
<1>4. StateAt(row.workflow, i) = "completed" <=> final
  BY DEF StateAt
<1>5. StateAt(row.workflow, i) \notin Ended \/ StateAt(row.workflow, i) = "completed"
  BY DEF StateAt, Ended
<1>6. closed.state = IF Refuses(me) THEN "refused" ELSE IF final THEN "completed" ELSE "running"
  <2> HIDE DEF final
  <2>1. closed.state = IF state \in Ended THEN state ELSE "running"
    <3> HIDE DEF state
    <3> QED BY DEF SetClosureStatus, CheckStateIsEnded, RequestRow
  <2> QED BY <1>4, <1>5, <2>1 DEF Ended
<1>7. new = [closed EXCEPT !.current_index = index]
  BY DEF MovedRequest
<1>8. WorkAfter(me, row) = IF me.ended \/ Refuses(me) THEN {}
                           ELSE IF ~before THEN StepWork(S, me.request, me.nexts, "task", 0)
                           ELSE IF new.is_close THEN {}
                           ELSE VerificationWork(S, me.request, me.user, 0)
  BY DEF WorkAfter
<1>9. me.ended \in BOOLEAN
  BY DEF HandlerRow
<1> HIDE DEF closed, index, new, before
<1>10. /\ new.exists = row.exists /\ new.workflow = row.workflow
       /\ new.is_close <=> new.state \in Ended
       /\ new.state = closed.state /\ new.current_index = index
  BY <1>2, <1>3, <1>7 DEF RequestRow
<1>11. /\ me.ended => new.current_index = -10 /\ WorkAfter(me, row) = {}
       /\ ~me.ended /\ Refuses(me) => new.current_index = row.current_index /\ WorkAfter(me, row) = {}
  BY <1>8, <1>9, <1>10 DEF index
<1>12. /\ ~me.ended /\ ~Refuses(me) /\ before =>
             /\ new.current_index = i - 1
             /\ WorkAfter(me, row) = IF new.is_close THEN {} ELSE VerificationWork(S, me.request, me.user, 0)
       /\ ~me.ended /\ ~Refuses(me) /\ ~before =>
             new.current_index = i /\ WorkAfter(me, row) = StepWork(S, me.request, me.nexts, "task", 0)
  <2> HIDE DEF S
  <2> QED BY <1>8, <1>9, <1>10 DEF index
<1> QED BY <1>6, <1>10, <1>11, <1>12 DEF new, before

(* The two families of items, by their fields.                              *)
LEMMA StepWorkItems ==
    ASSUME NEW S, NEW r, NEW nexts, NEW from, NEW d
    PROVE  \A y \in StepWork(S, r, nexts, from, d) :
              /\ y.kind = "prepare" /\ y.name \in S /\ y.request = r
              /\ y.nexts = nexts /\ y.from = from
BY DEF StepWork, Item

LEMMA VerificationWorkItems ==
    ASSUME NEW names, NEW r, NEW u, NEW d
    PROVE  \A y \in VerificationWork(names, r, u, d) :
              y.kind = "verification" /\ y.request = r /\ y.nexts = AllNexts
BY DEF VerificationWork, Item

(* When a verdict refuses the request.                                      *)
LEMMA RefusesWhen ==
    ASSUME NEW me
    PROVE  Refuses(me) <=> /\ ~IsOptionnal(me.name)
                           /\ me.verdict = "refused" \/ (me.verdict = "dismiss" /\ me.index < 10)
BY DEF Refuses, FinalVerdict

(* Where a task of step k moves the request, and where a verification does. *)
LEMMA StepTarget ==
    ASSUME NEW me, NEW k \in Nat, k >= 1, me.index = 10 * k
    PROVE  Target(me) = IF me.verdict = "completed" THEN 10 * (k + 1)
                        ELSE IF me.verdict = "dismiss" THEN 10 * (k - 1)
                        ELSE 10 * k
BY DEF Target, TargetIndex, Floor

LEMMA VerificationTarget ==
    ASSUME NEW me, me.index \in {-10, 0, 9}
    PROVE  /\ Target(me) \in {-10, 0, 9, 10}
           /\ me.verdict \in {"completed", "dismiss", "refused"} /\ ~(me.verdict = "completed")
              => Target(me) = me.index
           /\ me.verdict = "completed" => Target(me) \in {0, 10}
BY DEF Target, TargetIndex, Floor

----------------------------------------------------------------------------
(* Open tasks stand where their request stands.                             *)

Sequential == InTurns /\ ~Deletes /\ ~UpdatesMayFail /\ ~Resubmits
BeforeFirst == \A s \in Steps : Step[s].before => Step[s].index = 1

(* An item waits for a task nobody has open.                                *)
Unopened(x) == x.kind # "verification" => \A t \in OpenTasks(x.request) : task[t].name # x.name
Answering(me) == me.pc \notin {"idle", "create"}
StandingCall(me) ==
    /\ Answering(me) =>
          /\ InPlace(me.request, me.name)
          /\ me.name \in Steps =>
                \A t \in OpenTasks(me.request) : task[t].name = me.name => t = me.task
    /\ me.pc = "update" => task[me.task].state \in Open
    /\ me.pc \in {"request", "others", "advance"} => me.nexts = task[me.task].nexts
    /\ \A x \in me.todo : InPlace(x.request, ItemName(x)) /\ Unopened(x)
StandingRows ==
    /\ \A t \in TaskIds : task[t].state \in Open => InPlace(task[t].request, task[t].name)
    /\ \A t, s \in TaskIds :
          /\ task[t].state \in Open /\ task[s].state \in Open
          /\ task[t].request = task[s].request /\ task[t].name = task[s].name
          /\ task[t].name \in Steps
          => t = s
Standing == StandingRows /\ \A h \in Handlers : StandingCall(handler[h])

(* All that holds of the rows when calls take turns.                        *)
Settled == Typed /\ Turn /\ Placed /\ Standing

LEMMA SamePlace ==
    ASSUME NEW r, NEW n, request'[r].current_index = request[r].current_index,
           request'[r].workflow = request[r].workflow
    PROVE  InPlace(r, n)' <=> InPlace(r, n)
BY DEF InPlace

LEMMA OpenIsOld ==
    ASSUME Typed, NEW t \in TaskIds, task[t].state \in Open
    PROVE  /\ Exists(t) /\ task[t].request \in RequestIds /\ task[t].request < nextRequest
           /\ t \in OpenTasks(task[t].request) /\ task[t].state \notin Ended
BY DEF Typed, References, Exists, Open, Ended, OpenTasks, TasksOf

(* A step of one handler that leaves the tasks and the places alone.        *)
LEMMA QuietStanding ==
    ASSUME Typed, Standing, task' = task,
           \A r \in RequestIds : /\ request'[r].current_index = request[r].current_index
                                 /\ request'[r].workflow = request[r].workflow,
           \A h \in Handlers : handler'[h] = handler[h] \/ StandingCall(handler[h])'
    PROVE  Standing'
<1>1. \A r \in RequestIds : \A n : InPlace(r, n)' <=> InPlace(r, n)
  BY SamePlace
<1>2. StandingRows'
  <2>1. ASSUME NEW t \in TaskIds, task'[t].state \in Open
        PROVE  InPlace(task[t].request, task[t].name)'
    <3>1. PICK r, n : r = task[t].request /\ n = task[t].name
      OBVIOUS
    <3>2. r \in RequestIds /\ InPlace(r, n)
      BY <2>1, <3>1, OpenIsOld DEF Standing, StandingRows
    <3>3. InPlace(r, n)'
      BY <1>1, <3>2
    <3> QED BY <3>1, <3>3 DEF InPlace
  <2> QED BY <2>1 DEF Standing, StandingRows
<1>3. ASSUME NEW h \in Handlers, handler'[h] = handler[h] PROVE StandingCall(handler[h])'
  <2>1. PICK me : me = handler[h]
    OBVIOUS
  <2>2. StandingCall(me)
    BY <2>1 DEF Standing
  <2>3. /\ Answering(me) => me.request \in RequestIds
        /\ \A x \in me.todo : x.request \in RequestIds
    BY <2>1 DEF Typed, TypeOK, HandlerRow, Work, References, RefersBelow, Answering
  <2>4. Answering(me) => InPlace(me.request, me.name)'
    BY <1>1, <2>2, <2>3 DEF StandingCall
  <2>5. \A x \in me.todo : InPlace(x.request, ItemName(x))'
    BY <1>1, <2>2, <2>3 DEF StandingCall
  <2>6. StandingCall(me)'
    BY <2>2, <2>4, <2>5 DEF StandingCall, Unopened, OpenTasks, TasksOf, Exists
  <2> QED BY <1>3, <2>1, <2>6
<1> QED BY <1>2, <1>3 DEF Standing
(* A handler that answers: the row it goes on with.                         *)
LEMMA AnsweringStanding ==
    ASSUME InTurns, Typed, Standing, NEW h \in Handlers, task' = task,
           \A r \in RequestIds : /\ request'[r].current_index = request[r].current_index
                                 /\ request'[r].workflow = request[r].workflow,
           NEW row, handler' = [handler EXCEPT ![h] = row], StandingCall(row)'
    PROVE  Standing'
<1>1. handler'[h] = row
  BY Written
<1>2. StandingCall(handler[h])'
  BY <1>1 DEF StandingCall, Answering, Unopened, ItemName
<1> QED BY <1>2, QuietStanding DEF InTurns

LEMMA IdleStanding == StandingCall(Idle)
BY IdleType DEF StandingCall, Answering

LEMMA SubmitTaskStanding ==
    ASSUME Sequential, Typed, Standing, NEW h \in Handlers, NEW u, NEW t \in TaskIds,
           NEW v, NEW n, SubmitTask(h, u, t, v, n)
    PROVE  Standing'
<1>1. PICK row : row = [Idle EXCEPT !.pc = "update", !.user = u, !.task = t,
                                    !.request = task[t].request, !.name = task[t].name,
                                    !.verdict = v, !.nexts = n]
  OBVIOUS
<1>2. /\ row.pc = "update" /\ row.task = t /\ row.request = task[t].request
      /\ row.name = task[t].name /\ row.todo = {}
  BY <1>1, IdleType DEF HandlerRow
<1>3. task[t].state \in Open
  BY DEF SubmitTask, Sequential, CheckStateIsEnded, Typed, TypeOK, TaskRow, Exists
<1>4. /\ InPlace(row.request, row.name)
      /\ row.name \in Steps => \A s \in OpenTasks(row.request) : task[s].name = row.name => s = t
  BY <1>2, <1>3 DEF Standing, StandingRows, OpenTasks, TasksOf
<1>5. UNCHANGED <<task, request>> /\ handler' = [handler EXCEPT ![h] = row]
  BY <1>1 DEF SubmitTask
<1>6. StandingCall(row)'
  BY <1>2, <1>3, <1>4, <1>5 DEF StandingCall, Answering, InPlace, OpenTasks, TasksOf, Exists
<1> QED BY <1>5, <1>6, AnsweringStanding DEF Sequential

(* Reading on: the row keeps its task, and knows what the task chose.       *)
LEMMA ReadOnStanding ==
    ASSUME InTurns, Typed, Standing, NEW h \in Handlers, Answering(handler[h]), handler[h].todo = {},
           UNCHANGED <<task, request>>, NEW row, handler' = [handler EXCEPT ![h] = row],
           \/ row = Idle
           \/ /\ row.pc \notin {"idle", "create", "update"} /\ row.task = handler[h].task
              /\ row.request = handler[h].request /\ row.name = handler[h].name /\ row.todo = {}
              /\ row.nexts = task[row.task].nexts
    PROVE  Standing'
<1>1. CASE row = Idle
  <2>1. StandingCall(row)'
    BY <1>1, IdleType DEF StandingCall, Answering
  <2> QED BY <2>1, AnsweringStanding
<1>2. CASE row # Idle
  <2>1. PICK me : me = handler[h]
    OBVIOUS
  <2>2. StandingCall(me)
    BY <2>1 DEF Standing
  <2>3. /\ row.pc \notin {"idle", "create", "update"} /\ row.task = me.task
        /\ row.request = me.request /\ row.name = me.name /\ row.todo = {}
        /\ row.nexts = task[row.task].nexts
    BY <1>2, <2>1
  <2>4. StandingCall(row)'
    BY <2>1, <2>2, <2>3 DEF StandingCall, Answering, InPlace, OpenTasks, TasksOf, Exists
  <2> QED BY <2>4, AnsweringStanding
<1> QED BY <1>1, <1>2

LEMMA RereadTaskStanding ==
    ASSUME InTurns, Typed, Turn, Standing, NEW h \in Handlers, RereadTask(h)
    PROVE  Standing'
<1>1. PICK me : me = handler[h]
  OBVIOUS
<1>2. PICK row : row = IF CheckStateIsEnded(task[me.task].state)
                       THEN [me EXCEPT !.pc = "request", !.verdict = task[me.task].state,
                                       !.nexts = task[me.task].nexts]
                       ELSE Idle
  OBVIOUS
<1>3. me \in HandlerRow /\ me.pc = "reread" /\ me.todo = {}
  BY <1>1 DEF RereadTask, Typed, TypeOK, Turn, Knows
<1>4. handler' = [handler EXCEPT ![h] = row] /\ UNCHANGED <<task, request>>
  BY <1>1, <1>2 DEF RereadTask, Typed, TypeOK
<1>5. \/ row = Idle
      \/ /\ row.pc = "request" /\ row.task = me.task /\ row.request = me.request
         /\ row.name = me.name /\ row.todo = {} /\ row.nexts = task[row.task].nexts
  BY <1>2, <1>3 DEF HandlerRow
<1> QED BY <1>1, <1>3, <1>4, <1>5, ReadOnStanding DEF Answering

LEMMA ReadRequestStanding ==
    ASSUME InTurns, Typed, Turn, Standing, NEW h \in Handlers, ReadRequest(h)
    PROVE  Standing'
<1>1. PICK me : me = handler[h]
  OBVIOUS
<1>2. PICK row : row = IF request[me.request].exists
                       THEN [me EXCEPT !.pc = "others", !.index = request[me.request].current_index,
                                       !.ended = CheckStateIsEnded(request[me.request].state)]
                       ELSE Idle
  OBVIOUS
<1>3. me \in HandlerRow /\ me.pc = "request" /\ me.todo = {} /\ me.nexts = task[me.task].nexts
  BY <1>1 DEF ReadRequest, Typed, TypeOK, Turn, Knows, Standing, StandingCall
<1>4. handler' = [handler EXCEPT ![h] = row] /\ UNCHANGED <<task, request>>
  BY <1>1, <1>2 DEF ReadRequest, Typed, TypeOK
<1>5. \/ row = Idle
      \/ /\ row.pc = "others" /\ row.task = me.task /\ row.request = me.request
         /\ row.name = me.name /\ row.todo = {} /\ row.nexts = me.nexts
  BY <1>2, <1>3 DEF HandlerRow
<1> QED BY <1>1, <1>3, <1>4, <1>5, ReadOnStanding DEF Answering

LEMMA CheckOthersStanding ==
    ASSUME InTurns, Typed, Turn, Standing, NEW h \in Handlers, CheckOthers(h)
    PROVE  Standing'
<1>1. PICK me : me = handler[h]
  OBVIOUS
<1>2. PICK row : row = IF \E t \in OpenTasks(me.request) : task[t].name # me.name
                       THEN Idle ELSE [me EXCEPT !.pc = "advance"]
  OBVIOUS
<1>3. me \in HandlerRow /\ me.pc = "others" /\ me.todo = {} /\ me.nexts = task[me.task].nexts
  BY <1>1 DEF CheckOthers, Typed, TypeOK, Turn, Knows, Standing, StandingCall
<1>4. handler' = [handler EXCEPT ![h] = row] /\ UNCHANGED <<task, request>>
  BY <1>1, <1>2 DEF CheckOthers, Typed, TypeOK
<1>5. \/ row = Idle
      \/ /\ row.pc = "advance" /\ row.task = me.task /\ row.request = me.request
         /\ row.name = me.name /\ row.todo = {} /\ row.nexts = me.nexts
  BY <1>2, <1>3 DEF HandlerRow
<1> QED BY <1>1, <1>3, <1>4, <1>5, ReadOnStanding DEF Answering

(* The answer: what is written to the one task of the call.                 *)
AnswerEffect(h, new) ==
    LET me == handler[h]  k == me.task IN
    /\ k \in TaskIds /\ Exists(k) /\ me.pc = "update" /\ me.todo = {}
    /\ task[k].request = me.request /\ task[k].name = me.name
    /\ task'[k] = new /\ \A t \in TaskIds : t # k => task'[t] = task[t]
    /\ new.state = (IF me.verdict \in Ended THEN me.verdict ELSE "running")
    /\ new.request = me.request /\ new.name = me.name
    /\ new.nexts = me.nexts /\ new.user = task[k].user
    /\ handler'[h].pc = "reread" /\ handler'[h].task = k /\ handler'[h].todo = {}
    /\ handler'[h].request = me.request /\ handler'[h].name = me.name
    /\ handler'[h].nexts = me.nexts
    /\ UNCHANGED <<request, nextRequest>>

LEMMA UpdateTaskEffect ==
    ASSUME Typed, Turn, NEW h \in Handlers, UpdateTask(h)
    PROVE  \E new : AnswerEffect(h, new)
<1>1. PICK me : me = handler[h]
  OBVIOUS
<1>2. PICK k : k = me.task
  OBVIOUS
<1>3. PICK new : new = [SetClosureStatus(task[k], me.verdict) EXCEPT !.nexts = me.nexts]
  OBVIOUS
<1>4. PICK row : row = [me EXCEPT !.pc = "reread"]
  OBVIOUS
<1>5. /\ me \in HandlerRow /\ me.pc = "update" /\ me.todo = {} /\ KnowsTask(me)
      /\ k \in TaskIds /\ task[k] \in TaskRow
  BY <1>1, <1>2 DEF UpdateTask, Typed, TypeOK, References, RefersBelow, Turn, Knows
<1>6. Exists(k) /\ task[k].request = me.request /\ task[k].name = me.name
  BY <1>2, <1>5 DEF KnowsTask
<1>7. /\ new.request = me.request /\ new.name = me.name /\ new.nexts = me.nexts
      /\ new.user = task[k].user
      /\ new.state = (IF me.verdict \in Ended THEN me.verdict ELSE "running")
  <2>1. PICK old : old = task[k]
    OBVIOUS
  <2>2. old \in TaskRow /\ new = [SetClosureStatus(old, me.verdict) EXCEPT !.nexts = me.nexts]
    BY <1>3, <1>5, <2>1
  <2>3. /\ new.request = old.request /\ new.name = old.name /\ new.nexts = me.nexts
        /\ new.user = old.user
        /\ new.state = (IF me.verdict \in Ended THEN me.verdict ELSE "running")
    BY <2>2 DEF SetClosureStatus, CheckStateIsEnded, TaskRow, Ended
  <2> QED BY <1>6, <2>1, <2>3
<1>8. /\ task' = [task EXCEPT ![k] = new] /\ handler' = [handler EXCEPT ![h] = row]
      /\ UNCHANGED <<request, nextRequest>>
  BY <1>1, <1>2, <1>3, <1>4, <1>5, <1>6 DEF UpdateTask, Typed, TypeOK
<1>9. task'[k] = new /\ \A t \in TaskIds : t # k => task'[t] = task[t]
  BY <1>5, <1>8 DEF Typed, TypeOK
<1>10. handler'[h] = row
  BY <1>8, Written
<1>11. /\ row.pc = "reread" /\ row.task = k /\ row.todo = {}
       /\ row.request = me.request /\ row.name = me.name /\ row.nexts = me.nexts
  BY <1>2, <1>4, <1>5 DEF HandlerRow
<1>12. AnswerEffect(h, new)
  BY <1>1, <1>2, <1>5, <1>6, <1>7, <1>8, <1>9, <1>10, <1>11 DEF AnswerEffect
<1> QED BY <1>12

LEMMA UpdateTaskStanding ==
    ASSUME InTurns, Typed, Standing, NEW h \in Handlers, NEW new, AnswerEffect(h, new)
    PROVE  Standing'
<1>1. PICK me : me = handler[h]
  OBVIOUS
<1>2. PICK row : row = handler'[h]
  OBVIOUS
<1>3. PICK k : k = me.task
  OBVIOUS
<1>4. /\ k \in TaskIds /\ me.pc = "update" /\ task'[k] = new
      /\ task[k].request = me.request /\ task[k].name = me.name
      /\ \A t \in TaskIds : t # k => task'[t] = task[t]
      /\ new.request = me.request /\ new.name = me.name
      /\ row.pc = "reread" /\ row.task = k /\ row.todo = {}
      /\ row.request = me.request /\ row.name = me.name
      /\ request' = request
  BY <1>1, <1>2, <1>3 DEF AnswerEffect
<1>5. StandingCall(me) /\ task[k].state \in Open
  BY <1>1, <1>3, <1>4 DEF Standing, StandingCall
<1>6. \A t \in TaskIds : task'[t].state \in Open =>
         /\ task[t].state \in Open /\ task'[t].request = task[t].request
         /\ task'[t].name = task[t].name
  BY <1>4, <1>5
<1>7. StandingRows'
  BY <1>4, <1>6 DEF Standing, StandingRows, InPlace
<1>8. StandingCall(row)'
  <2>1. PICK r : r = me.request
    OBVIOUS
  <2>2. \A t \in OpenTasks(r)' : t \in OpenTasks(r) /\ task'[t].name = task[t].name
    BY <1>6, OpenIsOld DEF OpenTasks, TasksOf
  <2>3. InPlace(r, me.name) /\ (me.name \in Steps => \A t \in OpenTasks(r) : task[t].name = me.name => t = k)
    BY <1>3, <1>4, <1>5, <2>1 DEF StandingCall, Answering
  <2> QED BY <1>4, <2>1, <2>2, <2>3 DEF StandingCall, Answering, InPlace
<1>9. StandingCall(handler[h])'
  BY <1>2, <1>8 DEF StandingCall, Answering, Unopened, ItemName
<1> QED BY <1>7, <1>9 DEF Standing, InTurns
(* Places survive a step that only opens a request.                         *)
LEMMA OnlyOpensPlaces ==
    ASSUME Typed, OnlyOpens, NEW r \in RequestIds, r < nextRequest, NEW n
    PROVE  InPlace(r, n)' <=> InPlace(r, n)
<1>1. request'[r] = request[r]
  BY TypedCounters DEF OnlyOpens, RequestIds
<1> QED BY <1>1, SamePlace

(* Nobody has a task of a request that is not open yet.                     *)
LEMMA FirstUnopened ==
    ASSUME Typed, NEW r, r = nextRequest
    PROVE  TasksOf(r) = {}
BY TypedCounters DEF Typed, References, TasksOf, RequestIds

(* A handler that creates and has done nothing else.                        *)
LEMMA CreatingStanding ==
    ASSUME NEW me, me.pc \in {"idle", "create"},
           \A y \in me.todo : InPlace(y.request, ItemName(y))' /\ Unopened(y)'
    PROVE  StandingCall(me)'
BY DEF StandingCall, Answering

(* The rows, when no task is added or changed.                              *)
LEMMA SameRowsStanding ==
    ASSUME Typed, StandingRows, OnlyOpens, task' = task
    PROVE  StandingRows'
<1>1. ASSUME NEW t \in TaskIds, task'[t].state \in Open
      PROVE  InPlace(task[t].request, task[t].name)'
  <2>1. PICK r, n : r = task[t].request /\ n = task[t].name
    OBVIOUS
  <2>2. r \in RequestIds /\ r < nextRequest /\ InPlace(r, n)
    BY <1>1, <2>1, OpenIsOld DEF StandingRows
  <2>3. InPlace(r, n)'
    BY <2>2, OnlyOpensPlaces
  <2> QED BY <2>1, <2>3 DEF InPlace
<1> QED BY <1>1 DEF StandingRows

LEMMA CreateRequestStanding ==
    ASSUME InTurns, Typed, Standing, NEW h \in Handlers, NEW u \in Users, NEW w \in Workflows,
           CreateRequest(h, u, w)
    PROVE  Standing'
<1>1. PICK row : row = handler'[h]
  OBVIOUS
<1>2. /\ \A y \in row.todo : FirstItem(y)
      /\ row.pc \in {"idle", "create"} /\ OnlyOpens /\ task' = task
  BY <1>1, CreateRequestEffect
<1>3. StandingRows'
  BY <1>2, SameRowsStanding DEF Standing
<1>4. ASSUME NEW y \in row.todo PROVE InPlace(y.request, ItemName(y))' /\ Unopened(y)'
  <2>1. PICK r : r = y.request
    OBVIOUS
  <2>2. r = nextRequest /\ InPlace(r, ItemName(y))'
    BY <1>2, <2>1 DEF FirstItem
  <2>3. TasksOf(r) = {}
    BY <2>2, FirstUnopened
  <2> QED BY <1>2, <2>1, <2>2, <2>3 DEF Unopened, OpenTasks, TasksOf, Exists
<1>5. StandingCall(row)'
  BY <1>2, <1>4, CreatingStanding
<1>6. StandingCall(handler[h])'
  BY <1>1, <1>5 DEF StandingCall, Answering
<1> QED BY <1>3, <1>6 DEF Standing, InTurns

(* An item is worked off; with Single, the other items are for other tasks. *)
LEMMA ItemStanding ==
    ASSUME InTurns, Typed, Single, Standing, NEW h \in Handlers, NEW x \in handler[h].todo,
           ItemEffect(h, x)
    PROVE  Standing'
<1>1. PICK row : row = handler'[h]
  OBVIOUS
<1>2. PICK todo : todo = handler[h].todo
  OBVIOUS
<1>3. \A y \in todo : /\ y.request \in RequestIds /\ y.request < nextRequest
                      /\ InPlace(y.request, ItemName(y)) /\ Unopened(y)
                      /\ y.kind # "verification" => y.name \in Steps
  BY <1>2, ItemFacts DEF Standing, StandingCall
<1>4. OnlyOpens /\ row.pc \in {"idle", "create"}
  BY <1>1 DEF ItemEffect
<1>5. \A y \in todo : InPlace(y.request, ItemName(y))'
  <2> TAKE y \in todo
  <2>1. PICK r, n : r = y.request /\ n = ItemName(y)
    OBVIOUS
  <2>2. r \in RequestIds /\ r < nextRequest /\ InPlace(r, n)
    BY <1>3, <2>1
  <2>3. InPlace(r, n)'
    BY <1>4, <2>2, OnlyOpensPlaces
  <2> QED BY <2>1, <2>3 DEF InPlace
<1>6. CASE task' = task
  <2>1. StandingRows'
    BY <1>4, <1>6, SameRowsStanding DEF Standing
  <2>2. \A y \in todo : Unopened(y)'
    BY <1>3, <1>6 DEF Unopened, OpenTasks, TasksOf, Exists
  <2>3. ASSUME NEW y \in row.todo PROVE InPlace(y.request, ItemName(y))' /\ Unopened(y)'
    <3>1. CASE y \in todo
      BY <1>5, <2>2, <3>1
    <3>2. CASE Follows(y, x, handler[h].user)
      <4>1. /\ y.request = x.request /\ ItemName(y) = ItemName(x)
            /\ x.kind # "verification" /\ y.kind # "verification" /\ y.name = x.name
        BY <3>2 DEF Follows, ItemName
      <4> QED BY <1>2, <1>5, <2>2, <4>1 DEF Unopened
    <3>3. CASE FirstItem(y)
      <4>1. PICK r : r = y.request
        OBVIOUS
      <4>2. r = nextRequest /\ InPlace(r, ItemName(y))'
        BY <3>3, <4>1 DEF FirstItem
      <4>3. TasksOf(r) = {}
        BY <4>2, FirstUnopened
      <4> QED BY <1>6, <4>1, <4>2, <4>3 DEF Unopened, OpenTasks, TasksOf, Exists
    <3> QED BY <1>1, <1>2, <3>1, <3>2, <3>3 DEF ItemEffect
  <2>4. StandingCall(row)'
    BY <1>4, <2>3, CreatingStanding
  <2>5. StandingCall(handler[h])'
    BY <1>1, <2>4 DEF StandingCall, Answering
  <2> QED BY <2>1, <2>5 DEF Standing, InTurns
<1>7. CASE task' # task
  <2>1. PICK k : k = nextTask
    OBVIOUS
  <2>2. PICK r, n : r = x.request /\ n = ItemName(x)
    OBVIOUS
  <2>3. /\ row.todo \subseteq todo \ {x} /\ k \in TaskIds
        /\ \A t \in TaskIds : t # k => task'[t] = task[t]
        /\ task'[k].request = r /\ task'[k].name = n
        /\ x.kind \in {"insert", "verification"}
    BY <1>1, <1>2, <1>7, <2>1, <2>2 DEF ItemEffect
  <2>4. InPlace(r, n)' /\ r \in RequestIds /\ r < nextRequest
    <3>1. InPlace(x.request, ItemName(x))'
      BY <1>2, <1>5
    <3> QED BY <1>2, <1>3, <2>2, <3>1 DEF InPlace
  <2>5. ASSUME NEW t \in TaskIds, task'[t].state \in Open
        PROVE  InPlace(task[t].request, task[t].name)'
    <3>1. PICK q, m : q = task'[t].request /\ m = task'[t].name
      OBVIOUS
    <3>2. CASE t = k
      BY <2>3, <2>4, <3>2 DEF InPlace
    <3>3. CASE t # k
      <4>1. task'[t] = task[t]
        BY <2>3, <3>3
      <4>2. q \in RequestIds /\ q < nextRequest /\ InPlace(q, m)
        BY <2>5, <3>1, <4>1, OpenIsOld DEF Standing, StandingRows
      <4>3. InPlace(q, m)'
        BY <1>4, <4>2, OnlyOpensPlaces
      <4> QED BY <3>1, <4>3 DEF InPlace
    <3> QED BY <3>2, <3>3
  <2>6. n \in Steps => \A t \in TaskIds : t # k /\ task[t].state \in Open /\ task[t].request = r
                                          => task[t].name # n
    <3>1. n \in Steps => x.kind # "verification" /\ n = x.name
      BY <2>2, ConfigAssumption DEF ItemName
    <3>2. Unopened(x)
      BY <1>2, <1>3
    <3> QED BY <2>2, <3>1, <3>2, OpenIsOld DEF Unopened
  <2>7. StandingRows'
    BY <2>3, <2>5, <2>6 DEF Standing, StandingRows
  <2>8. ASSUME NEW y \in row.todo PROVE Unopened(y)'
    <3>1. y \in todo /\ y # x
      BY <2>3
    <3>2. PICK q, m : q = y.request /\ m = y.name
      OBVIOUS
    <3>3. CASE y.kind # "verification"
      <4>1. ~(r = q /\ n = m)
        BY <1>2, <1>3, <2>2, <3>1, <3>2, <3>3, ConfigAssumption
           DEF Single, Sparing, SameItem, ItemName
      <4>2. \A t \in OpenTasks(q) : task[t].name # m
        BY <1>3, <3>1, <3>2, <3>3 DEF Unopened
      <4>3. ASSUME NEW t \in OpenTasks(q)' PROVE task'[t].name # m
        <5>1. CASE t = k
          BY <2>3, <4>1, <4>3, <5>1 DEF OpenTasks, TasksOf
        <5>2. CASE t # k
          BY <2>3, <4>2, <4>3, <5>2 DEF OpenTasks, TasksOf, Exists
        <5> QED BY <5>1, <5>2
      <4> QED BY <3>2, <4>3 DEF Unopened, OpenTasks, TasksOf
    <3> QED BY <3>3 DEF Unopened
  <2>9. \A y \in row.todo : InPlace(y.request, ItemName(y))' /\ Unopened(y)'
    BY <1>5, <2>3, <2>8
  <2>10. StandingCall(row)'
    BY <1>4, <2>9, CreatingStanding
  <2>11. StandingCall(handler[h])'
    BY <1>1, <2>10 DEF StandingCall, Answering
  <2> QED BY <2>7, <2>11 DEF Standing, InTurns
<1> QED BY <1>6, <1>7
(* The move: what its handler me has read, what it writes and leaves.       *)
MoveEffect(h, me, i, new, T) ==
    LET r == me.request IN
    /\ me = handler[h] /\ me \in HandlerRow /\ me.user \in Users /\ me.pc = "advance"
    /\ r \in RequestIds /\ r < nextRequest
    /\ request[r] \in RequestRow /\ request[r].exists
    /\ me.index = request[r].current_index /\ i = Target(me)
    /\ me.task \in TaskIds /\ me.task \in TasksOf(r)
    /\ task[me.task].name = me.name /\ task[me.task].state = me.verdict
    /\ me.verdict \in Ended
    /\ \A t \in OpenTasks(r) : task[t].name = me.name
    /\ new = MovedRequest(me, request[r]) /\ T = WorkAfter(me, request[r])
    /\ request'[r] = new /\ \A q \in RequestIds : q # r => request'[q] = request[q]
    /\ handler'[h].todo = T /\ handler'[h].pc \in {"idle", "create"}
    /\ UNCHANGED <<task, nextRequest>>

LEMMA AdvanceEffect ==
    ASSUME Typed, Turn, Placed, NEW h \in Handlers, AdvanceRequest(h)
    PROVE  \E me, i, new, T : MoveEffect(h, me, i, new, T)
<1>1. PICK me : me = handler[h]
  OBVIOUS
<1>2. PICK r : r = me.request
  OBVIOUS
<1>3. PICK todo : todo = WorkAfter(me, request[r])
  OBVIOUS
<1>4. PICK new : new = MovedRequest(me, request[r])
  OBVIOUS
<1>5. PICK i : i = Target(me)
  OBVIOUS
<1>6. PICK row : row = WithTodo(me, todo)
  OBVIOUS
<1>7. /\ me \in HandlerRow /\ r \in RequestIds /\ request[r] \in RequestRow /\ me.pc = "advance"
      /\ me.user \in Users /\ request[r].exists /\ me.index = request[r].current_index
      /\ r < nextRequest /\ me.task \in TaskIds
      /\ me.verdict \in Ended /\ task[me.task].state = me.verdict
  BY <1>1, <1>2 DEF AdvanceRequest, Typed, TypeOK, References, RefersBelow, Turn, Knows, KnowsTask,
                    Placed, PlacedCall
<1>8. /\ me.task \in TasksOf(r) /\ task[me.task].name = me.name
      /\ \A t \in OpenTasks(r) : task[t].name = me.name
  BY <1>1, <1>2, <1>7, AdvanceAnswered
<1>9. /\ handler' = [handler EXCEPT ![h] = row] /\ request' = [request EXCEPT ![r] = new]
      /\ UNCHANGED <<task, nextRequest>>
  BY <1>1, <1>2, <1>3, <1>4, <1>6, <1>7 DEF AdvanceRequest
<1>10. request'[r] = new /\ \A q \in RequestIds : q # r => request'[q] = request[q]
  BY <1>7, <1>9 DEF Typed, TypeOK
<1>11. todo \in SUBSET Work
  BY <1>2, <1>3, <1>7, WorkAfterType
<1>12. handler'[h] = row /\ row.todo = todo /\ row.pc \in {"idle", "create"}
  BY <1>6, <1>7, <1>9, <1>11, Written, WithTodoType
<1>13. MoveEffect(h, me, i, new, todo)
  BY <1>1, <1>2, <1>3, <1>4, <1>5, <1>7, <1>8, <1>9, <1>10, <1>12 DEF MoveEffect
<1> QED BY <1>13

(* When a step is answered nobody has a task of the request left open.      *)
LEMMA AdvanceEmpties ==
    ASSUME Standing, NEW h \in Handlers, NEW me, NEW i, NEW new, NEW T,
           MoveEffect(h, me, i, new, T), me.name \in Steps
    PROVE  OpenTasks(me.request) = {}
<1>1. \A t \in OpenTasks(me.request) : t = me.task
  BY DEF MoveEffect, Standing, StandingCall, Answering
<1>2. me.task \notin OpenTasks(me.request)
  BY DEF MoveEffect, OpenTasks, Open, Ended
<1> QED BY <1>1, <1>2

(* A verification never leads to a step.                                    *)
LEMMA VerificationMoves ==
    ASSUME NEW me \in HandlerRow, NEW row \in RequestRow, me.index = row.current_index,
           row.current_index \in {-10, 0, 9}, SomeBefore(StepsAt(row.workflow, 10)),
           NEW i, i = Target(me)
    PROVE  /\ MovedRequest(me, row).current_index \in {-10, 0, 9}
           /\ \A y \in WorkAfter(me, row) : y.kind = "verification"
<1> DEFINE new == MovedRequest(me, row)
           S == StepsAt(row.workflow, i)
<1>1. i \in {-10, 0, 9, 10}
  BY VerificationTarget
<1>2. CASE me.ended \/ Refuses(me)
  BY <1>2, MoveCases DEF HandlerRow
<1>3. CASE ~me.ended /\ ~Refuses(me) /\ SomeBefore(S)
  <2>1. i = 10
    <3>1. PICK s \in Steps : 10 * Step[s].index = i
      BY <1>3 DEF SomeBefore, StepsAt
    <3> QED BY <1>1, <3>1, ConfigAssumption DEF StepRow
  <2>2. /\ new.current_index = i - 1
        /\ WorkAfter(me, row) = IF new.is_close THEN {} ELSE VerificationWork(S, me.request, me.user, 0)
    BY <1>3, MoveCases
  <2> HIDE DEF new, S
  <2>3. \A y \in VerificationWork(S, me.request, me.user, 0) : y.kind = "verification"
    BY VerificationWorkItems
  <2>4. new.current_index = 9 /\ \A y \in WorkAfter(me, row) : y.kind = "verification"
    BY <2>1, <2>2, <2>3
  <2> QED BY <2>4 DEF new
<1>4. CASE ~me.ended /\ ~Refuses(me) /\ ~SomeBefore(S)
  <2>1. i # 10
    BY <1>4
  <2>2. S = {}
    <3>1. ASSUME NEW s \in S PROVE FALSE
      <4>1. s \in Steps /\ 10 * Step[s].index = i
        BY <3>1 DEF StepsAt
      <4> QED BY <1>1, <2>1, <4>1, ConfigAssumption DEF StepRow
    <3> QED BY <3>1
  <2>3. new.current_index = i /\ WorkAfter(me, row) = StepWork(S, me.request, me.nexts, "task", 0)
    BY <1>4, MoveCases
  <2>4. WorkAfter(me, row) = {}
    BY <2>2, <2>3 DEF StepWork
  <2> QED BY <1>1, <2>1, <2>3, <2>4
<1> QED BY <1>2, <1>3, <1>4 DEF HandlerRow

LEMMA AdvanceStanding ==
    ASSUME Sequential, BeforeFirst, Typed, Standing,
           NEW h \in Handlers, NEW me, NEW i, NEW new, NEW T, MoveEffect(h, me, i, new, T)
    PROVE  Standing'
<1>1. PICK r, old : r = me.request /\ old = request[r]
  OBVIOUS
<1>2. PICK S : S = StepsAt(old.workflow, i)
  OBVIOUS
<1>3. /\ me = handler[h] /\ me \in HandlerRow /\ r \in RequestIds /\ old \in RequestRow
      /\ me.index = old.current_index /\ i = Target(me)
      /\ new = MovedRequest(me, old) /\ T = WorkAfter(me, old)
      /\ request'[r] = new /\ \A q \in RequestIds : q # r => request'[q] = request[q]
      /\ task' = task /\ handler'[h].todo = T /\ handler'[h].pc \in {"idle", "create"}
      /\ \A t \in OpenTasks(r) : task[t].name = me.name
      /\ me.pc = "advance"
  BY <1>1 DEF MoveEffect
<1>4. InPlace(r, me.name) /\ me.name \in Names
  BY <1>1, <1>3 DEF Standing, StandingCall, Answering, HandlerRow
<1>5. new.workflow = old.workflow
  BY <1>3, MoveCases
<1>6. me.name \in Steps => OpenTasks(r) = {}
  BY <1>1, AdvanceEmpties
<1>7. ASSUME me.name \notin Steps
      PROVE  /\ InPlace(r, Verification)'
             /\ \A y \in T : y.kind = "verification"
  <2>1. old.current_index \in {-10, 0, 9} /\ SomeBefore(StepsAt(old.workflow, 10))
    BY <1>1, <1>4, <1>7 DEF InPlace
  <2>2. new.current_index \in {-10, 0, 9} /\ \A y \in T : y.kind = "verification"
    BY <1>3, <2>1, VerificationMoves
  <2> QED BY <1>3, <1>5, <2>1, <2>2, ConfigAssumption DEF InPlace
<1>8. StandingRows'
  <2>1. ASSUME NEW t \in TaskIds, task'[t].state \in Open
        PROVE  InPlace(task[t].request, task[t].name)'
    <3>1. PICK q, m : q = task[t].request /\ m = task[t].name
      OBVIOUS
    <3>2. q \in RequestIds /\ InPlace(q, m) /\ t \in OpenTasks(q)
      BY <1>3, <2>1, <3>1, OpenIsOld DEF Standing, StandingRows
    <3>3. CASE q # r
      <4>1. InPlace(q, m)'
        BY <1>3, <3>2, <3>3, SamePlace
      <4> QED BY <1>3, <3>1, <4>1 DEF InPlace
    <3>4. CASE q = r
      <4>1. me.name \notin Steps /\ m = Verification
        BY <1>3, <1>4, <1>6, <3>1, <3>2, <3>4 DEF Names
      <4> QED BY <1>3, <1>7, <3>1, <3>4, <4>1 DEF InPlace
    <3> QED BY <3>3, <3>4
  <2> QED BY <1>3, <2>1 DEF Standing, StandingRows
<1>9. ASSUME NEW y \in T PROVE y.request = r /\ InPlace(y.request, ItemName(y))' /\ Unopened(y)'
  <2>1. ~me.ended /\ ~Refuses(me)
    BY <1>3, <1>9, MoveCases DEF HandlerRow
  <2>2. CASE SomeBefore(S)
    <3>1. new.current_index = i - 1 /\ T \subseteq VerificationWork(S, me.request, me.user, 0)
      BY <1>2, <1>3, <2>1, <2>2, MoveCases
    <3>2. y.kind = "verification" /\ y.request = r
      BY <1>1, <1>9, <3>1, VerificationWorkItems
    <3>3. i = 10 /\ SomeBefore(StepsAt(new.workflow, 10))
      <4>1. PICK s \in S : Step[s].before
        BY <2>2 DEF SomeBefore
      <4>2. i = 10
        BY <1>2, <4>1 DEF StepsAt, BeforeFirst
      <4> QED BY <1>2, <1>5, <2>2, <4>2
    <3>4. InPlace(r, Verification)'
      BY <1>3, <3>1, <3>3, ConfigAssumption DEF InPlace
    <3> QED BY <3>2, <3>4 DEF ItemName, Unopened
  <2>3. CASE ~SomeBefore(S)
    <3>1. new.current_index = i /\ T = StepWork(S, me.request, me.nexts, "task", 0)
      BY <1>2, <1>3, <2>1, <2>3, MoveCases
    <3>2. y.kind = "prepare" /\ y.name \in S /\ y.request = r
      BY <1>1, <1>9, <3>1, StepWorkItems
    <3>3. /\ y.name \in Steps /\ Step[y.name].workflow = new.workflow
          /\ 10 * Step[y.name].index = i
      BY <1>2, <1>5, <3>2 DEF StepsAt
    <3>4. InPlace(r, y.name)'
      BY <1>3, <3>1, <3>3 DEF InPlace
    <3>5. me.name \in Steps
      BY <1>7, <1>9, <3>2
    <3>6. OpenTasks(r)' = {}
      BY <1>3, <1>6, <3>5 DEF OpenTasks, TasksOf, Exists
    <3> QED BY <3>2, <3>4, <3>6 DEF ItemName, Unopened, OpenTasks, TasksOf
  <2> QED BY <2>2, <2>3
<1>10. PICK row : row = handler'[h]
  OBVIOUS
<1>11. StandingCall(row)'
  BY <1>3, <1>9, <1>10, CreatingStanding
<1>12. StandingCall(handler[h])'
  BY <1>10, <1>11 DEF StandingCall, Answering
<1> QED BY <1>8, <1>12 DEF Standing, Sequential, InTurns

(* What a step does, when calls take turns: nothing but to edit a request   *)
(* by hand, open one, take an answer, read on, move a request, or work off  *)
(* an item.                                                                 *)
ReadsOn(h) ==
    /\ RereadTask(h) \/ ReadRequest(h) \/ CheckOthers(h)
    /\ UNCHANGED <<request, task, nextRequest>>
Takes(h) ==
    \E u \in Users, t \in TaskIds, v \in Verdicts :
        \E n \in NextsChoices \cup {task[t].nexts} : SubmitTask(h, u, t, v, n)
Opens(h) == \E u \in Users, w \in Workflows : CreateRequest(h, u, w)

LEMMA StepKinds ==
    ASSUME Sequential, Typed, Turn, Placed, [Next]_vars
    PROVE  \/ UNCHANGED vars
           \/ \E r \in RequestIds, s \in Edits : EditRequest(r, s)
           \/ \E h \in Handlers :
                 \/ Opens(h) \/ Takes(h) \/ ReadsOn(h)
                 \/ UpdateTask(h) /\ \E new : AnswerEffect(h, new)
                 \/ \E me, i, new, T : MoveEffect(h, me, i, new, T)
                 \/ \E x \in handler[h].todo : x \in Due(h) /\ ItemEffect(h, x)
<1>1. ASSUME ByHand PROVE \E r \in RequestIds, s \in Edits : EditRequest(r, s)
  BY <1>1 DEF ByHand, DeleteRequest, Sequential
<1>2. ASSUME NEW h \in Handlers, Call(h) PROVE Opens(h) \/ Takes(h)
  BY <1>2 DEF Call, DeleteTask, Sequential, Opens, Takes
<1>3. ASSUME NEW h \in Handlers, Proceed(h)
      PROVE  \/ ReadsOn(h)
             \/ UpdateTask(h) /\ \E new : AnswerEffect(h, new)
             \/ \E me, i, new, T : MoveEffect(h, me, i, new, T)
             \/ \E x \in handler[h].todo : x \in Due(h) /\ ItemEffect(h, x)
  <2>1. Due(h) \subseteq handler[h].todo
    BY DEF Due
  <2>2. CASE \E x \in Due(h) : \/ PrepareTask(h, x) \/ FindTask(h, x)
                              \/ InsertTask(h, x) \/ InsertVerification(h, x)
                              \/ InsertFails(h, x)
    BY <2>1, <2>2, ItemSteps
  <2>3. CASE RereadTask(h) \/ ReadRequest(h) \/ CheckOthers(h)
    BY <2>3 DEF ReadsOn, RereadTask, ReadRequest, CheckOthers
  <2>4. CASE UpdateTask(h)
    BY <2>4, UpdateTaskEffect
  <2>5. CASE AdvanceRequest(h)
    BY <2>5, AdvanceEffect
  <2> QED BY <1>3, <2>2, <2>3, <2>4, <2>5
          DEF Proceed, UpdateTaskFails, AdvanceRequestFails, Sequential
<1> QED BY <1>1, <1>2, <1>3 DEF Next(* A request edited by hand keeps its place.                                *)
LEMMA EditEffect ==
    ASSUME Typed, NEW r \in RequestIds, NEW s \in Edits, EditRequest(r, s)
    PROVE  /\ UNCHANGED <<task, handler, nextRequest>> /\ request[r].exists
           /\ \A q \in RequestIds : /\ request'[q].current_index = request[q].current_index
                                    /\ request'[q].workflow = request[q].workflow
                                    /\ request'[q].exists = request[q].exists
           /\ \A q \in RequestIds : q # r => request'[q] = request[q]
           /\ request'[r].is_close <=> s \in Ended
           /\ request'[r].state = IF s \in Ended THEN s ELSE "running"
<1>1. PICK new : new = SetClosureStatus(request[r], s)
  OBVIOUS
<1>2. /\ new.current_index = request[r].current_index /\ new.workflow = request[r].workflow
      /\ new.exists = request[r].exists
      /\ new.is_close <=> s \in Ended
      /\ new.state = IF s \in Ended THEN s ELSE "running"
  BY <1>1 DEF SetClosureStatus, CheckStateIsEnded, Typed, TypeOK, RequestRow
<1>3. /\ request' = [request EXCEPT ![r] = new] /\ request[r].exists
      /\ UNCHANGED <<task, handler, nextRequest>>
  BY <1>1 DEF EditRequest
<1>4. request'[r] = new /\ \A q \in RequestIds : q # r => request'[q] = request[q]
  BY <1>3 DEF Typed, TypeOK
<1> QED BY <1>2, <1>3, <1>4

(* A call that starts to answer an open task.                               *)
LEMMA TakesEffect ==
    ASSUME Sequential, Typed, NEW h \in Handlers, Takes(h)
    PROVE  /\ UNCHANGED <<request, task, nextRequest>> /\ handler[h].pc = "idle"
           /\ handler'[h].pc = "update" /\ handler'[h].todo = {}
           /\ handler'[h].task \in TaskIds /\ task[handler'[h].task].state \in Open
           /\ handler'[h].request = task[handler'[h].task].request
           /\ handler'[h].verdict \in Verdicts
           /\ \/ handler'[h].nexts \in NextsChoices
              \/ handler'[h].nexts = task[handler'[h].task].nexts
<1>1. PICK u \in Users, t \in TaskIds, v \in Verdicts :
         \E n \in NextsChoices \cup {task[t].nexts} : SubmitTask(h, u, t, v, n)
  BY DEF Takes
<1>2. PICK n \in NextsChoices \cup {task[t].nexts} : SubmitTask(h, u, t, v, n)
  BY <1>1
<1>3. PICK row : row = [Idle EXCEPT !.pc = "update", !.user = u, !.task = t,
                                    !.request = task[t].request, !.name = task[t].name,
                                    !.verdict = v, !.nexts = n]
  OBVIOUS
<1>4. /\ row.pc = "update" /\ row.task = t /\ row.request = task[t].request /\ row.todo = {}
      /\ row.verdict = v /\ row.nexts = n
  BY <1>3, IdleType DEF HandlerRow
<1>5. task[t].state \in Open
  BY <1>2 DEF SubmitTask, Sequential, CheckStateIsEnded, Typed, TypeOK, TaskRow, Exists
<1>6. /\ UNCHANGED <<request, task, nextRequest>> /\ handler[h].pc = "idle"
      /\ handler' = [handler EXCEPT ![h] = row]
  BY <1>2, <1>3 DEF SubmitTask, Accept
<1>7. handler'[h] = row
  BY <1>6, Written
<1> QED BY <1>4, <1>5, <1>6, <1>7

(* A call that reads on, or answers.                                        *)
LEMMA ReadsOnEffect ==
    ASSUME Typed, Turn, NEW h \in Handlers, ReadsOn(h)
    PROVE  LET me == handler[h] IN
           /\ UNCHANGED <<request, task, nextRequest>>
           /\ Answering(me) /\ me.todo = {} /\ handler'[h].todo = {}
           /\ \/ /\ handler'[h].pc = "idle"
                 /\ request[me.request].exists => OpenTasks(me.request) # {}
              \/ /\ handler'[h].request = me.request /\ handler'[h].task = me.task
                 /\ \/ me.pc = "reread" /\ handler'[h].pc = "request"
                    \/ /\ me.pc = "request" /\ handler'[h].pc = "others"
                       /\ handler'[h].ended <=> request[me.request].state \in Ended
                    \/ /\ me.pc = "others" /\ handler'[h].pc = "advance"
                       /\ handler'[h].ended = me.ended
<1>1. PICK me : me = handler[h]
  OBVIOUS
<1>2. PICK reread : reread = [me EXCEPT !.pc = "request", !.verdict = task[me.task].state,
                                        !.nexts = task[me.task].nexts]
  OBVIOUS
<1>3. PICK read : read = [me EXCEPT !.pc = "others", !.index = request[me.request].current_index,
                                    !.ended = CheckStateIsEnded(request[me.request].state)]
  OBVIOUS
<1>4. PICK checked : checked = [me EXCEPT !.pc = "advance"]
  OBVIOUS
<1>5. /\ me \in HandlerRow /\ me.pc \in {"reread", "request", "others"} /\ me.todo = {}
      /\ UNCHANGED <<request, task, nextRequest>>
  BY <1>1 DEF ReadsOn, RereadTask, ReadRequest, CheckOthers, Typed, TypeOK, Turn, Knows
<1>6. \/ me.pc = "reread" /\ handler'[h] \in {Idle, reread}
      \/ me.pc = "request" /\ handler'[h] \in {Idle, read}
      \/ me.pc = "others" /\ handler'[h] \in {Idle, checked}
  BY <1>1, <1>2, <1>3, <1>4 DEF ReadsOn, RereadTask, ReadRequest, CheckOthers, Typed, TypeOK
<1>7. /\ reread.pc = "request" /\ reread.request = me.request /\ reread.task = me.task
      /\ reread.todo = {}
      /\ read.pc = "others" /\ read.request = me.request /\ read.task = me.task /\ read.todo = {}
      /\ read.ended <=> request[me.request].state \in Ended
      /\ checked.pc = "advance" /\ checked.request = me.request /\ checked.task = me.task
      /\ checked.todo = {} /\ checked.ended = me.ended
  BY <1>2, <1>3, <1>4, <1>5 DEF HandlerRow, CheckStateIsEnded
<1>8. Answering(me)
  BY <1>5 DEF Answering
<1>9. ASSUME handler'[h] = Idle, request[me.request].exists PROVE OpenTasks(me.request) # {}
  <2>1. CASE me.pc = "reread"
    <3>1. me.task \in TaskIds /\ KnowsTask(me) /\ task[me.task] \in TaskRow
      BY <1>1, <2>1 DEF Typed, TypeOK, References, RefersBelow, Turn, Knows
    <3>2. task[me.task].state \notin Ended
      BY <1>1, <1>2, <1>5, <1>7, <1>9, <2>1, IdleType
         DEF ReadsOn, RereadTask, ReadRequest, CheckOthers, CheckStateIsEnded, Typed, TypeOK
    <3>3. me.task \in OpenTasks(me.request)
      BY <3>1, <3>2 DEF KnowsTask, OpenTasks, TasksOf, Exists, TaskRow, Open
    <3> QED BY <3>3
  <2>2. CASE me.pc = "request"
    BY <1>1, <1>3, <1>5, <1>7, <1>9, <2>2, IdleType
       DEF ReadsOn, RereadTask, ReadRequest, CheckOthers, Typed, TypeOK
  <2>3. CASE me.pc = "others"
    BY <1>1, <1>4, <1>5, <1>7, <1>9, <2>3, IdleType
       DEF ReadsOn, RereadTask, ReadRequest, CheckOthers, Typed, TypeOK
  <2> QED BY <1>5, <2>1, <2>2, <2>3
<1>10. handler'[h].pc = "idle" => handler'[h] = Idle
  BY <1>6, <1>7
<1> QED BY <1>1, <1>5, <1>6, <1>7, <1>8, <1>9, <1>10, IdleType

(* A call that opens a request.                                             *)
LEMMA OpensEffect ==
    ASSUME Typed, NEW h \in Handlers, Opens(h)
    PROVE  /\ \A y \in handler'[h].todo : FirstItem(y)
           /\ handler[h].pc = "idle" /\ handler'[h].pc \in {"idle", "create"}
           /\ OnlyOpens /\ Starts(h) /\ task' = task /\ nextRequest' = nextRequest + 1
BY CreateRequestEffect DEF Opens, CreateRequest, Accept

LEMMA NextStanding ==
    ASSUME Sequential, BeforeFirst, Settled, Single, [Next]_vars
    PROVE  Standing'
<1>1. CASE UNCHANGED vars
  BY <1>1, QuietStanding DEF vars, Settled
<1>2. ASSUME NEW r \in RequestIds, NEW s \in Edits, EditRequest(r, s) PROVE Standing'
  BY <1>2, EditEffect, QuietStanding DEF Settled
<1>3. ASSUME NEW h \in Handlers, Opens(h) PROVE Standing'
  BY <1>3, CreateRequestStanding DEF Opens, Settled, Sequential
<1>4. ASSUME NEW h \in Handlers, Takes(h) PROVE Standing'
  BY <1>4, SubmitTaskStanding DEF Takes, Settled
<1>5. ASSUME NEW h \in Handlers, ReadsOn(h) PROVE Standing'
  BY <1>5, RereadTaskStanding, ReadRequestStanding, CheckOthersStanding
     DEF ReadsOn, Settled, Sequential
<1>6. ASSUME NEW h \in Handlers, NEW new, AnswerEffect(h, new) PROVE Standing'
  BY <1>6, UpdateTaskStanding DEF Settled, Sequential
<1>7. ASSUME NEW h \in Handlers, NEW me, NEW i, NEW new, NEW T, MoveEffect(h, me, i, new, T)
      PROVE  Standing'
  BY <1>7, AdvanceStanding DEF Settled
<1>8. ASSUME NEW h \in Handlers, NEW x \in handler[h].todo, ItemEffect(h, x) PROVE Standing'
  BY <1>8, ItemStanding DEF Settled, Sequential
<1> QED BY <1>1, <1>2, <1>3, <1>4, <1>5, <1>6, <1>7, <1>8, StepKinds DEF Settled
(* Whatever ended a task is a verdict that a user may give.                 *)
Given ==
    /\ \A t \in TaskIds : task[t].state \in Ended => task[t].state \in Verdicts
    /\ \A h \in Handlers : handler[h].pc = "update" /\ handler[h].verdict \in Ended
                           => handler[h].verdict \in Verdicts

LEMMA ItemAddsOpen ==
    ASSUME Typed, Placed, NEW h \in Handlers, NEW x, ItemEffect(h, x)
    PROVE  \A t \in TaskIds : \/ task'[t] = task[t]
                              \/ /\ task[t].state = "none" /\ task'[t].state = "pending"
                                 /\ task'[t].request = x.request /\ task'[t].name = ItemName(x)
                                 /\ task'[t].nexts = AllNexts
                                 /\ x.kind \in {"insert", "verification"}
<1> SUFFICES ASSUME NEW t \in TaskIds, task'[t] # task[t]
             PROVE  /\ task[t].state = "none" /\ task'[t].state = "pending"
                    /\ task'[t].request = x.request /\ task'[t].name = ItemName(x)
                    /\ task'[t].nexts = AllNexts
                    /\ x.kind \in {"insert", "verification"}
  OBVIOUS
<1>1. task' # task
  OBVIOUS
<1>2. t = nextTask
  BY <1>1 DEF ItemEffect
<1>3. task[t].state = "none"
  BY <1>2 DEF Placed, PlacedRows, Exists, TaskIds
<1> QED BY <1>1, <1>2, <1>3 DEF ItemEffect

LEMMA NextGiven ==
    ASSUME Sequential, Settled, Given, [Next]_vars
    PROVE  Given'
<1>0. Typed /\ Turn /\ Placed /\ InTurns
  BY DEF Settled, Sequential
<1>1. CASE UNCHANGED vars
  BY <1>1 DEF vars, Given
<1>2. ASSUME NEW r \in RequestIds, NEW s \in Edits, EditRequest(r, s) PROVE Given'
  BY <1>2 DEF EditRequest, Given
<1>3. ASSUME NEW h \in Handlers, Opens(h) PROVE Given'
  BY <1>0, <1>3, OpensEffect DEF Given, InTurns
<1>4. ASSUME NEW h \in Handlers, Takes(h) PROVE Given'
  BY <1>0, <1>4, TakesEffect DEF Given, InTurns
<1>5. ASSUME NEW h \in Handlers, ReadsOn(h) PROVE Given'
  <2>1. task' = task /\ handler'[h].pc # "update"
    BY <1>0, <1>5, ReadsOnEffect
  <2> QED BY <1>0, <2>1 DEF Given, InTurns
<1>6. ASSUME NEW h \in Handlers, NEW new, AnswerEffect(h, new) PROVE Given'
  <2>1. PICK k, v : k = handler[h].task /\ v = handler[h].verdict
    OBVIOUS
  <2>2. /\ handler[h].pc = "update" /\ handler'[h].pc = "reread"
        /\ task'[k] = new /\ \A t \in TaskIds : t # k => task'[t] = task[t]
        /\ new.state = (IF v \in Ended THEN v ELSE "running")
    BY <1>6, <2>1 DEF AnswerEffect
  <2>3. v \in Ended => v \in Verdicts
    BY <2>1, <2>2 DEF Given
  <2>4. \A t \in TaskIds : task'[t].state \in Ended => task'[t].state \in Verdicts
    BY <2>2, <2>3 DEF Given, Ended
  <2> QED BY <1>0, <2>2, <2>4 DEF Given, InTurns
<1>7. ASSUME NEW h \in Handlers, NEW me, NEW i, NEW new, NEW T, MoveEffect(h, me, i, new, T)
      PROVE  Given'
  BY <1>0, <1>7 DEF MoveEffect, Given, InTurns
<1>8. ASSUME NEW h \in Handlers, NEW x \in handler[h].todo, ItemEffect(h, x) PROVE Given'
  <2>1. handler'[h].pc \in {"idle", "create"}
    BY <1>8 DEF ItemEffect
  <2>2. \A t \in TaskIds : task'[t].state \in Ended => task'[t] = task[t]
    BY <1>0, <1>8, ItemAddsOpen DEF Ended
  <2> QED BY <1>0, <2>1, <2>2 DEF Given, InTurns
<1> QED BY <1>0, <1>1, <1>2, <1>3, <1>4, <1>5, <1>6, <1>7, <1>8, StepKinds

(* What holds throughout when calls take turns.                             *)
Steady == Settled /\ Single /\ Given

LEMMA InitSteady == Init => Steady
<1> SUFFICES ASSUME Init PROVE Steady
  OBVIOUS
<1>1. \A h \in Handlers : handler[h] = Idle
  BY DEF Init
<1>2. \A t \in TaskIds : task[t].state = "none"
  BY NoTaskType DEF Init
<1>3. Standing
  BY <1>1, <1>2, IdleType DEF Standing, StandingRows, StandingCall, Answering, Open
<1>4. Single
  BY <1>1, <1>2, IdleType DEF Single, Sparing, NoDuplicateTask, Exists
<1>5. Given
  BY <1>1, <1>2, IdleType DEF Given, Ended
<1> QED BY <1>3, <1>4, <1>5, InitTyped, InitTurn, InitPlaced DEF Steady, Settled

LEMMA NextSteady ==
    ASSUME Sequential, BeforeFirst, Steady, [Next]_vars
    PROVE  Steady'
<1>1. Typed' /\ Turn' /\ Placed' /\ Single'
  BY NextTyped, NextTurn, NextPlaced, NextSingle DEF Steady, Settled, Sequential
<1>2. Standing' /\ Given'
  BY NextStanding, NextGiven DEF Steady
<1> QED BY <1>1, <1>2 DEF Steady, Settled

(* A task that ended stays as it is: only open tasks are answered.          *)
LEMMA EndedStays ==
    ASSUME Sequential, Settled, [Next]_vars, NEW t \in TaskIds, task[t].state \in Ended
    PROVE  task'[t] = task[t]
<1>0. Typed /\ Turn /\ Placed /\ Standing
  BY DEF Settled
<1>1. ASSUME NEW h \in Handlers, NEW new, AnswerEffect(h, new) PROVE task'[t] = task[t]
  <2>1. PICK me : me = handler[h]
    OBVIOUS
  <2>2. task[me.task].state \in Open
    BY <1>0, <1>1, <2>1 DEF AnswerEffect, Standing, StandingCall
  <2> QED BY <1>1, <2>1, <2>2 DEF AnswerEffect, Open, Ended
<1>2. ASSUME NEW h \in Handlers, NEW x \in handler[h].todo, ItemEffect(h, x)
      PROVE  task'[t] = task[t]
  BY <1>0, <1>2, ItemAddsOpen DEF Ended
<1> QED BY <1>0, <1>1, <1>2, StepKinds, OpensEffect, TakesEffect, ReadsOnEffect
        DEF vars, EditRequest, MoveEffect
----------------------------------------------------------------------------
(* What a step chose is what comes next.                                    *)

(* No verdict gives a step's tasks out again: none is canceled, no mandatory *)
(* task of a third step is dismissed, no optional one past the first refused. *)
NoneGivenAgain ==
    /\ "canceled" \notin Verdicts
    /\ "dismiss" \in Verdicts => \A s \in Steps : Step[s].index <= 2
    /\ "refused" \in Verdicts => \A s \in Steps : Step[s].optionnal => Step[s].index = 1

Chosen(r, n) ==
    \E s \in TasksOf(r) :
       /\ task[s].state = "completed" /\ task[s].name \in Steps
       /\ Step[task[s].name].index = Step[n].index - 1
       /\ task[s].nexts = AllNexts \/ Step[n].wraps \in task[s].nexts
ChosenItem(x) ==
    x.kind # "verification" /\ Step[x.name].index > 1 /\ (x.kind = "prepare" => ShouldCreate(x))
       => Chosen(x.request, x.name)
Honoured == NextsHonoured /\ \A h \in Handlers : \A x \in handler[h].todo : ChosenItem(x)

LEMMA ChosenStays ==
    ASSUME Sequential, Settled, [Next]_vars, NEW r, NEW n, Chosen(r, n)
    PROVE  Chosen(r, n)'
<1>1. PICK s \in TasksOf(r) :
         /\ task[s].state = "completed" /\ task[s].name \in Steps
         /\ Step[task[s].name].index = Step[n].index - 1
         /\ task[s].nexts = AllNexts \/ Step[n].wraps \in task[s].nexts
  BY DEF Chosen
<1>2. s \in TaskIds /\ task[s].request = r
  BY DEF TasksOf
<1>3. task'[s] = task[s]
  BY <1>1, <1>2, EndedStays DEF Ended
<1>4. s \in TasksOf(r)'
  BY <1>1, <1>2, <1>3 DEF TasksOf, Exists
<1> QED BY <1>1, <1>3, <1>4 DEF Chosen

LEMMA StepIndex ==
    ASSUME NEW s \in Steps
    PROVE  Step[s].index \in Nat /\ Step[s].index >= 1
BY ConfigAssumption DEF StepRow

(* The tasks, when no task of a step is added.                              *)
LEMMA HonouredTasks ==
    ASSUME Sequential, Settled, Honoured, [Next]_vars,
           \A t \in TaskIds : Exists(t)' => /\ Exists(t) /\ task'[t].request = task[t].request
                                            /\ task'[t].name = task[t].name
    PROVE  NextsHonoured'
<1>1. ASSUME NEW t \in TaskIds, Exists(t)', task'[t].name \in Steps,
             Step[task'[t].name].index > 1
      PROVE  Chosen(task[t].request, task[t].name)'
  <2>1. PICK r, n : r = task[t].request /\ n = task[t].name
    OBVIOUS
  <2>2. Chosen(r, n)
    BY <1>1, <2>1 DEF Honoured, NextsHonoured, Chosen
  <2>3. Chosen(r, n)'
    BY <2>2, ChosenStays
  <2> QED BY <1>1, <2>1, <2>3 DEF Chosen, TasksOf, Exists
<1> QED BY <1>1 DEF NextsHonoured, Chosen

(* A handler with nothing new to create.                                    *)
LEMMA HonouredItems ==
    ASSUME Sequential, Settled, Honoured, [Next]_vars, NEW h \in Handlers,
           \A x \in handler'[h].todo :
              x \in handler[h].todo \/ x.kind = "verification" \/ Step[x.name].index = 1
    PROVE  \A g \in Handlers : \A x \in handler'[g].todo : ChosenItem(x)'
<1> SUFFICES ASSUME NEW x \in handler'[h].todo PROVE ChosenItem(x)'
  BY DEF Sequential, InTurns
<1>1. CASE x.kind = "verification" \/ Step[x.name].index = 1
  BY <1>1 DEF ChosenItem
<1>2. CASE x \in handler[h].todo
  <2>1. ChosenItem(x)
    BY <1>2 DEF Honoured
  <2>2. ASSUME Chosen(x.request, x.name) PROVE Chosen(x.request, x.name)'
    <3>1. PICK r, n : r = x.request /\ n = x.name
      OBVIOUS
    <3>2. Chosen(r, n)'
      BY <2>2, <3>1, ChosenStays
    <3> QED BY <3>1, <3>2
  <2> QED BY <2>1, <2>2 DEF ChosenItem, ShouldCreate, IsMeta
<1> QED BY <1>1, <1>2

(* The move goes to the next step of a completed task, or gives nothing out. *)
LEMMA MoveChosen ==
    ASSUME Sequential, NoneGivenAgain, Steady,
           NEW h \in Handlers, NEW me, NEW i, NEW new, NEW T, MoveEffect(h, me, i, new, T),
           NEW y \in T
    PROVE  ChosenItem(y)
<1>1. PICK r, old : r = me.request /\ old = request[r]
  OBVIOUS
<1>2. PICK S : S = StepsAt(old.workflow, i)
  OBVIOUS
<1>3. /\ me = handler[h] /\ me \in HandlerRow /\ old \in RequestRow
      /\ me.index = old.current_index /\ i = Target(me)
      /\ new = MovedRequest(me, old) /\ T = WorkAfter(me, old)
      /\ me.task \in TaskIds /\ me.task \in TasksOf(r)
      /\ task[me.task].name = me.name /\ task[me.task].state = me.verdict
      /\ me.verdict \in Ended /\ me.pc = "advance"
  BY <1>1 DEF MoveEffect
<1>4. me.nexts = task[me.task].nexts /\ InPlace(r, me.name) /\ me.name \in Names
  BY <1>1, <1>3 DEF Steady, Settled, Standing, StandingCall, Answering, HandlerRow
<1>5. me.verdict \in Verdicts
  BY <1>3 DEF Steady, Given
<1> SUFFICES ASSUME y.kind # "verification", Step[y.name].index > 1, ShouldCreate(y)
             PROVE  Chosen(r, y.name)
  <2>1. y.request = r /\ y.kind \in {"prepare", "verification"}
    BY <1>1, <1>3, StepWorkItems, VerificationWorkItems DEF WorkAfter
  <2> QED BY <2>1 DEF ChosenItem
<1>6. ~me.ended /\ ~Refuses(me) /\ ~SomeBefore(S)
  <2>1. ~me.ended /\ ~Refuses(me)
    BY <1>3, MoveCases DEF HandlerRow
  <2>2. SomeBefore(S) => T \subseteq VerificationWork(S, me.request, me.user, 0)
    BY <1>2, <1>3, <2>1, MoveCases
  <2> QED BY <2>1, <2>2, VerificationWorkItems
<1>7. T = StepWork(S, me.request, me.nexts, "task", 0)
  BY <1>2, <1>3, <1>6, MoveCases
<1>8. y.name \in S /\ y.nexts = me.nexts /\ y.from = "task"
  BY <1>7, StepWorkItems
<1>9. y.name \in Steps /\ 10 * Step[y.name].index = i
  BY <1>2, <1>8 DEF StepsAt
<1>10. me.name \in Steps
  <2>1. CASE me.name \notin Steps
    <3>1. old.current_index \in {-10, 0, 9} /\ SomeBefore(StepsAt(old.workflow, 10))
      BY <1>1, <1>4, <2>1 DEF InPlace
    <3>2. y.kind = "verification"
      BY <1>3, <3>1, VerificationMoves
    <3> QED BY <3>2
  <2> QED BY <2>1
<1>11. PICK k : k = Step[me.name].index
  OBVIOUS
<1>12. k \in Nat /\ k >= 1 /\ me.index = 10 * k
  BY <1>1, <1>3, <1>4, <1>10, <1>11, StepIndex DEF InPlace
<1>13. PICK m : m = Step[y.name].index
  OBVIOUS
<1>14. m \in Nat /\ m > 1 /\ 10 * m = i
  BY <1>9, <1>13, StepFacts
<1>15. me.verdict = "completed"
  <2>1. me.verdict # "canceled"
    BY <1>5 DEF NoneGivenAgain
  <2>2. me.verdict # "dismiss"
    <3>1. CASE me.verdict = "dismiss"
      <4>1. i = 10 * (k - 1)
        BY <1>3, <1>12, <3>1, StepTarget
      <4>2. k <= 2
        BY <1>5, <1>10, <1>11, <3>1 DEF NoneGivenAgain
      <4> QED BY <1>12, <1>14, <4>1, <4>2
    <3> QED BY <3>1
  <2>3. me.verdict # "refused"
    <3>1. CASE me.verdict = "refused"
      <4>1. i = 10 * k
        BY <1>3, <1>12, <3>1, StepTarget
      <4>2. IsOptionnal(me.name)
        BY <1>6, <3>1, RefusesWhen
      <4>3. k = 1
        BY <1>5, <1>10, <1>11, <3>1, <4>2 DEF NoneGivenAgain, IsOptionnal
      <4> QED BY <1>14, <4>1, <4>3
    <3> QED BY <3>1
  <2> QED BY <1>3, <2>1, <2>2, <2>3 DEF Ended
<1>16. k = m - 1
  <2>1. i = 10 * (k + 1)
    BY <1>3, <1>12, <1>15, StepTarget
  <2> QED BY <1>12, <1>14, <2>1
<1>17. me.nexts = AllNexts \/ Step[y.name].wraps \in me.nexts
  BY <1>8 DEF ShouldCreate, IsMeta
<1> QED BY <1>3, <1>4, <1>10, <1>11, <1>13, <1>15, <1>16, <1>17 DEF Chosen
LEMMA NextHonoured ==
    ASSUME Sequential, BeforeFirst, NoneGivenAgain, Steady, Honoured, [Next]_vars
    PROVE  Honoured'
<1>0. Sequential /\ Settled /\ Typed /\ Turn /\ Placed
  BY DEF Steady, Settled
<1>1. ASSUME NEW h \in Handlers, handler'[h].todo = {}, task' = task PROVE Honoured'
  BY <1>0, <1>1, HonouredTasks, HonouredItems DEF Honoured, Exists
<1>2. CASE UNCHANGED vars
  <2>1. ASSUME NEW h \in Handlers PROVE Honoured'
    BY <1>0, <1>2, HonouredTasks, HonouredItems DEF Honoured, Exists, vars
  <2>2. ASSUME Handlers = {} PROVE Honoured'
    BY <1>0, <1>2, <2>2, HonouredTasks DEF Honoured, Exists, vars
  <2> QED BY <2>1, <2>2
<1>3. ASSUME NEW r \in RequestIds, NEW s \in Edits, EditRequest(r, s) PROVE Honoured'
  <2>1. UNCHANGED <<task, handler>>
    BY <1>3 DEF EditRequest
  <2>2. ASSUME NEW h \in Handlers PROVE Honoured'
    BY <1>0, <2>1, HonouredTasks, HonouredItems DEF Honoured, Exists
  <2>3. ASSUME Handlers = {} PROVE Honoured'
    BY <1>0, <2>1, <2>3, HonouredTasks DEF Honoured, Exists
  <2> QED BY <2>2, <2>3
<1>4. ASSUME NEW h \in Handlers, Opens(h) PROVE Honoured'
  <2>1. task' = task /\ \A y \in handler'[h].todo : FirstItem(y)
    BY <1>0, <1>4, OpensEffect
  <2>2. \A y \in handler'[h].todo : y.kind = "verification" \/ Step[y.name].index = 1
    BY <2>1 DEF FirstItem
  <2> QED BY <1>0, <2>1, <2>2, HonouredTasks, HonouredItems DEF Honoured, Exists
<1>5. ASSUME NEW h \in Handlers, Takes(h) \/ ReadsOn(h) PROVE Honoured'
  BY <1>0, <1>1, <1>5, TakesEffect, ReadsOnEffect
<1>6. ASSUME NEW h \in Handlers, NEW new, AnswerEffect(h, new) PROVE Honoured'
  <2>1. PICK k : k = handler[h].task
    OBVIOUS
  <2>2. /\ k \in TaskIds /\ Exists(k) /\ handler'[h].todo = {}
        /\ task'[k].request = task[k].request /\ task'[k].name = task[k].name
        /\ \A t \in TaskIds : t # k => task'[t] = task[t]
    BY <1>6, <2>1 DEF AnswerEffect
  <2>3. \A t \in TaskIds : Exists(t)' => /\ Exists(t) /\ task'[t].request = task[t].request
                                         /\ task'[t].name = task[t].name
    BY <2>2 DEF Exists
  <2> QED BY <1>0, <2>2, <2>3, HonouredTasks, HonouredItems DEF Honoured
<1>7. ASSUME NEW h \in Handlers, NEW me, NEW i, NEW new, NEW T, MoveEffect(h, me, i, new, T)
      PROVE  Honoured'
  <2>1. task' = task /\ handler'[h].todo = T
    BY <1>7 DEF MoveEffect
  <2>2. ASSUME NEW y \in T PROVE ChosenItem(y)'
    <3>1. ChosenItem(y)
      BY <1>7, <2>2, MoveChosen
    <3> QED BY <2>1, <3>1 DEF ChosenItem, ShouldCreate, IsMeta, Chosen, TasksOf, Exists
  <2>3. NextsHonoured'
    BY <1>0, <2>1, HonouredTasks DEF Exists
  <2> QED BY <1>0, <2>1, <2>2, <2>3 DEF Honoured, Sequential, InTurns
<1>8. ASSUME NEW h \in Handlers, NEW x \in handler[h].todo, x \in Due(h), ItemEffect(h, x)
      PROVE  Honoured'
  <2>1. PICK q, n : q = x.request /\ n = x.name
    OBVIOUS
  <2>2. ChosenItem(x)
    BY DEF Honoured
  <2>3. Chosen(q, n) => Chosen(q, n)'
    BY <1>0, ChosenStays
  <2>4. ASSUME NEW y \in handler'[h].todo PROVE ChosenItem(y)'
    <3>1. CASE y \in handler[h].todo
      <4>1. PICK p, m : p = y.request /\ m = y.name
        OBVIOUS
      <4>2. Chosen(p, m) => Chosen(p, m)'
        BY <1>0, ChosenStays
      <4>3. ChosenItem(y)
        BY <3>1 DEF Honoured
      <4> QED BY <4>1, <4>2, <4>3 DEF ChosenItem, ShouldCreate, IsMeta
    <3>2. CASE FirstItem(y)
      BY <3>2 DEF FirstItem, ChosenItem
    <3>3. CASE Follows(y, x, handler[h].user)
      <4>1. /\ y.request = q /\ y.name = n /\ y.kind \in {"task", "insert"}
            /\ x.kind # "verification" /\ (x.kind = "prepare" => ShouldCreate(x))
        BY <2>1, <3>3 DEF Follows
      <4>2. Step[n].index > 1 => Chosen(q, n)'
        BY <2>1, <2>2, <2>3, <4>1 DEF ChosenItem
      <4> QED BY <4>1, <4>2 DEF ChosenItem
    <3> QED BY <1>8, <3>1, <3>2, <3>3 DEF ItemEffect
  <2>5. ASSUME NEW t \in TaskIds, Exists(t)', task'[t].name \in Steps, Step[task'[t].name].index > 1
        PROVE  Chosen(task[t].request, task[t].name)'
    <3>1. CASE task'[t] = task[t]
      <4>1. PICK p, m : p = task[t].request /\ m = task[t].name
        OBVIOUS
      <4>2. Chosen(p, m)
        BY <2>5, <3>1, <4>1 DEF Honoured, NextsHonoured, Chosen, Exists
      <4>3. Chosen(p, m)'
        BY <1>0, <4>2, ChosenStays
      <4> QED BY <3>1, <4>1, <4>3 DEF Chosen, TasksOf, Exists
    <3>2. CASE task'[t] # task[t]
      <4>1. /\ task'[t].request = q /\ task'[t].name = ItemName(x)
            /\ x.kind \in {"insert", "verification"}
        BY <1>0, <1>8, <2>1, <3>2, ItemAddsOpen
      <4>2. x.kind = "insert" /\ task'[t].name = n
        BY <2>1, <2>5, <4>1, ConfigAssumption DEF ItemName
      <4>3. Chosen(q, n)'
        BY <2>1, <2>2, <2>3, <2>5, <4>2 DEF ChosenItem
      <4> QED BY <4>1, <4>2, <4>3 DEF Chosen, TasksOf, Exists
    <3> QED BY <3>1, <3>2
  <2>6. NextsHonoured'
    BY <2>5 DEF NextsHonoured, Chosen
  <2> QED BY <1>0, <2>4, <2>6 DEF Honoured, Sequential, InTurns
<1> QED BY <1>0, <1>2, <1>3, <1>4, <1>5, <1>6, <1>7, <1>8, StepKinds

(* NextsHonoured: when calls take turns, no task of a step exists that no   *)
(* completed task of the step before has asked for.                         *)
THEOREM NextsCorrect ==
    ASSUME Sequential, BeforeFirst, NoneGivenAgain
    PROVE  Spec => []NextsHonoured
<1>1. Init => Steady /\ Honoured
  BY InitSteady, IdleType, NoTaskType DEF Init, Honoured, NextsHonoured, Exists
<1>2. Steady /\ Honoured /\ [Next]_vars => (Steady /\ Honoured)'
  BY NextSteady, NextHonoured
<1>3. Honoured => NextsHonoured
  BY DEF Honoured
<1> QED BY <1>1, <1>2, <1>3, PTL DEF Spec

----------------------------------------------------------------------------
(***************************************************************************)
(* How requests end when calls take turns: as their users answered, with   *)
(* nobody left with a mandatory step; an ended request comes back only by  *)
(* a dismissal, and an open one is never left behind.                      *)
(***************************************************************************)

(* A workflow's steps are numbered without a gap.                           *)
Contiguous == \A s \in Steps : \A k \in 1 .. Step[s].index : StepsAt(Step[s].workflow, 10 * k) # {}
NoneBefore == \A s \in Steps : ~Step[s].before

LEMMA NothingAbove ==
    ASSUME Contiguous, NEW w, NEW m \in Nat, m >= 1, StepsAt(w, 10 * m) = {},
           NEW s \in Steps, Step[s].workflow = w
    PROVE  Step[s].index < m
<1>1. Step[s].index \in Nat
  BY StepIndex
<1>2. Step[s].index >= m => m \in 1 .. Step[s].index
  BY <1>1
<1> QED BY <1>1, <1>2 DEF Contiguous

(* When the place that a verdict moves to is the last, for the steps.       *)
Final(w, i) == AllOptionnal(StepsAt(w, i)) /\ StepsAt(w, i + 10) = {}

LEMMA NoneBeforeFacts ==
    ASSUME NoneBefore
    PROVE  BeforeFirst /\ \A S \in SUBSET Steps : ~SomeBefore(S)
BY DEF NoneBefore, BeforeFirst, SomeBefore

----------------------------------------------------------------------------
(* A request ends as its users answered.                                    *)

(* Nobody writes by hand that a request is refused or completed, and no     *)
(* task that precedes the first step is canceled.                           *)
EndsByAnswers ==
    /\ Edits \cap {"refused", "completed"} = {}
    /\ "canceled" \in Verdicts => NoneBefore

DoneAt(r, k) ==
    \E t \in TasksOf(r) : /\ task[t].state = "completed" /\ task[t].name \in Steps
                          /\ Step[task[t].name].index = k
RefusedBySome(r) ==
    \E t \in TasksOf(r) : task[t].state \in {"refused", "dismiss"} /\ ~IsOptionnal(task[t].name)
CompletedByAll(r, w) ==
    \A s \in Steps : Step[s].workflow = w /\ ~Step[s].optionnal => DoneAt(r, Step[s].index)
LevelsDone(r, i) == \A k \in Nat : k >= 1 /\ 10 * k < i => DoneAt(r, k)

(* The trace of one request, with all the steps it has left behind.         *)
Traced(r) ==
    /\ request[r].state = "refused" => RefusedBySome(r)
    /\ request[r].state = "completed" => CompletedByAll(r, request[r].workflow)
    /\ LevelsDone(r, request[r].current_index)

LEMMA EndedTaskStays ==
    ASSUME Sequential, Settled, [Next]_vars, NEW r, NEW t \in TasksOf(r), task[t].state \in Ended
    PROVE  t \in TasksOf(r)' /\ task'[t] = task[t]
<1>1. t \in TaskIds /\ task[t].request = r
  BY DEF TasksOf
<1>2. task'[t] = task[t]
  BY <1>1, EndedStays
<1> QED BY <1>1, <1>2 DEF TasksOf, Exists

LEMMA DoneStays ==
    ASSUME Sequential, Settled, [Next]_vars, NEW r, NEW k, DoneAt(r, k)
    PROVE  DoneAt(r, k)'
<1>1. PICK t \in TasksOf(r) : /\ task[t].state = "completed" /\ task[t].name \in Steps
                              /\ Step[task[t].name].index = k
  BY DEF DoneAt
<1>2. t \in TasksOf(r)' /\ task'[t] = task[t]
  BY <1>1, EndedTaskStays DEF Ended
<1> QED BY <1>1, <1>2 DEF DoneAt

LEMMA RefusedStays ==
    ASSUME Sequential, Settled, [Next]_vars, NEW r, RefusedBySome(r)
    PROVE  RefusedBySome(r)'
<1>1. PICK t \in TasksOf(r) : task[t].state \in {"refused", "dismiss"} /\ ~IsOptionnal(task[t].name)
  BY DEF RefusedBySome
<1>2. t \in TasksOf(r)' /\ task'[t] = task[t]
  BY <1>1, EndedTaskStays DEF Ended
<1> QED BY <1>1, <1>2 DEF RefusedBySome

(* A request keeps its trace until it moves.                                *)
LEMMA TracedStays ==
    ASSUME Sequential, Settled, [Next]_vars, NEW r, Traced(r),
           request'[r].workflow = request[r].workflow,
           request'[r].current_index = request[r].current_index,
           request'[r].state \in {"refused", "completed"} => request'[r].state = request[r].state
    PROVE  Traced(r)'
<1>1. PICK w, i : w = request[r].workflow /\ i = request[r].current_index
  OBVIOUS
<1>2. \A k : DoneAt(r, k) => DoneAt(r, k)'
  BY DoneStays
<1>3. RefusedBySome(r) => RefusedBySome(r)'
  BY RefusedStays
<1>4. CompletedByAll(r, w) => CompletedByAll(r, w)'
  BY <1>2 DEF CompletedByAll
<1>5. LevelsDone(r, i) => LevelsDone(r, i)'
  BY <1>2 DEF LevelsDone
<1>6. request'[r].state = "completed" => CompletedByAll(r, request[r].workflow)'
  BY <1>1, <1>4 DEF Traced, CompletedByAll
<1>7. LevelsDone(r, request[r].current_index)'
  BY <1>1, <1>5 DEF Traced, LevelsDone
<1> QED BY <1>3, <1>6, <1>7 DEF Traced

(* What a verdict on a step makes of its request.                           *)
LEMMA StepMove ==
    ASSUME NEW h \in Handlers, NEW me, NEW i, NEW new, NEW T, Standing,
           MoveEffect(h, me, i, new, T), me.name \in Steps
    PROVE  LET r == me.request  w == request[r].workflow  k == Step[me.name].index IN
           /\ k \in Nat /\ k >= 1 /\ request[r].current_index = 10 * k
           /\ Step[me.name].workflow = w /\ me.name \in StepsAt(w, 10 * k)
           /\ i = IF me.verdict = "completed" THEN 10 * (k + 1)
                  ELSE IF me.verdict = "dismiss" THEN 10 * (k - 1)
                  ELSE 10 * k
           /\ Refuses(me) <=> me.verdict = "refused" /\ ~Step[me.name].optionnal
           /\ me.verdict = "completed" => DoneAt(r, k)
<1>1. PICK r, k : r = me.request /\ k = Step[me.name].index
  OBVIOUS
<1>2. /\ me = handler[h] /\ me.pc = "advance" /\ me.index = request[r].current_index /\ i = Target(me)
      /\ me.task \in TasksOf(r) /\ task[me.task].name = me.name /\ task[me.task].state = me.verdict
  BY <1>1 DEF MoveEffect
<1>3. InPlace(r, me.name)
  BY <1>1, <1>2 DEF Standing, StandingCall, Answering
<1>4. k \in Nat /\ k >= 1
  BY <1>1, StepIndex
<1>5. request[r].current_index = 10 * k /\ Step[me.name].workflow = request[r].workflow
  BY <1>1, <1>3 DEF InPlace
<1>6. me.name \in StepsAt(request[r].workflow, 10 * k)
  BY <1>1, <1>5 DEF StepsAt
<1>7. Refuses(me) <=> me.verdict = "refused" /\ ~Step[me.name].optionnal
  BY <1>2, <1>4, <1>5, RefusesWhen DEF IsOptionnal
<1>8. me.verdict = "completed" => DoneAt(r, k)
  BY <1>1, <1>2 DEF DoneAt
<1> QED BY <1>1, <1>2, <1>4, <1>5, <1>6, <1>7, <1>8, StepTarget

(* What a verdict on a verification makes of its request.                   *)
LEMMA VerificationMove ==
    ASSUME NEW h \in Handlers, NEW me, NEW i, NEW new, NEW T, Standing,
           MoveEffect(h, me, i, new, T), me.name \notin Steps
    PROVE  LET r == me.request  w == request[r].workflow IN
           /\ request[r].current_index \in {-10, 0, 9} /\ SomeBefore(StepsAt(w, 10))
           /\ me.verdict = "completed" => i \in {0, 10}
           /\ Refuses(me) <=> me.verdict \in {"refused", "dismiss"}
           /\ new.current_index \in {-10, 0, 9}
<1>1. PICK r, row : r = me.request /\ row = request[r]
  OBVIOUS
<1>2. /\ me = handler[h] /\ me.pc = "advance" /\ me.index = row.current_index /\ i = Target(me)
      /\ me \in HandlerRow /\ row \in RequestRow /\ new = MovedRequest(me, row)
  BY <1>1 DEF MoveEffect
<1>3. InPlace(r, me.name)
  BY <1>1, <1>2 DEF Standing, StandingCall, Answering
<1>4. row.current_index \in {-10, 0, 9} /\ SomeBefore(StepsAt(row.workflow, 10))
  BY <1>1, <1>3 DEF InPlace
<1>5. me.verdict = "completed" => i \in {0, 10}
  BY <1>2, <1>4, VerificationTarget
<1>6. Refuses(me) <=> me.verdict \in {"refused", "dismiss"}
  BY <1>2, <1>4, RefusesWhen DEF IsOptionnal
<1>7. new.current_index \in {-10, 0, 9}
  BY <1>2, <1>4, VerificationMoves
<1> QED BY <1>1, <1>4, <1>5, <1>6, <1>7
(* The moved request has its trace.                                         *)
LEMMA MoveTraced ==
    ASSUME Sequential, BeforeFirst, Contiguous, EndsByAnswers, Steady, [Next]_vars,
           NEW h \in Handlers, NEW me, NEW i, NEW new, NEW T, MoveEffect(h, me, i, new, T),
           Traced(me.request)
    PROVE  Traced(me.request)'
<1>1. PICK r, row : r = me.request /\ row = request[r]
  OBVIOUS
<1>2. PICK w, j : w = row.workflow /\ j = row.current_index
  OBVIOUS
<1>3. /\ me \in HandlerRow /\ row \in RequestRow /\ i = Target(me)
      /\ me.verdict \in Ended /\ me.task \in TaskIds /\ me.task \in TasksOf(r)
      /\ task[me.task].name = me.name /\ task[me.task].state = me.verdict
      /\ new = MovedRequest(me, row) /\ request'[r] = new /\ task' = task
  BY <1>1 DEF MoveEffect
<1>4. Standing /\ me.verdict \in Verdicts
  BY <1>3 DEF Steady, Settled, Given
<1>5. /\ new.workflow = w
      /\ new.state = IF Refuses(me) THEN "refused" ELSE IF Final(w, i) THEN "completed" ELSE "running"
      /\ new.current_index \in {-10, j, i, i - 1}
      /\ me.ended => new.current_index = -10
      /\ ~me.ended /\ Refuses(me) => new.current_index = j
      /\ ~me.ended /\ ~Refuses(me) /\ SomeBefore(StepsAt(w, i)) => new.current_index = i - 1
      /\ ~me.ended /\ ~Refuses(me) /\ ~SomeBefore(StepsAt(w, i)) => new.current_index = i
  BY <1>2, <1>3, MoveCases DEF HandlerRow, Final
<1>6. LevelsDone(r, j) /\ j \in Int
  BY <1>1, <1>2, <1>3 DEF Traced, RequestRow
<1>7. Refuses(me) => RefusedBySome(r)
  BY <1>3, RefusesWhen DEF RefusedBySome
<1>8. CASE me.name \in Steps
  <2>1. PICK k : k = Step[me.name].index
    OBVIOUS
  <2>2. /\ k \in Nat /\ k >= 1 /\ j = 10 * k /\ StepsAt(w, 10 * k) # {}
        /\ i = IF me.verdict = "completed" THEN 10 * (k + 1)
               ELSE IF me.verdict = "dismiss" THEN 10 * (k - 1)
               ELSE 10 * k
        /\ me.verdict = "completed" => DoneAt(r, k)
    <3>1. me.name \in StepsAt(w, 10 * k)
      BY <1>1, <1>2, <1>4, <1>8, <2>1, StepMove
    <3> QED BY <1>1, <1>2, <1>4, <1>8, <2>1, <3>1, StepMove
  <2>3. LevelsDone(r, i)
    <3> SUFFICES ASSUME NEW m \in Nat, m >= 1, 10 * m < i PROVE DoneAt(r, m)
      BY DEF LevelsDone
    <3>1. CASE 10 * m < j
      BY <1>6, <3>1 DEF LevelsDone
    <3>2. CASE ~(10 * m < j)
      <4>1. me.verdict = "completed" /\ m = k
        BY <2>2, <3>2
      <4> QED BY <2>2, <4>1
    <3> QED BY <3>1, <3>2
  <2>4. LevelsDone(r, new.current_index)
    <3>1. LevelsDone(r, -10)
      BY DEF LevelsDone
    <3>2. i \in Int /\ LevelsDone(r, i - 1)
      BY <2>2, <2>3 DEF LevelsDone
    <3> QED BY <1>5, <1>6, <2>3, <3>1, <3>2
  <2>5. ASSUME new.state = "completed" PROVE CompletedByAll(r, w)
    <3>1. Final(w, i)
      BY <1>5, <2>5
    <3>2. PICK m \in Nat : m >= 1 /\ i = 10 * m
      <4>1. me.verdict # "dismiss"
        <5>1. me.verdict = "dismiss" => i + 10 = 10 * k
          BY <2>2
        <5> QED BY <2>2, <3>1, <5>1 DEF Final
      <4>2. CASE me.verdict = "completed"
        <5>1. i = 10 * (k + 1) /\ k + 1 \in Nat /\ k + 1 >= 1
          BY <2>2, <4>2
        <5> QED BY <5>1
      <4>3. CASE me.verdict # "completed"
        <5>1. i = 10 * k
          BY <2>2, <4>1, <4>3
        <5> QED BY <2>2, <5>1
      <4> QED BY <4>2, <4>3
    <3>3. StepsAt(w, 10 * (m + 1)) = {}
      BY <3>1, <3>2 DEF Final
    <3>4. ASSUME NEW s \in Steps, Step[s].workflow = w, ~Step[s].optionnal
          PROVE  DoneAt(r, Step[s].index)
      <4>1. Step[s].index < m + 1 /\ Step[s].index \in Nat /\ Step[s].index >= 1
        BY <3>3, <3>4, NothingAbove, StepIndex
      <4>2. Step[s].index # m
        BY <3>1, <3>2, <3>4 DEF Final, AllOptionnal, StepsAt
      <4>3. 10 * Step[s].index < i
        BY <3>2, <4>1, <4>2
      <4> QED BY <2>3, <4>1, <4>3 DEF LevelsDone
    <3> QED BY <3>4 DEF CompletedByAll
  <2> QED BY <1>1, <1>3, <1>5, <1>7, <2>4, <2>5
          DEF Traced, RefusedBySome, CompletedByAll, LevelsDone, DoneAt, TasksOf, Exists
<1>9. CASE me.name \notin Steps
  <2>1. /\ Refuses(me) <=> me.verdict \in {"refused", "dismiss"}
        /\ new.current_index \in {-10, 0, 9}
    BY <1>1, <1>2, <1>4, <1>9, VerificationMove
  <2>2. LevelsDone(r, new.current_index)
    BY <2>1 DEF LevelsDone
  <2>3. ASSUME new.state = "completed" PROVE CompletedByAll(r, w)
    <3>1. Final(w, i) /\ ~Refuses(me)
      BY <1>5, <2>3
    <3>2. StepsAt(w, 10) # {} /\ ~NoneBefore
      BY <1>1, <1>2, <1>4, <1>9, VerificationMove, NoneBeforeFacts DEF SomeBefore, StepsAt, NoneBefore
    <3>3. me.verdict = "completed"
      BY <1>3, <1>4, <2>1, <3>1, <3>2 DEF EndsByAnswers, Ended
    <3>4. i = 10
      <4>1. i \in {0, 10}
        BY <1>1, <1>2, <1>4, <1>9, <3>3, VerificationMove
      <4> QED BY <3>1, <3>2, <4>1 DEF Final
    <3>5. PICK m \in Nat : m = 2 /\ StepsAt(w, 10 * m) = {} /\ AllOptionnal(StepsAt(w, 10))
      BY <3>1, <3>4 DEF Final
    <3>6. ASSUME NEW s \in Steps, Step[s].workflow = w PROVE Step[s].optionnal
      <4>1. Step[s].index = 1
        <5>1. Step[s].index < m
          BY <3>5, <3>6, NothingAbove
        <5> QED BY <3>5, <5>1, StepIndex
      <4>2. s \in StepsAt(w, 10)
        BY <3>6, <4>1 DEF StepsAt
      <4> QED BY <3>5, <4>2 DEF AllOptionnal
    <3> QED BY <3>6 DEF CompletedByAll
  <2> QED BY <1>1, <1>3, <1>5, <1>7, <2>2, <2>3
          DEF Traced, RefusedBySome, CompletedByAll, LevelsDone, DoneAt, TasksOf, Exists
<1> QED BY <1>8, <1>9

LEMMA NextTraced ==
    ASSUME Sequential, BeforeFirst, Contiguous, EndsByAnswers, Steady, [Next]_vars,
           \A r \in RequestIds : Traced(r)
    PROVE  \A r \in RequestIds : Traced(r)'
<1>0. Settled /\ Typed /\ Turn /\ Placed
  BY DEF Steady, Settled
<1>1. ASSUME NEW r \in RequestIds, request'[r] = request[r] PROVE Traced(r)'
  BY <1>0, <1>1, TracedStays
<1>2. ASSUME OnlyOpens, NEW r \in RequestIds PROVE Traced(r)'
  <2>1. CASE request'[r] = request[r]
    BY <1>1, <2>1
  <2>2. CASE request'[r] # request[r]
    <3>1. request'[r].state \notin Ended /\ request'[r].current_index \in {0, 10}
      BY <1>2, <2>2 DEF OnlyOpens
    <3> QED BY <3>1 DEF Traced, LevelsDone, Ended
  <2> QED BY <2>1, <2>2
<1>3. ASSUME NEW q \in RequestIds, NEW s \in Edits, EditRequest(q, s), NEW r \in RequestIds
      PROVE  Traced(r)'
  <2>1. CASE r # q
    BY <1>0, <1>1, <1>3, <2>1, EditEffect
  <2>2. CASE r = q
    <3>1. /\ request'[r].workflow = request[r].workflow
          /\ request'[r].current_index = request[r].current_index
          /\ request'[r].state = IF s \in Ended THEN s ELSE "running"
      BY <1>0, <1>3, <2>2, EditEffect
    <3>2. request'[r].state \notin {"refused", "completed"}
      BY <3>1 DEF EndsByAnswers
    <3> QED BY <1>0, <3>1, <3>2, TracedStays
  <2> QED BY <2>1, <2>2
<1>4. ASSUME NEW h \in Handlers, NEW me, NEW i, NEW new, NEW T, MoveEffect(h, me, i, new, T),
             NEW r \in RequestIds
      PROVE  Traced(r)'
  <2>1. CASE r # me.request
    BY <1>1, <1>4, <2>1 DEF MoveEffect
  <2>2. CASE r = me.request
    <3>1. Traced(me.request)'
      BY <1>4, <2>2, MoveTraced
    <3> QED BY <2>2, <3>1
  <2> QED BY <2>1, <2>2
<1>5. ASSUME NEW h \in Handlers, Opens(h) \/ \E x \in handler[h].todo : ItemEffect(h, x)
      PROVE  OnlyOpens
  BY <1>0, <1>5, OpensEffect DEF ItemEffect
<1>6. ASSUME NEW h \in Handlers, Takes(h) \/ ReadsOn(h) \/ \E new : AnswerEffect(h, new)
      PROVE  request' = request
  BY <1>0, <1>6, TakesEffect, ReadsOnEffect DEF AnswerEffect
<1>7. UNCHANGED vars => request' = request
  BY DEF vars
<1> QED BY <1>0, <1>1, <1>2, <1>3, <1>4, <1>5, <1>6, <1>7, StepKinds

(* VerdictTraced: when calls take turns, a request is refused because a     *)
(* mandatory task was, and completed once every step with a mandatory task  *)
(* was, whatever dismissals sent it back and forth.                         *)
THEOREM VerdictCorrect ==
    ASSUME Sequential, BeforeFirst, Contiguous, EndsByAnswers
    PROVE  Spec => []VerdictTraced
<1> DEFINE Inv == Steady /\ \A r \in RequestIds : Traced(r)
<1>1. Init => Inv
  <2>1. Init => \A r \in RequestIds : Traced(r)
    BY DEF Init, NoRequest, Traced, LevelsDone
  <2> QED BY <2>1, InitSteady
<1>2. Inv /\ [Next]_vars => Inv'
  <2> SUFFICES ASSUME Inv, [Next]_vars PROVE Inv'
    OBVIOUS
  <2>1. Steady' /\ \A r \in RequestIds : Traced(r)'
    BY NextSteady, NextTraced
  <2> QED BY <2>1
<1>3. Inv => VerdictTraced
  BY DEF Traced, RefusedBySome, CompletedByAll, DoneAt, VerdictTraced
<1> QED BY <1>1, <1>2, <1>3, PTL DEF Spec
----------------------------------------------------------------------------
(* Who still has a task of a request that has ended.                        *)

MayWait(name) == IsOptionnal(name) \/ name = Verification
Mild ==
    \A r \in RequestIds : request[r].is_close =>
       /\ \A t \in OpenTasks(r) : MayWait(task[t].name)
       /\ \A h \in Handlers : \A x \in handler[h].todo : x.request = r => MayWait(ItemName(x))

(* A step whose open tasks and items all stem from those before it.         *)
LEMMA QuietMild ==
    ASSUME Typed, Mild,
           \A r \in RequestIds : request'[r].is_close => request[r].is_close,
           \A t \in TaskIds : task'[t].state \in Open =>
              \/ /\ task[t].state \in Open /\ task'[t].request = task[t].request
                 /\ task'[t].name = task[t].name
              \/ \E h \in Handlers : \E x \in handler[h].todo :
                    task'[t].request = x.request /\ task'[t].name = ItemName(x),
           \A h \in Handlers : \A y \in handler'[h].todo :
              \/ \E x \in handler[h].todo : y.request = x.request /\ ItemName(y) = ItemName(x)
              \/ ~request'[y.request].is_close
    PROVE  Mild'
<1> SUFFICES ASSUME NEW r \in RequestIds, request'[r].is_close
             PROVE  /\ \A t \in OpenTasks(r)' : MayWait(task'[t].name)
                    /\ \A h \in Handlers : \A y \in handler'[h].todo : y.request = r => MayWait(ItemName(y))
  BY DEF Mild, MayWait, IsOptionnal, ItemName
<1>1. /\ \A t \in OpenTasks(r) : MayWait(task[t].name)
      /\ \A h \in Handlers : \A x \in handler[h].todo : x.request = r => MayWait(ItemName(x))
  BY DEF Mild
<1>2. ASSUME NEW t \in OpenTasks(r)' PROVE MayWait(task'[t].name)
  <2>1. t \in TaskIds /\ task'[t].state \in Open /\ task'[t].request = r
    BY <1>2 DEF OpenTasks, TasksOf
  <2>2. CASE task[t].state \in Open /\ task'[t].request = task[t].request /\ task'[t].name = task[t].name
    <3>1. t \in OpenTasks(r)
      BY <2>1, <2>2, OpenIsOld
    <3> QED BY <1>1, <2>2, <3>1
  <2>3. CASE \E h \in Handlers : \E x \in handler[h].todo :
                task'[t].request = x.request /\ task'[t].name = ItemName(x)
    BY <1>1, <2>1, <2>3
  <2> QED BY <2>1, <2>2, <2>3
<1>3. ASSUME NEW h \in Handlers, NEW y \in handler'[h].todo, y.request = r
      PROVE  MayWait(ItemName(y))
  BY <1>1, <1>3
<1> QED BY <1>2, <1>3

(* The move leaves optional tasks at most, when it closes the request.      *)
LEMMA MoveMild ==
    ASSUME Sequential, Steady, Mild,
           NEW h \in Handlers, NEW me, NEW i, NEW new, NEW T, MoveEffect(h, me, i, new, T)
    PROVE  Mild'
<1>1. PICK r, row : r = me.request /\ row = request[r]
  OBVIOUS
<1>2. PICK S : S = StepsAt(row.workflow, i)
  OBVIOUS
<1>3. /\ me = handler[h] /\ me \in HandlerRow /\ row \in RequestRow /\ r \in RequestIds
      /\ i = Target(me) /\ new = MovedRequest(me, row) /\ T = WorkAfter(me, row)
      /\ request'[r] = new /\ \A q \in RequestIds : q # r => request'[q] = request[q]
      /\ task' = task /\ handler'[h].todo = T
      /\ \A t \in OpenTasks(r) : task[t].name = me.name
  BY <1>1 DEF MoveEffect
<1>4. Standing /\ InTurns /\ me.name \in Names
  BY <1>3 DEF Steady, Settled, Sequential, HandlerRow
<1>5. \A t \in OpenTasks(r) : task[t].name = Verification
  <2>1. me.name \in Steps => OpenTasks(r) = {}
    BY <1>1, <1>4, AdvanceEmpties
  <2> QED BY <1>3, <1>4, <2>1 DEF Names
<1>6. ASSUME new.is_close, NEW y \in T PROVE MayWait(ItemName(y))
  <2>1. ~me.ended /\ ~Refuses(me) /\ new.state \in Ended
    BY <1>3, <1>6, MoveCases DEF HandlerRow
  <2>2. AllOptionnal(S)
    BY <1>2, <1>3, <2>1, MoveCases DEF Ended
  <2>3. SomeBefore(S) => T = {}
    BY <1>2, <1>3, <1>6, <2>1, MoveCases
  <2>4. ~SomeBefore(S) => T = StepWork(S, me.request, me.nexts, "task", 0)
    BY <1>2, <1>3, <2>1, MoveCases
  <2>5. y.kind = "prepare" /\ y.name \in S
    BY <1>6, <2>3, <2>4, StepWorkItems
  <2>6. y.name \in Steps /\ Step[y.name].optionnal
    BY <1>2, <2>2, <2>5 DEF AllOptionnal, StepsAt
  <2> QED BY <2>5, <2>6 DEF MayWait, IsOptionnal, ItemName
<1>7. \A y \in T : y.request = r
  BY <1>1, <1>3, StepWorkItems, VerificationWorkItems DEF WorkAfter
<1>8. ASSUME NEW q \in RequestIds, request'[q].is_close
      PROVE  /\ \A t \in OpenTasks(q) : MayWait(task[t].name)
             /\ \A y \in T : y.request = q => MayWait(ItemName(y))
  <2>1. CASE q = r
    BY <1>3, <1>5, <1>6, <1>8, <2>1 DEF MayWait
  <2>2. CASE q # r
    BY <1>3, <1>7, <1>8, <2>2 DEF Mild
  <2> QED BY <2>1, <2>2
<1> QED BY <1>3, <1>4, <1>8
        DEF Mild, InTurns, MayWait, IsOptionnal, ItemName, OpenTasks, TasksOf, Exists

LEMMA NextMild ==
    ASSUME Sequential, Edits \cap Ended = {}, Steady, Mild, [Next]_vars
    PROVE  Mild'
<1>0. Settled /\ Typed /\ Turn /\ Placed /\ InTurns /\ Standing
  BY DEF Steady, Settled, Sequential
<1>1. CASE UNCHANGED vars
  BY <1>0, <1>1, QuietMild DEF vars
<1>2. ASSUME NEW r \in RequestIds, NEW s \in Edits, EditRequest(r, s) PROVE Mild'
  <2>1. /\ UNCHANGED <<task, handler>> /\ \A q \in RequestIds : q # r => request'[q] = request[q]
        /\ request'[r].is_close <=> s \in Ended
    BY <1>0, <1>2, EditEffect
  <2>2. ~request'[r].is_close
    BY <2>1
  <2> QED BY <1>0, <2>1, <2>2, QuietMild
<1>3. ASSUME NEW h \in Handlers, Opens(h) PROVE Mild'
  <2>1. /\ OnlyOpens /\ task' = task
        /\ \A y \in handler'[h].todo : ~request'[y.request].is_close
    BY <1>0, <1>3, OpensEffect DEF FirstItem
  <2>2. \A r \in RequestIds : request'[r].is_close => request[r].is_close
    BY <2>1 DEF OnlyOpens
  <2> QED BY <1>0, <2>1, <2>2, QuietMild DEF InTurns
<1>4. ASSUME NEW h \in Handlers, Takes(h) \/ ReadsOn(h) PROVE Mild'
  <2>1. UNCHANGED <<request, task>> /\ handler'[h].todo = {}
    BY <1>0, <1>4, TakesEffect, ReadsOnEffect
  <2> QED BY <1>0, <2>1, QuietMild DEF InTurns
<1>5. ASSUME NEW h \in Handlers, NEW new, AnswerEffect(h, new) PROVE Mild'
  <2>1. PICK me, k : me = handler[h] /\ k = me.task
    OBVIOUS
  <2>2. /\ k \in TaskIds /\ me.pc = "update" /\ task'[k] = new
        /\ new.request = task[k].request /\ new.name = task[k].name
        /\ \A t \in TaskIds : t # k => task'[t] = task[t]
        /\ handler'[h].todo = {} /\ request' = request
    BY <1>5, <2>1 DEF AnswerEffect
  <2>3. task[k].state \in Open
    BY <1>0, <2>1, <2>2 DEF Standing, StandingCall
  <2> QED BY <1>0, <2>2, <2>3, QuietMild DEF InTurns
<1>6. ASSUME NEW h \in Handlers, NEW me, NEW i, NEW new, NEW T, MoveEffect(h, me, i, new, T)
      PROVE  Mild'
  BY <1>6, MoveMild
<1>7. ASSUME NEW h \in Handlers, NEW x \in handler[h].todo, ItemEffect(h, x) PROVE Mild'
  <2>1. \A r \in RequestIds : request'[r].is_close => request[r].is_close
    BY <1>7 DEF ItemEffect, OnlyOpens
  <2>2. \A t \in TaskIds : task'[t].state \in Open =>
           \/ task'[t] = task[t]
           \/ task'[t].request = x.request /\ task'[t].name = ItemName(x)
    BY <1>0, <1>7, ItemAddsOpen
  <2>3. \A y \in handler'[h].todo :
           \/ y \in handler[h].todo
           \/ y.request = x.request /\ ItemName(y) = ItemName(x)
           \/ ~request'[y.request].is_close
    BY <1>7 DEF ItemEffect, Follows, FirstItem, ItemName
  <2> QED BY <1>0, <2>1, <2>2, <2>3, QuietMild DEF InTurns
<1> QED BY <1>0, <1>1, <1>2, <1>3, <1>4, <1>5, <1>6, <1>7, StepKinds

(* ClosedLeavesNoMandatoryTask: when calls take turns and nobody ends a     *)
(* request by hand, an ended request leaves nobody with a mandatory step.   *)
THEOREM ClosedCorrect ==
    ASSUME Sequential, BeforeFirst, Edits \cap Ended = {}
    PROVE  Spec => []ClosedLeavesNoMandatoryTask
<1>1. Init => Steady /\ Mild
  <2>1. Init => Mild
    BY DEF Init, NoRequest, Mild
  <2> QED BY <2>1, InitSteady
<1>2. Steady /\ Mild /\ [Next]_vars => (Steady /\ Mild)'
  BY NextSteady, NextMild
<1>3. Mild => ClosedLeavesNoMandatoryTask
  BY DEF Mild, MayWait, ClosedLeavesNoMandatoryTask
<1> QED BY <1>1, <1>2, <1>3, PTL DEF Spec
----------------------------------------------------------------------------
(* Nothing but a dismissal brings an ended request back.                    *)

Working(h, r) ==
    \/ handler[h].request = r /\ Answering(handler[h])
    \/ \E x \in handler[h].todo : x.request = r
Attended(r) == OpenTasks(r) # {} \/ \E h \in Handlers : Working(h, r)

(* Whoever is still at work on an ended request is at the end of it, and    *)
(* knows that it has ended once it has read it.                             *)
Resting(r) ==
    request[r].is_close =>
       /\ r < nextRequest
       /\ ~Attended(r) \/ Final(request[r].workflow, request[r].current_index)
Informed(me) == me.pc \in {"others", "advance"} => (me.ended <=> request[me.request].state \in Ended)
Rested ==
    /\ \A r \in RequestIds : Resting(r)
    /\ \A h \in Handlers : Informed(handler[h])
    /\ ClosureAgrees

LEMMA EmptyAbove ==
    ASSUME Contiguous, NEW w, NEW m \in Nat, m >= 1, StepsAt(w, 10 * m) = {}
    PROVE  StepsAt(w, 10 * m + 10) = {}
<1> SUFFICES ASSUME NEW s \in StepsAt(w, 10 * m + 10) PROVE FALSE
  OBVIOUS
<1>1. s \in Steps /\ Step[s].workflow = w /\ 10 * Step[s].index = 10 * m + 10
  BY DEF StepsAt
<1>2. Step[s].index < m
  BY <1>1, NothingAbove
<1> QED BY <1>1, <1>2, StepIndex

(* Only steps are worked on when nothing comes before the first.            *)
LEMMA OnlySteps ==
    ASSUME NoneBefore, NEW r, NEW n, InPlace(r, n)
    PROVE  n \in Steps
<1>1. StepsAt(request[r].workflow, 10) \in SUBSET Steps
  BY DEF StepsAt
<1> QED BY <1>1, NoneBeforeFacts DEF InPlace

(* A request nobody takes up anew rests.                                    *)
LEMMA StillResting ==
    ASSUME Typed, NEW r \in RequestIds, Resting(r),
           nextRequest' \in {nextRequest, nextRequest + 1},
           request'[r].is_close => /\ request'[r] = request[r]
                                   /\ r < nextRequest /\ Attended(r)' => Attended(r)
    PROVE  Resting(r)'
<1> SUFFICES ASSUME request'[r].is_close PROVE Resting(r)'
  BY DEF Resting
<1>1. request'[r] = request[r] /\ r < nextRequest /\ (Attended(r)' => Attended(r))
  BY DEF Resting
<1>2. r < nextRequest'
  <2>1. nextRequest \in Int /\ r \in Int
    BY TypedCounters DEF RequestIds
  <2> QED BY <1>1, <2>1
<1> QED BY <1>1, <1>2 DEF Resting

LEMMA AdvanceClosed ==
    ASSUME Sequential, NoneBefore, Contiguous, Steady, Rested,
           NEW h \in Handlers, NEW me, NEW i, NEW new, NEW T, MoveEffect(h, me, i, new, T),
           request[me.request].is_close, ~new.is_close
    PROVE  me.verdict = "dismiss"
<1>1. PICK r, row : r = me.request /\ row = request[r]
  OBVIOUS
<1>2. PICK w, c : w = row.workflow /\ c = row.current_index
  OBVIOUS
<1>3. /\ me = handler[h] /\ me.pc = "advance" /\ me \in HandlerRow /\ row \in RequestRow
      /\ r \in RequestIds /\ i = Target(me) /\ new = MovedRequest(me, row)
  BY <1>1 DEF MoveEffect
<1>4. Standing /\ Resting(r)
  BY <1>3 DEF Steady, Settled, Rested
<1>5. Attended(r)
  BY <1>1, <1>3 DEF Attended, Working, Answering
<1>6. AllOptionnal(StepsAt(w, c)) /\ StepsAt(w, c + 10) = {}
  BY <1>1, <1>2, <1>4, <1>5 DEF Resting, Final
<1>7. InPlace(r, me.name)
  BY <1>1, <1>3, <1>4 DEF Standing, StandingCall, Answering
<1>8. me.name \in Steps
  BY <1>7, OnlySteps
<1>9. PICK k : k = Step[me.name].index
  OBVIOUS
<1>10. /\ k \in Nat /\ k >= 1 /\ c = 10 * k
       /\ i = IF me.verdict = "completed" THEN 10 * (k + 1)
              ELSE IF me.verdict = "dismiss" THEN 10 * (k - 1)
              ELSE 10 * k
  BY <1>1, <1>2, <1>4, <1>8, <1>9, StepMove
<1>11. ~Refuses(me) /\ ~Final(w, i)
  BY <1>2, <1>3, MoveCases DEF Final, Ended
<1>12. CASE me.verdict = "completed"
  <2>1. PICK m \in Nat : m = k + 1
    BY <1>10
  <2>2. i = 10 * m /\ c + 10 = 10 * m /\ m >= 1
    BY <1>10, <1>12, <2>1
  <2>3. StepsAt(w, 10 * m) = {}
    BY <1>6, <2>2
  <2>4. StepsAt(w, 10 * m + 10) = {}
    BY <2>2, <2>3, EmptyAbove
  <2> QED BY <1>11, <2>2, <2>3, <2>4 DEF Final, AllOptionnal
<1>13. CASE me.verdict \notin {"completed", "dismiss"}
  <2>1. i = c
    BY <1>10, <1>13
  <2> QED BY <1>6, <1>11, <2>1 DEF Final
<1> QED BY <1>12, <1>13

LEMMA MoveRested ==
    ASSUME Sequential, NoneBefore, Steady, Rested, ClosureAgrees',
           NEW h \in Handlers, NEW me, NEW i, NEW new, NEW T, MoveEffect(h, me, i, new, T)
    PROVE  Rested'
<1>1. PICK r, row : r = me.request /\ row = request[r]
  OBVIOUS
<1>2. PICK w : w = row.workflow
  OBVIOUS
<1>3. /\ me = handler[h] /\ me.pc = "advance" /\ me \in HandlerRow /\ row \in RequestRow
      /\ r \in RequestIds /\ r < nextRequest /\ nextRequest' = nextRequest
      /\ i = Target(me) /\ new = MovedRequest(me, row) /\ T = WorkAfter(me, row)
      /\ request'[r] = new /\ \A q \in RequestIds : q # r => request'[q] = request[q]
      /\ task' = task /\ handler'[h].todo = T /\ handler'[h].pc \in {"idle", "create"}
  BY <1>1 DEF MoveEffect
<1>4. Standing /\ InTurns /\ Typed
  BY DEF Steady, Settled, Sequential
<1>5. InPlace(r, me.name)
  BY <1>1, <1>3, <1>4 DEF Standing, StandingCall, Answering
<1>6. OpenTasks(r) = {}
  BY <1>1, <1>4, <1>5, OnlySteps, AdvanceEmpties
<1>7. \A y \in T : y.request = r
  BY <1>1, <1>3, StepWorkItems, VerificationWorkItems DEF WorkAfter
<1>8. \A q : OpenTasks(q)' = OpenTasks(q)
  BY <1>3 DEF OpenTasks, TasksOf, Exists
<1>9. \A q : Attended(q)' => OpenTasks(q) # {} \/ (T # {} /\ q = r)
  BY <1>3, <1>4, <1>7, <1>8 DEF Attended, Working, Answering, InTurns
<1>10. ASSUME NEW q \in RequestIds, q # r PROVE Resting(q)'
  BY <1>3, <1>9, <1>10 DEF Rested, Resting, Attended
<1>11. ASSUME new.is_close, T # {} PROVE Final(new.workflow, new.current_index)
  <2>1. StepsAt(w, i) \in SUBSET Steps
    BY DEF StepsAt
  <2>2. ~me.ended /\ ~Refuses(me) /\ ~SomeBefore(StepsAt(w, i))
    BY <1>3, <1>11, <2>1, MoveCases, NoneBeforeFacts DEF HandlerRow
  <2>3. new.current_index = i /\ new.workflow = w /\ new.state = "completed"
    BY <1>2, <1>3, <1>11, <2>2, MoveCases DEF Ended
  <2>4. Final(w, i)
    BY <1>2, <1>3, <2>2, <2>3, MoveCases DEF Final
  <2> QED BY <2>3, <2>4
<1>12. Resting(r)'
  BY <1>3, <1>6, <1>9, <1>11 DEF Resting, Final
<1>13. Informed(handler[h])'
  BY <1>3 DEF Informed
<1> QED BY <1>4, <1>10, <1>12, <1>13 DEF Rested, InTurns
(* Rows of the next state: at what a call works after a step.               *)
LEMMA QuietRested ==
    ASSUME Sequential, Typed, Rested, ClosureAgrees', NEW h \in Handlers,
           nextRequest' \in {nextRequest, nextRequest + 1},
           \A r \in RequestIds : request'[r].is_close => request'[r] = request[r],
           \A t \in TaskIds : task'[t].state \in Open =>
              Attended(task'[t].request) \/ task'[t].request \notin RequestIds,
           Answering(handler[h])' =>
              Attended(handler'[h].request) \/ handler'[h].request \notin RequestIds,
           \A y \in handler'[h].todo :
              \/ Attended(y.request) \/ y.request >= nextRequest \/ y.request \notin RequestIds,
           Informed(handler[h])'
    PROVE  Rested'
<1>1. ASSUME NEW r \in RequestIds PROVE Resting(r)'
  <2>1. Resting(r)
    BY DEF Rested
  <2>2. ASSUME Attended(r)', r < nextRequest PROVE Attended(r)
    <3>1. CASE OpenTasks(r)' # {}
      BY <3>1 DEF OpenTasks, TasksOf
    <3>2. CASE \E g \in Handlers : Working(g, r)'
      <4>1. Working(h, r)'
        BY <3>2 DEF Sequential, InTurns
      <4>2. CASE handler'[h].request = r /\ Answering(handler[h])'
        BY <4>2
      <4>3. CASE \E y \in handler'[h].todo : y.request = r
        BY <2>2, <4>3, TypedCounters DEF RequestIds
      <4> QED BY <4>1, <4>2, <4>3 DEF Working
    <3> QED BY <2>2, <3>1, <3>2 DEF Attended
  <2> QED BY <2>1, <2>2, StillResting
<1> QED BY <1>1 DEF Rested, Sequential, InTurns

LEMMA NextRested ==
    ASSUME Sequential, NoneBefore, Edits = {}, Steady, Rested, [Next]_vars
    PROVE  Rested'
<1>0. Settled /\ Typed /\ Turn /\ Placed /\ InTurns /\ Standing
  BY DEF Steady, Settled, Sequential
<1>1. ClosureAgrees'
  BY <1>0, NextClosure DEF Rested
<1>2. CASE UNCHANGED vars
  BY <1>2 DEF vars, Rested, Resting, Informed, Attended, Working, Answering, OpenTasks, TasksOf,
              Exists, ClosureAgrees
<1>3. \A t \in TaskIds : task[t].state \in Open => Attended(task[t].request)
  BY <1>0, OpenIsOld DEF Attended
<1>4. \A h \in Handlers : Answering(handler[h]) => Attended(handler[h].request)
  BY DEF Attended, Working
<1>5. \A h \in Handlers : \A x \in handler[h].todo : Attended(x.request)
  BY DEF Attended, Working
<1>6. ASSUME NEW h \in Handlers, Opens(h) PROVE Rested'
  <2>1. /\ handler'[h].pc \in {"idle", "create"} /\ OnlyOpens /\ task' = task
        /\ nextRequest' = nextRequest + 1
        /\ \A y \in handler'[h].todo : y.request = nextRequest
    BY <1>0, <1>6, OpensEffect DEF FirstItem
  <2>2. \A r \in RequestIds : request'[r].is_close => request'[r] = request[r]
    BY <2>1 DEF OnlyOpens
  <2>3. ~Answering(handler[h])' /\ Informed(handler[h])'
    BY <2>1 DEF Answering, Informed
  <2>4. \A y \in handler'[h].todo : y.request >= nextRequest
    BY <1>0, <2>1, TypedCounters
  <2> QED BY <1>0, <1>1, <1>3, <2>1, <2>2, <2>3, <2>4, QuietRested
<1>7. ASSUME NEW h \in Handlers, Takes(h) PROVE Rested'
  <2>1. PICK t : t = handler'[h].task
    OBVIOUS
  <2>2. /\ UNCHANGED <<request, task, nextRequest>> /\ handler'[h].pc = "update"
        /\ handler'[h].todo = {} /\ t \in TaskIds /\ task[t].state \in Open
        /\ handler'[h].request = task[t].request
    BY <1>0, <1>7, <2>1, TakesEffect
  <2>3. Informed(handler[h])'
    BY <2>2 DEF Informed
  <2> QED BY <1>0, <1>1, <1>3, <2>2, <2>3, QuietRested
<1>8. ASSUME NEW h \in Handlers, ReadsOn(h) PROVE Rested'
  <2>1. PICK me : me = handler[h]
    OBVIOUS
  <2>2. /\ UNCHANGED <<request, task, nextRequest>> /\ Answering(me) /\ handler'[h].todo = {}
        /\ \/ handler'[h].pc = "idle"
           \/ /\ handler'[h].request = me.request
              /\ \/ handler'[h].pc = "request"
                 \/ /\ me.pc = "request" /\ handler'[h].pc = "others"
                    /\ handler'[h].ended <=> request[me.request].state \in Ended
                 \/ /\ me.pc = "others" /\ handler'[h].pc = "advance"
                    /\ handler'[h].ended = me.ended
    BY <1>0, <1>8, <2>1, ReadsOnEffect
  <2>3. Informed(me)
    BY <2>1 DEF Rested
  <2>4. Informed(handler[h])'
    BY <2>2, <2>3 DEF Informed
  <2>5. Answering(handler[h])' => handler'[h].request = me.request
    BY <2>2 DEF Answering
  <2> QED BY <1>0, <1>1, <1>3, <1>4, <2>1, <2>2, <2>4, <2>5, QuietRested
<1>9. ASSUME NEW h \in Handlers, NEW new, AnswerEffect(h, new) PROVE Rested'
  <2>1. PICK me, k : me = handler[h] /\ k = me.task
    OBVIOUS
  <2>2. /\ k \in TaskIds /\ me.pc = "update" /\ task'[k] = new
        /\ new.request = me.request
        /\ \A t \in TaskIds : t # k => task'[t] = task[t]
        /\ handler'[h].todo = {} /\ handler'[h].pc = "reread" /\ handler'[h].request = me.request
        /\ UNCHANGED <<request, nextRequest>>
    BY <1>9, <2>1 DEF AnswerEffect
  <2>3. Attended(me.request)
    BY <1>4, <2>1, <2>2 DEF Answering
  <2>4. \A t \in TaskIds : task'[t].state \in Open => Attended(task'[t].request)
    BY <1>3, <2>2, <2>3
  <2>5. Informed(handler[h])'
    BY <2>2 DEF Informed
  <2> QED BY <1>0, <1>1, <2>2, <2>3, <2>4, <2>5, QuietRested
<1>10. ASSUME NEW h \in Handlers, NEW me, NEW i, NEW new, NEW T, MoveEffect(h, me, i, new, T)
       PROVE  Rested'
  BY <1>1, <1>10, MoveRested
<1>11. ASSUME NEW h \in Handlers, NEW x \in handler[h].todo, ItemEffect(h, x) PROVE Rested'
  <2>1. /\ handler'[h].pc \in {"idle", "create"} /\ OnlyOpens
        /\ nextRequest' \in {nextRequest, nextRequest + 1}
    BY <1>11 DEF ItemEffect
  <2>2. \A r \in RequestIds : request'[r].is_close => request'[r] = request[r]
    BY <2>1 DEF OnlyOpens
  <2>3. ~Answering(handler[h])' /\ Informed(handler[h])'
    BY <2>1 DEF Answering, Informed
  <2>4. \A t \in TaskIds : task'[t].state \in Open => Attended(task'[t].request)
    <3> SUFFICES ASSUME NEW t \in TaskIds, task'[t].state \in Open PROVE Attended(task'[t].request)
      OBVIOUS
    <3>1. task'[t] = task[t] \/ task'[t].request = x.request
      BY <1>0, <1>11, ItemAddsOpen
    <3> QED BY <1>3, <1>5, <3>1
  <2>5. \A y \in handler'[h].todo : Attended(y.request) \/ y.request >= nextRequest
    <3> SUFFICES ASSUME NEW y \in handler'[h].todo
                 PROVE  Attended(y.request) \/ y.request >= nextRequest
      OBVIOUS
    <3>1. y \in handler[h].todo \/ y.request = x.request \/ y.request = nextRequest
      BY <1>11 DEF ItemEffect, Follows, FirstItem
    <3> QED BY <1>0, <1>5, <3>1, TypedCounters
  <2> QED BY <1>0, <1>1, <2>1, <2>2, <2>3, <2>4, <2>5, QuietRested
<1> QED BY <1>0, <1>2, <1>6, <1>7, <1>8, <1>9, <1>10, <1>11, StepKinds

LEMMA InitRested == Init => Rested
<1> SUFFICES ASSUME Init PROVE Rested
  OBVIOUS
<1>1. ClosureAgrees
  BY DEF Init, ClosureAgrees, NoRequest, NoTask, Ended
<1>2. \A r \in RequestIds : ~request[r].is_close
  BY DEF Init, NoRequest
<1>3. \A h \in Handlers : handler[h].pc = "idle"
  BY IdleType DEF Init
<1> QED BY <1>1, <1>2, <1>3 DEF Rested, Resting, Informed

(* ReopenedByDismissal: when calls take turns, an ended request is opened   *)
(* again by nothing but the dismissal of a task it still has: every other   *)
(* late answer finds the request at its end and ends it again.              *)
THEOREM ReopenedCorrect ==
    ASSUME Sequential, NoneBefore, Contiguous, Edits = {}
    PROVE  Spec => ReopenedByDismissal
<1> DEFINE Inv == Steady /\ Rested
           Back == \A r \in RequestIds :
                      request[r].is_close /\ ~request'[r].is_close /\ request'[r].exists
                      => \E h \in Handlers : /\ handler[h].request = r /\ handler[h].pc = "advance"
                                             /\ handler[h].verdict = "dismiss"
<1>1. Init => Inv
  BY InitSteady, InitRested
<1>2. Inv /\ [Next]_vars => Inv'
  BY NoneBeforeFacts, NextSteady, NextRested
<1>3. Inv /\ [Next]_vars => Back
  <2> SUFFICES ASSUME Inv, [Next]_vars, NEW r \in RequestIds,
                      request[r].is_close, ~request'[r].is_close
               PROVE  \E h \in Handlers : /\ handler[h].request = r /\ handler[h].pc = "advance"
                                          /\ handler[h].verdict = "dismiss"
    OBVIOUS
  <2>0. Typed /\ Turn /\ Placed
    BY DEF Steady, Settled
  <2>1. request' # request
    OBVIOUS
  <2>2. ~OnlyOpens
    <3>1. Resting(r) /\ nextRequest \in Int
      BY <2>0, TypedCounters DEF Rested
    <3> QED BY <3>1 DEF Resting, OnlyOpens, RequestIds
  <2>3. PICK h \in Handlers : \E me, i, new, T : MoveEffect(h, me, i, new, T)
    BY <2>0, <2>1, <2>2, StepKinds, OpensEffect, TakesEffect, ReadsOnEffect
       DEF vars, AnswerEffect, ItemEffect
  <2>4. PICK me, i, new, T : MoveEffect(h, me, i, new, T)
    BY <2>3
  <2>5. me = handler[h] /\ me.pc = "advance" /\ r = me.request /\ request'[r] = new
    BY <2>4 DEF MoveEffect
  <2>6. me.verdict = "dismiss"
    BY <2>4, <2>5, AdvanceClosed
  <2> QED BY <2>5, <2>6
<1> QED BY <1>1, <1>2, <1>3, PTL DEF Spec, ReopenedByDismissal
----------------------------------------------------------------------------
(* An open request always has somebody to follow it.                        *)

(* The users complete their tasks or refuse mandatory ones, choose nothing, *)
(* and the database takes what it is given.                                 *)
PlainAnswers ==
    /\ Verdicts \subseteq {"completed", "refused", "running"}
    /\ "refused" \in Verdicts => \A s \in Steps : ~Step[s].optionnal
    /\ NextsChoices \subseteq {AllNexts}
    /\ ~InsertsMayFail

(* No choice is made, and a step is only created where none of its tasks    *)
(* was: the request has passed every task it has.                           *)
NoChoice ==
    /\ \A t \in TaskIds : task[t].nexts = AllNexts
    /\ \A h \in Handlers : /\ handler[h].pc = "update" => handler[h].nexts = AllNexts
                           /\ \A x \in handler[h].todo : x.nexts = AllNexts
PassedAt(r) ==
    /\ \A t \in TasksOf(r) : /\ task[t].name \in Steps
                             /\ 10 * Step[task[t].name].index <= request[r].current_index
    /\ \A h \in Handlers : \A x \in handler[h].todo :
          x.request = r => \A t \in TasksOf(r) : task[t].name # x.name
Passed == \A r \in RequestIds : ~request[r].is_close => PassedAt(r)
Followed == \A r \in RequestIds : request[r].exists /\ ~request[r].is_close => Attended(r)

(* A move that leaves the request open gives the next step out.             *)
LEMMA MoveOpen ==
    ASSUME Sequential, NoneBefore, Contiguous, PlainAnswers, Steady, Rested,
           NEW h \in Handlers, NEW me, NEW i, NEW new, NEW T, MoveEffect(h, me, i, new, T),
           ~new.is_close
    PROVE  /\ ~request[me.request].is_close /\ me.name \in Steps /\ T # {}
           /\ new.current_index = request[me.request].current_index + 10
           /\ \A y \in T : /\ y.request = me.request /\ y.name \in Steps
                           /\ 10 * Step[y.name].index = request[me.request].current_index + 10
<1>1. PICK r, row : r = me.request /\ row = request[r]
  OBVIOUS
<1>2. PICK w, c : w = row.workflow /\ c = row.current_index
  OBVIOUS
<1>3. /\ me = handler[h] /\ me.pc = "advance" /\ me \in HandlerRow /\ row \in RequestRow
      /\ r \in RequestIds /\ i = Target(me) /\ new = MovedRequest(me, row) /\ T = WorkAfter(me, row)
      /\ me.verdict \in Ended /\ me.task \in TaskIds /\ task[me.task].state = me.verdict
  BY <1>1 DEF MoveEffect
<1>4. Standing /\ me.verdict \in Verdicts /\ Informed(me)
  BY <1>3 DEF Steady, Settled, Given, Rested
<1>5. ~row.is_close
  BY <1>1, <1>4, AdvanceClosed DEF PlainAnswers
<1>6. ~me.ended
  BY <1>1, <1>3, <1>4, <1>5 DEF Informed, Rested, ClosureAgrees
<1>7. InPlace(r, me.name)
  BY <1>1, <1>3, <1>4 DEF Standing, StandingCall, Answering
<1>8. me.name \in Steps
  BY <1>7, OnlySteps
<1>9. PICK k : k = Step[me.name].index
  OBVIOUS
<1>10. /\ k \in Nat /\ k >= 1 /\ c = 10 * k
       /\ i = IF me.verdict = "completed" THEN 10 * (k + 1)
              ELSE IF me.verdict = "dismiss" THEN 10 * (k - 1)
              ELSE 10 * k
       /\ Refuses(me) <=> me.verdict = "refused" /\ ~Step[me.name].optionnal
  BY <1>1, <1>2, <1>4, <1>8, <1>9, StepMove
<1>11. ~Refuses(me) /\ ~Final(w, i)
  BY <1>2, <1>3, MoveCases DEF Final, Ended
<1>12. me.verdict = "completed"
  BY <1>3, <1>4, <1>8, <1>10, <1>11 DEF PlainAnswers, Ended
<1>13. i = c + 10
  BY <1>10, <1>12
<1>14. PICK S : S = StepsAt(w, i)
  OBVIOUS
<1>15. S \in SUBSET Steps /\ \A s \in S : 10 * Step[s].index = i
  BY <1>14 DEF StepsAt
<1>16. new.current_index = i /\ T = StepWork(S, me.request, me.nexts, "task", 0)
  BY <1>2, <1>3, <1>6, <1>11, <1>14, <1>15, NoneBeforeFacts, MoveCases
<1>17. S # {}
  <2>1. PICK m \in Nat : m = k + 1
    BY <1>10
  <2>2. i = 10 * m /\ m >= 1
    BY <1>10, <1>12, <2>1
  <2>3. StepsAt(w, 10 * m) = {} => StepsAt(w, 10 * m + 10) = {}
    BY <2>2, EmptyAbove
  <2> QED BY <1>11, <1>14, <2>2, <2>3 DEF Final, AllOptionnal
<1>18. T # {}
  BY <1>16, <1>17 DEF StepWork
<1>19. \A y \in T : y.request = r /\ y.name \in S /\ y.nexts = me.nexts
  BY <1>1, <1>16, StepWorkItems
<1> QED BY <1>1, <1>2, <1>5, <1>8, <1>13, <1>15, <1>16, <1>18, <1>19

LEMMA NextNoChoice ==
    ASSUME Sequential, PlainAnswers, Steady, NoChoice, [Next]_vars
    PROVE  NoChoice'
<1>0. Settled /\ Typed /\ Turn /\ Placed /\ InTurns /\ Standing
  BY DEF Steady, Settled, Sequential
<1>1. CASE UNCHANGED vars
  BY <1>1 DEF vars, NoChoice
<1>2. ASSUME NEW r \in RequestIds, NEW s \in Edits, EditRequest(r, s) PROVE NoChoice'
  BY <1>2 DEF EditRequest, NoChoice
<1>3. ASSUME NEW h \in Handlers, Opens(h) PROVE NoChoice'
  <2>1. /\ task' = task /\ handler'[h].pc # "update"
        /\ \A y \in handler'[h].todo : y.nexts = AllNexts
    BY <1>0, <1>3, OpensEffect DEF FirstItem
  <2> QED BY <1>0, <2>1 DEF NoChoice, InTurns
<1>4. ASSUME NEW h \in Handlers, Takes(h) PROVE NoChoice'
  <2>1. task' = task /\ handler'[h].todo = {} /\ handler'[h].nexts = AllNexts
    BY <1>0, <1>4, TakesEffect DEF NoChoice, PlainAnswers
  <2> QED BY <1>0, <2>1 DEF NoChoice, InTurns
<1>5. ASSUME NEW h \in Handlers, ReadsOn(h) PROVE NoChoice'
  <2>1. task' = task /\ handler'[h].todo = {} /\ handler'[h].pc # "update"
    BY <1>0, <1>5, ReadsOnEffect
  <2> QED BY <1>0, <2>1 DEF NoChoice, InTurns
<1>6. ASSUME NEW h \in Handlers, NEW new, AnswerEffect(h, new) PROVE NoChoice'
  <2>1. PICK me, k : me = handler[h] /\ k = me.task
    OBVIOUS
  <2>2. /\ me.pc = "update" /\ task'[k] = new /\ new.nexts = me.nexts
        /\ \A t \in TaskIds : t # k => task'[t] = task[t]
        /\ handler'[h].todo = {} /\ handler'[h].pc = "reread"
    BY <1>6, <2>1 DEF AnswerEffect
  <2>3. me.nexts = AllNexts
    BY <2>1, <2>2 DEF NoChoice
  <2> QED BY <1>0, <2>2, <2>3 DEF NoChoice, InTurns
<1>7. ASSUME NEW h \in Handlers, NEW me, NEW i, NEW new, NEW T, MoveEffect(h, me, i, new, T)
      PROVE  NoChoice'
  <2>1. /\ me = handler[h] /\ me.pc = "advance" /\ me.task \in TaskIds
        /\ T = WorkAfter(me, request[me.request]) /\ task' = task
        /\ handler'[h].todo = T /\ handler'[h].pc # "update"
    BY <1>7 DEF MoveEffect
  <2>2. me.nexts = AllNexts
    BY <1>0, <2>1 DEF Standing, StandingCall, NoChoice
  <2>3. \A y \in T : y.nexts = AllNexts
    BY <2>1, <2>2, StepWorkItems, VerificationWorkItems DEF WorkAfter
  <2> QED BY <1>0, <2>1, <2>3 DEF NoChoice, InTurns
<1>8. ASSUME NEW h \in Handlers, NEW x \in handler[h].todo, ItemEffect(h, x) PROVE NoChoice'
  <2>1. \A t \in TaskIds : task'[t].nexts = AllNexts
    BY <1>0, <1>8, ItemAddsOpen DEF NoChoice
  <2>2. \A y \in handler'[h].todo : y.nexts = AllNexts
    BY <1>8 DEF ItemEffect, Follows, FirstItem, NoChoice
  <2>3. handler'[h].pc # "update"
    BY <1>8 DEF ItemEffect
  <2> QED BY <1>0, <2>1, <2>2, <2>3 DEF NoChoice, InTurns
<1> QED BY <1>0, <1>1, <1>2, <1>3, <1>4, <1>5, <1>6, <1>7, <1>8, StepKinds
(* Requests that keep their tasks and items, or have none yet.              *)
LEMMA QuietPassed ==
    ASSUME Sequential, Typed, Passed, NEW h \in Handlers, OnlyOpens,
           \A t \in TaskIds : Exists(t)' =>
              Exists(t) /\ task'[t].request = task[t].request /\ task'[t].name = task[t].name,
           \A y \in handler'[h].todo :
              \/ y.request = nextRequest
              \/ \E x \in handler[h].todo : y.request = x.request /\ y.name = x.name
    PROVE  Passed'
<1> SUFFICES ASSUME NEW r \in RequestIds, ~request'[r].is_close PROVE PassedAt(r)'
  BY DEF Passed
<1>1. \A t \in TasksOf(r)' : t \in TasksOf(r) /\ task'[t].name = task[t].name
  BY DEF TasksOf
<1>2. CASE r = nextRequest
  <2>1. TasksOf(r) = {}
    BY <1>2, FirstUnopened
  <2> QED BY <1>1, <2>1 DEF PassedAt
<1>3. CASE r # nextRequest
  <2>1. request'[r] = request[r]
    BY <1>3 DEF OnlyOpens
  <2>2. PassedAt(r)
    BY <2>1 DEF Passed
  <2>3. ASSUME NEW y \in handler'[h].todo, y.request = r, NEW t \in TasksOf(r)'
        PROVE  task'[t].name # y.name
    BY <1>1, <1>3, <2>2, <2>3 DEF PassedAt
  <2>4. \A g \in Handlers : g = h
    BY DEF Sequential, InTurns
  <2>5. \A t \in TasksOf(r)' : /\ task'[t].name \in Steps
                               /\ 10 * Step[task'[t].name].index <= request'[r].current_index
    BY <1>1, <2>1, <2>2 DEF PassedAt
  <2> QED BY <2>3, <2>4, <2>5 DEF PassedAt
<1> QED BY <1>2, <1>3

(* A task that is inserted belongs where its request stands, and to no step *)
(* that another item is for.                                                *)
LEMMA AddPassed ==
    ASSUME Sequential, NoneBefore, Steady, Passed,
           NEW h \in Handlers, NEW x \in handler[h].todo, ItemEffect(h, x), task' # task
    PROVE  Passed'
<1>0. Typed /\ Placed /\ Standing /\ Single
  BY DEF Steady, Settled
<1>1. PICK k : k = nextTask
  OBVIOUS
<1>2. PICK q, n : q = x.request /\ n = x.name
  OBVIOUS
<1>3. InPlace(q, ItemName(x)) /\ q \in RequestIds /\ q < nextRequest
  BY <1>0, <1>2, ItemFacts DEF Standing, StandingCall
<1>4. ItemName(x) \in Steps
  BY <1>3, OnlySteps
<1>5. x.kind # "verification" /\ ItemName(x) = n /\ n \in Steps
  BY <1>2, <1>4, ConfigAssumption DEF ItemName
<1>6. request[q].current_index = 10 * Step[n].index
  BY <1>3, <1>5 DEF InPlace
<1>7. /\ k \in TaskIds /\ task'[k].request = q /\ task'[k].name = n
      /\ \A t \in TaskIds : t # k => task'[t] = task[t]
      /\ handler'[h].todo \subseteq handler[h].todo \ {x}
      /\ OnlyOpens
  BY <1>1, <1>2, <1>5 DEF ItemEffect
<1> SUFFICES ASSUME NEW r \in RequestIds, ~request'[r].is_close PROVE PassedAt(r)'
  BY DEF Passed
<1>8. ASSUME NEW t \in TasksOf(r)'
      PROVE  (t \in TasksOf(r) /\ task'[t] = task[t]) \/ (t = k /\ r = q)
  BY <1>7, <1>8 DEF TasksOf, Exists
<1>9. CASE r = nextRequest
  <2>1. TasksOf(r) = {}
    BY <1>0, <1>9, FirstUnopened
  <2>2. r # q
    BY <1>0, <1>3, <1>9, TypedCounters
  <2> QED BY <1>8, <2>1, <2>2 DEF PassedAt
<1>10. CASE r # nextRequest
  <2>1. request'[r] = request[r]
    BY <1>7, <1>10 DEF OnlyOpens
  <2>2. PassedAt(r)
    BY <2>1 DEF Passed
  <2>3. ASSUME NEW t \in TasksOf(r)'
        PROVE  /\ task'[t].name \in Steps
               /\ 10 * Step[task'[t].name].index <= request'[r].current_index
    <3>1. CASE t \in TasksOf(r) /\ task'[t] = task[t]
      BY <2>1, <2>2, <3>1 DEF PassedAt
    <3>2. CASE t = k /\ r = q
      BY <1>5, <1>6, <1>7, <2>1, <3>2, StepIndex
    <3> QED BY <1>8, <3>1, <3>2
  <2>4. ASSUME NEW y \in handler'[h].todo, y.request = r, NEW t \in TasksOf(r)'
        PROVE  task'[t].name # y.name
    <3>1. y \in handler[h].todo /\ y # x
      BY <1>7, <2>4
    <3>2. CASE t \in TasksOf(r) /\ task'[t] = task[t]
      BY <2>2, <2>4, <3>1, <3>2 DEF PassedAt
    <3>3. CASE t = k /\ r = q
      <4>1. InPlace(r, ItemName(y))
        BY <1>0, <2>4, <3>1 DEF Standing, StandingCall
      <4>2. y.kind # "verification"
        BY <4>1, OnlySteps, ConfigAssumption DEF ItemName
      <4>3. ~SameItem(x, y)
        BY <1>0, <3>1 DEF Single, Sparing
      <4> QED BY <1>2, <1>5, <1>7, <2>4, <3>3, <4>2, <4>3 DEF SameItem
    <3> QED BY <1>8, <3>2, <3>3
  <2>5. \A g \in Handlers : g = h
    BY DEF Sequential, InTurns
  <2> QED BY <2>3, <2>4, <2>5 DEF PassedAt
<1> QED BY <1>9, <1>10

LEMMA MovePassed ==
    ASSUME Sequential, NoneBefore, Contiguous, PlainAnswers, Steady, Rested, Passed,
           NEW h \in Handlers, NEW me, NEW i, NEW new, NEW T, MoveEffect(h, me, i, new, T)
    PROVE  Passed'
<1>1. PICK q, c : q = me.request /\ c = request[q].current_index
  OBVIOUS
<1>2. /\ request'[q] = new /\ \A r \in RequestIds : r # q => request'[r] = request[r]
      /\ q \in RequestIds /\ request[q] \in RequestRow /\ T = WorkAfter(me, request[q])
      /\ task' = task /\ handler'[h].todo = T
  BY <1>1 DEF MoveEffect
<1>3. \A y \in T : y.request = q
  BY <1>1, <1>2, StepWorkItems, VerificationWorkItems DEF WorkAfter
<1>4. c \in Int
  BY <1>1, <1>2 DEF RequestRow
<1> SUFFICES ASSUME NEW r \in RequestIds, ~request'[r].is_close PROVE PassedAt(r)'
  BY DEF Passed
<1>5. TasksOf(r)' = TasksOf(r)
  BY <1>2 DEF TasksOf, Exists
<1>6. \A g \in Handlers : g = h
  BY DEF Sequential, InTurns
<1>7. CASE r = q
  <2>1. /\ ~request[q].is_close /\ new.current_index = c + 10
        /\ \A y \in T : y.name \in Steps /\ 10 * Step[y.name].index = c + 10
    BY <1>1, <1>2, <1>7, MoveOpen
  <2>2. PassedAt(q)
    BY <1>2, <2>1 DEF Passed
  <2>3. ASSUME NEW t \in TasksOf(q)
        PROVE  /\ task[t].name \in Steps /\ 10 * Step[task[t].name].index <= c + 10
               /\ \A y \in T : task[t].name # y.name
    <3>1. task[t].name \in Steps /\ 10 * Step[task[t].name].index <= c
      BY <1>1, <2>2 DEF PassedAt
    <3>2. Step[task[t].name].index \in Nat
      BY <3>1, StepIndex
    <3>3. 10 * Step[task[t].name].index < c + 10
      BY <1>4, <3>1, <3>2
    <3> QED BY <1>4, <2>1, <3>1, <3>2, <3>3
  <2> QED BY <1>2, <1>5, <1>6, <1>7, <2>1, <2>3 DEF PassedAt
<1>8. CASE r # q
  <2>1. PassedAt(r) /\ request'[r] = request[r]
    BY <1>2, <1>8 DEF Passed
  <2> QED BY <1>2, <1>3, <1>5, <1>6, <1>8, <2>1 DEF PassedAt
<1> QED BY <1>7, <1>8

LEMMA NextPassed ==
    ASSUME Sequential, NoneBefore, Contiguous, PlainAnswers, Edits = {}, Steady, Rested, Passed,
           [Next]_vars
    PROVE  Passed'
<1>0. Typed /\ Turn /\ Placed
  BY DEF Steady, Settled
<1>1. CASE UNCHANGED vars
  BY <1>1 DEF vars, Passed, PassedAt, TasksOf, Exists
<1>2. ASSUME NEW h \in Handlers, Opens(h) PROVE Passed'
  <2>1. OnlyOpens /\ task' = task /\ \A y \in handler'[h].todo : y.request = nextRequest
    BY <1>0, <1>2, OpensEffect DEF FirstItem
  <2> QED BY <1>0, <2>1, QuietPassed DEF Exists
<1>3. ASSUME NEW h \in Handlers, Takes(h) \/ ReadsOn(h) PROVE Passed'
  <2>1. UNCHANGED <<request, task>> /\ handler'[h].todo = {}
    BY <1>0, <1>3, TakesEffect, ReadsOnEffect
  <2> QED BY <1>0, <2>1, QuietPassed DEF OnlyOpens, Exists
<1>4. ASSUME NEW h \in Handlers, NEW new, AnswerEffect(h, new) PROVE Passed'
  <2>1. PICK k : k = handler[h].task
    OBVIOUS
  <2>2. /\ Exists(k) /\ task'[k].request = task[k].request /\ task'[k].name = task[k].name
        /\ \A t \in TaskIds : t # k => task'[t] = task[t]
        /\ handler'[h].todo = {} /\ request' = request
    BY <1>4, <2>1 DEF AnswerEffect
  <2>3. OnlyOpens /\ \A t \in TaskIds : Exists(t)' =>
           Exists(t) /\ task'[t].request = task[t].request /\ task'[t].name = task[t].name
    BY <2>2 DEF OnlyOpens, Exists
  <2> QED BY <1>0, <2>2, <2>3, QuietPassed
<1>5. ASSUME NEW h \in Handlers, NEW me, NEW i, NEW new, NEW T, MoveEffect(h, me, i, new, T)
      PROVE  Passed'
  BY <1>5, MovePassed
<1>6. ASSUME NEW h \in Handlers, NEW x \in handler[h].todo, ItemEffect(h, x) PROVE Passed'
  <2>1. CASE task' # task
    BY <1>6, <2>1, AddPassed
  <2>2. CASE task' = task
    <3>1. OnlyOpens
      BY <1>6 DEF ItemEffect
    <3>2. \A y \in handler'[h].todo :
              \/ y.request = nextRequest \/ y \in handler[h].todo
              \/ y.request = x.request /\ y.name = x.name
      BY <1>6 DEF ItemEffect, Follows, FirstItem
    <3> QED BY <1>0, <2>2, <3>1, <3>2, QuietPassed DEF Exists
  <2> QED BY <2>1, <2>2
<1> QED BY <1>0, <1>1, <1>2, <1>3, <1>4, <1>5, <1>6, StepKinds
(* A step that leaves every request it does not open attended.              *)
LEMMA NextFollowed ==
    ASSUME Sequential, NoneBefore, Contiguous, PlainAnswers, Edits = {},
           Steady, Rested, NoChoice, Passed, Followed, [Next]_vars
    PROVE  Followed'
<1>0. Typed /\ Turn /\ Placed /\ Standing /\ InTurns
  BY DEF Steady, Settled, Sequential
<1>1. CASE UNCHANGED vars
  BY <1>1 DEF vars, Followed, Attended, Working, Answering, OpenTasks, TasksOf, Exists
<1>2. \A h \in Handlers : handler[h].pc # "create" => handler[h].todo = {}
  BY <1>0 DEF Placed, PlacedCall
<1>3. ASSUME NEW r, task' = task PROVE OpenTasks(r)' = OpenTasks(r)
  BY <1>3 DEF OpenTasks, TasksOf, Exists
<1>4. ASSUME NEW h \in Handlers, Opens(h) PROVE Followed'
  <2>1. handler[h].pc = "idle" /\ OnlyOpens /\ Starts(h) /\ task' = task
    BY <1>0, <1>4, OpensEffect
  <2>2. ASSUME NEW r \in RequestIds, request'[r].exists, ~request'[r].is_close PROVE Attended(r)'
    <3>1. CASE request'[r] = request[r]
      <4>1. Attended(r)
        BY <2>2, <3>1 DEF Followed
      <4>2. \A g \in Handlers : ~Working(g, r)
        BY <1>0, <1>2, <2>1 DEF Working, Answering, InTurns
      <4> QED BY <1>3, <2>1, <4>1, <4>2 DEF Attended
    <3>2. CASE request'[r] # request[r]
      BY <2>1, <2>2, <3>2 DEF Starts, Attended, Working
    <3> QED BY <3>1, <3>2
  <2> QED BY <2>2 DEF Followed
<1>5. ASSUME NEW h \in Handlers, Takes(h) PROVE Followed'
  <2>1. handler[h].pc = "idle" /\ UNCHANGED <<request, task>>
    BY <1>0, <1>5, TakesEffect
  <2>2. ASSUME NEW r \in RequestIds, Attended(r) PROVE Attended(r)'
    <3>1. \A g \in Handlers : ~Working(g, r)
      BY <1>0, <1>2, <2>1 DEF Working, Answering, InTurns
    <3> QED BY <1>3, <2>1, <2>2, <3>1 DEF Attended
  <2> QED BY <2>1, <2>2 DEF Followed
<1>6. ASSUME NEW h \in Handlers, ReadsOn(h) PROVE Followed'
  <2>1. PICK me : me = handler[h]
    OBVIOUS
  <2>2. /\ UNCHANGED <<request, task>> /\ Answering(me) /\ me.todo = {}
        /\ \/ request[me.request].exists => OpenTasks(me.request) # {}
           \/ /\ handler'[h].request = me.request
              /\ handler'[h].pc \in {"request", "others", "advance"}
    BY <1>0, <1>6, <2>1, ReadsOnEffect
  <2>3. ASSUME NEW r \in RequestIds, request[r].exists, Attended(r) PROVE Attended(r)'
    <3>1. CASE OpenTasks(r) # {}
      BY <1>3, <2>2, <3>1 DEF Attended
    <3>2. CASE OpenTasks(r) = {}
      <4>1. Working(h, r)
        BY <1>0, <2>3, <3>2 DEF Attended, InTurns
      <4>2. me.request = r
        BY <2>1, <2>2, <4>1 DEF Working
      <4>3. Working(h, r)'
        BY <2>2, <2>3, <3>2, <4>2 DEF Working, Answering
      <4> QED BY <4>3 DEF Attended
    <3> QED BY <3>1, <3>2
  <2> QED BY <2>2, <2>3 DEF Followed
<1>7. ASSUME NEW h \in Handlers, NEW new, AnswerEffect(h, new) PROVE Followed'
  <2>1. PICK me, k : me = handler[h] /\ k = me.task
    OBVIOUS
  <2>2. /\ me.todo = {} /\ task[k].request = me.request
        /\ \A t \in TaskIds : t # k => task'[t] = task[t]
        /\ handler'[h].pc = "reread" /\ handler'[h].request = me.request /\ request' = request
    BY <1>7, <2>1 DEF AnswerEffect
  <2>3. ASSUME NEW r \in RequestIds, Attended(r) PROVE Attended(r)'
    <3>1. CASE r = me.request
      <4>1. Working(h, r)'
        BY <2>2, <3>1 DEF Working, Answering
      <4> QED BY <4>1 DEF Attended
    <3>2. CASE r # me.request
      <4>1. ~Working(h, r)
        BY <2>1, <2>2, <3>2 DEF Working
      <4>2. PICK t : t \in OpenTasks(r)
        BY <1>0, <2>3, <4>1 DEF Attended, InTurns
      <4>3. t \in OpenTasks(r)'
        BY <2>2, <3>2, <4>2 DEF OpenTasks, TasksOf, Exists
      <4> QED BY <4>3 DEF Attended
    <3> QED BY <3>1, <3>2
  <2> QED BY <2>2, <2>3 DEF Followed
<1>8. ASSUME NEW h \in Handlers, NEW me, NEW i, NEW new, NEW T, MoveEffect(h, me, i, new, T)
      PROVE  Followed'
  <2>1. PICK q : q = me.request
    OBVIOUS
  <2>2. /\ me = handler[h] /\ me.pc = "advance" /\ task' = task /\ handler'[h].todo = T
        /\ request'[q] = new /\ \A r \in RequestIds : r # q => request'[r] = request[r]
    BY <1>8, <2>1 DEF MoveEffect
  <2>3. ASSUME NEW r \in RequestIds, request'[r].exists, ~request'[r].is_close PROVE Attended(r)'
    <3>1. CASE r = q
      <4>1. T # {} /\ \A y \in T : y.request = q
        BY <1>8, <2>1, <2>2, <2>3, <3>1, MoveOpen
      <4>2. Working(h, r)'
        BY <2>2, <3>1, <4>1 DEF Working
      <4> QED BY <4>2 DEF Attended
    <3>2. CASE r # q
      <4>1. Attended(r)
        BY <2>2, <2>3, <3>2 DEF Followed
      <4>2. ~Working(h, r)
        BY <1>2, <2>1, <2>2, <3>2 DEF Working
      <4> QED BY <1>0, <1>3, <2>2, <4>1, <4>2 DEF Attended, InTurns
    <3> QED BY <3>1, <3>2
  <2> QED BY <2>3 DEF Followed
<1>9. ASSUME NEW h \in Handlers, NEW x \in handler[h].todo, ItemEffect(h, x) PROVE Followed'
  <2>1. handler[h].pc = "create" /\ Starts(h) /\ KeepsRest(h, x) /\ Leads(h, x)
    BY <1>2, <1>9 DEF ItemEffect
  <2>2. ASSUME NEW r \in RequestIds, request'[r].exists, ~request'[r].is_close PROVE Attended(r)'
    <3>1. CASE request'[r] # request[r]
      BY <2>1, <2>2, <3>1 DEF Starts, Attended, Working
    <3>2. CASE request'[r] = request[r]
      <4>1. Attended(r) /\ PassedAt(r)
        BY <2>2, <3>2 DEF Followed, Passed
      <4>2. CASE OpenTasks(r) # {}
        <5>1. PICK t : t \in OpenTasks(r)
          BY <4>2
        <5>2. task'[t] = task[t]
          BY <1>0, <1>9, <5>1, ItemAddsOpen DEF OpenTasks, TasksOf, Exists
        <5>3. t \in OpenTasks(r)'
          BY <5>1, <5>2 DEF OpenTasks, TasksOf, Exists
        <5> QED BY <5>3 DEF Attended
      <4>3. CASE OpenTasks(r) = {}
        <5>1. Working(h, r)
          BY <1>0, <4>1, <4>3 DEF Attended, InTurns
        <5>2. PICK z \in handler[h].todo : z.request = r
          BY <2>1, <5>1 DEF Working, Answering
        <5>3. CASE z # x
          BY <2>1, <5>2, <5>3 DEF KeepsRest, Attended, Working
        <5>4. CASE z = x
          <6>1. ShouldCreate(x)
            BY DEF NoChoice, ShouldCreate
          <6>2. Duplicates(x, handler[h].user) = {}
            BY <4>1, <5>2, <5>4 DEF PassedAt, Duplicates
          <6>3. CASE \E y \in handler'[h].todo : Follows(y, x, handler[h].user)
            BY <5>2, <5>4, <6>3 DEF Follows, Attended, Working
          <6>4. CASE /\ nextTask \in TaskIds /\ task'[nextTask].state = "pending"
                     /\ task'[nextTask].request = x.request
            <7>1. PICK t : t = nextTask
              OBVIOUS
            <7>2. t \in OpenTasks(r)'
              BY <5>2, <5>4, <6>4, <7>1 DEF OpenTasks, TasksOf, Exists, Open
            <7> QED BY <7>2 DEF Attended
          <6> QED BY <2>1, <6>1, <6>2, <6>3, <6>4 DEF Leads, PlainAnswers
        <5> QED BY <5>3, <5>4
      <4> QED BY <4>2, <4>3
    <3> QED BY <3>1, <3>2
  <2> QED BY <2>2 DEF Followed
<1> QED BY <1>0, <1>1, <1>4, <1>5, <1>6, <1>7, <1>8, <1>9, StepKinds

(* NeverStranded: when calls take turns and users answer plainly, an open   *)
(* request always has an open task, or a call at work on it.                *)
THEOREM NeverStrandedCorrect ==
    ASSUME Sequential, NoneBefore, Contiguous, PlainAnswers, Edits = {}
    PROVE  Spec => []NeverStranded
<1> DEFINE Inv == Steady /\ Rested /\ NoChoice /\ Passed /\ Followed
<1>1. Init => Inv
  <2> SUFFICES ASSUME Init PROVE NoChoice /\ Passed /\ Followed
    BY InitSteady, InitRested
  <2>1. \A t \in TaskIds : task[t].nexts = AllNexts /\ ~Exists(t)
    BY DEF Init, NoTask, Exists
  <2>2. \A h \in Handlers : handler[h].pc = "idle" /\ handler[h].todo = {}
    BY IdleType DEF Init
  <2>3. \A r \in RequestIds : ~request[r].exists
    BY DEF Init, NoRequest
  <2> QED BY <2>1, <2>2, <2>3 DEF NoChoice, Passed, PassedAt, TasksOf, Followed
<1>2. Inv /\ [Next]_vars => Inv'
  BY NoneBeforeFacts, NextSteady, NextRested, NextNoChoice, NextPassed, NextFollowed
<1>3. Inv => NeverStranded
  BY DEF Followed, Attended, Working, Answering, NeverStranded, Busy
<1> QED BY <1>1, <1>2, <1>3, PTL DEF Spec
=============================================================================
