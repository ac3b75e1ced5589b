------------------------ MODULE DelegationTurnProofs ------------------------
(***************************************************************************)
(* What the delegation of tasks keeps when certain calls wait until nobody *)
(* is at work, for every number of users, steps, tasks and calls.          *)
(*                                                                         *)
(* Shares follow their delegations as soon as the end of one waits; nobody *)
(* gets a step twice when every call waits, while the goroutines of each   *)
(* call still go side by side.                                             *)
(***************************************************************************)
EXTENDS DelegationProofs, SequenceTheorems

USE DEF RequestIds, TaskIds, DelegationIds

----------------------------------------------------------------------------
(***************************************************************************)
(* What the steps do to the rows of the calls and to their stacks.         *)
(***************************************************************************)

LEMMA OneRow ==
    ASSUME IInv, NEW h \in Handlers, NEW m, handler' = [handler EXCEPT ![h] = m]
    PROVE  \A g \in Handlers : handler'[g] = IF g = h THEN m ELSE handler[g]
BY DEF IInv, TypeOK

LEMMA TaskRows ==
    ASSUME IInv
    PROVE  /\ \A t \in TaskIds : task[t] \in TaskRow
           /\ \A d \in DelegationIds : delegation[d] \in DelegationRow
           /\ \A h \in Handlers : handler[h] \in HandlerRow /\ handler[h].todo \in Seq(Item)
BY DEF IInv, TypeOK, HandlerRow

(* A call that replaces the first thing to do.                              *)
LEMMA StackRow ==
    ASSUME IInv, NEW h \in Handlers, handler[h].pc = "create", NEW items \in Seq(Item),
           Replace(h, items)
    PROVE  \E m : /\ handler' = [handler EXCEPT ![h] = m]
                  /\ \/ m = Idle
                     \/ /\ m.pc = "create" /\ m.todo = items \o Tail(handler[h].todo)
                        /\ m.todo # <<>> /\ m.bound = handler[h].bound
<1>1. PICK m : m = Doing(handler[h], items \o Tail(handler[h].todo))  OBVIOUS
<1>2. handler' = [handler EXCEPT ![h] = m]  BY <1>1 DEF Replace, IInv, TypeOK
<1>3. handler[h] \in HandlerRow  BY TaskRows
<1>4. CASE items \o Tail(handler[h].todo) = <<>>
  <2>1. m = Idle  BY <1>1, <1>4 DEF Doing
  <2> QED  BY <1>2, <2>1
<1>5. CASE items \o Tail(handler[h].todo) # <<>>
  <2>1. m = [handler[h] EXCEPT !.pc = "create", !.todo = items \o Tail(handler[h].todo)]
    BY <1>1, <1>5 DEF Doing
  <2>2. /\ m.pc = "create" /\ m.todo = items \o Tail(handler[h].todo)
        /\ m.todo # <<>> /\ m.bound = handler[h].bound
    BY <1>3, <1>5, <2>1 DEF HandlerRow
  <2> QED  BY <1>2, <2>2
<1> QED  BY <1>4, <1>5

(* The stack of a call that is creating.                                    *)
LEMMA Stack ==
    ASSUME IInv, NEW h \in Handlers, handler[h].pc = "create"
    PROVE  /\ handler[h].todo \in Seq(Item) /\ handler[h].todo # <<>>
           /\ Head(handler[h].todo) \in Item /\ Tail(handler[h].todo) \in Seq(Item)
           /\ Head(handler[h].todo) \in GoodItem
<1>1. handler[h].todo \in Seq(Item)  BY TaskRows
<1>2. handler[h].todo # <<>>  BY DEF IInv, CallsGood, GoodHandler
<1>3. Head(handler[h].todo) \in GoodItem  BY FirstItem
<1> QED  BY <1>1, <1>2, <1>3

LEMMA CreateItem ==
    ASSUME NEW r \in RequestIds, NEW n \in Names, NEW u \in Users, NEW b \in 0 .. MaxTasks,
           NEW t \in 0 .. MaxTasks
    PROVE  /\ Create(r, n, u, b, t) \in Item
           /\ Create(r, n, u, b, t).kind = "create" /\ Create(r, n, u, b, t).request = r
           /\ Create(r, n, u, b, t).name = n /\ Create(r, n, u, b, t).user = u
           /\ Create(r, n, u, b, t).bound = b /\ Create(r, n, u, b, t).task = t
BY Sizes DEF Create, Item

LEMMA FindTaskEffect ==
    ASSUME IInv, NEW h \in Handlers, FindTask(h)
    PROVE  \E x, y, items :
              /\ x = Head(handler[h].todo) /\ x \in Item /\ x.kind = "create"
              /\ handler[h].pc = "create"
              /\ y = [x EXCEPT !.kind = "insert"] /\ y \in Item /\ y.kind = "insert"
              /\ \/ /\ items = <<>>
                    /\ \E t \in TasksOf(x.request) : task[t].name = x.name /\ task[t].user = x.user
                 \/ /\ items = <<y>>
                    /\ ~\E t \in TasksOf(x.request) : task[t].name = x.name /\ task[t].user = x.user
              /\ items \in Seq(Item) /\ Replace(h, items)
<1>1. PICK x : x = Head(handler[h].todo)  OBVIOUS
<1>2. handler[h].pc = "create" /\ x.kind = "create"  BY <1>1 DEF FindTask, Does
<1>3. x \in Item  BY <1>1, <1>2, Stack
<1>4. PICK y : y = [x EXCEPT !.kind = "insert"]  OBVIOUS
<1>5. y \in Item /\ y.kind = "insert"  BY <1>3, <1>4 DEF Item
<1>6. CASE \E t \in TasksOf(x.request) : task[t].name = x.name /\ task[t].user = x.user
  <2>1. Replace(h, <<>>)  BY <1>1, <1>6 DEF FindTask
  <2> QED  BY <1>1, <1>2, <1>3, <1>4, <1>5, <1>6, <2>1, None
<1>7. CASE ~\E t \in TasksOf(x.request) : task[t].name = x.name /\ task[t].user = x.user
  <2>1. Replace(h, <<y>>)  BY <1>1, <1>4, <1>7 DEF FindTask
  <2> QED  BY <1>1, <1>2, <1>3, <1>4, <1>5, <1>7, <2>1, One
<1> QED  BY <1>6, <1>7

(* A new row, which no task had.                                            *)
LEMMA AddedRow ==
    ASSUME IInv, NEW row, AddTask(row)
    PROVE  \E n \in TaskIds : /\ n = nextTask /\ ~Exists(n) /\ n \notin Made
                              /\ \A t \in TaskIds : task'[t] = IF t = n THEN row ELSE task[t]
<1>1. /\ task \in [TaskIds -> TaskRow] /\ nextTask \in TaskIds /\ nextTask \in Int
      /\ task' = [task EXCEPT ![nextTask] = row]
  BY TaskTable, Sizes DEF AddTask
<1>2. nextTask \notin Made  BY <1>1 DEF Made
<1>3. ~Exists(nextTask)  BY <1>1, <1>2, ExistsMade
<1> QED  BY <1>1, <1>2, <1>3

LEMMA InsertEffect ==
    ASSUME IInv, NEW h \in Handlers, InsertTask(h)
    PROVE  \E x, n, row, y, z, w, items :
              /\ x = Head(handler[h].todo) /\ x \in Item /\ x.kind = "insert"
              /\ handler[h].pc = "create"
              /\ n \in TaskIds /\ ~Exists(n) /\ n \notin Made
              /\ row = [state |-> "open", request |-> x.request, name |-> x.name,
                        user |-> x.user, bound |-> x.bound, entity |-> Entity[x.name]]
              /\ \A t \in TaskIds : task'[t] = IF t = n THEN row ELSE task[t]
              /\ y = [x EXCEPT !.kind = "owner", !.task = n] /\ y \in Item
              /\ z = [x EXCEPT !.kind = "delegates", !.task = n] /\ z \in Item
              /\ w = [x EXCEPT !.kind = "rebind", !.bound = n] /\ w \in Item
              /\ (x.task = 0 /\ items = <<y, z>>) \/ (x.task # 0 /\ items = <<y, z>> \o <<w>>)
              /\ items \in Seq(Item) /\ Replace(h, items)
<1>1. PICK x : x = Head(handler[h].todo)  OBVIOUS
<1>2. handler[h].pc = "create" /\ x.kind = "insert"  BY <1>1 DEF InsertTask, Does
<1>3. x \in Item  BY <1>1, <1>2, Stack
<1>4. PICK row : row = [state |-> "open", request |-> x.request, name |-> x.name,
                        user |-> x.user, bound |-> x.bound, entity |-> Entity[x.name]]
  OBVIOUS
<1>5. AddTask(row)  BY <1>1, <1>4 DEF InsertTask
<1>6. PICK n \in TaskIds : /\ n = nextTask /\ ~Exists(n) /\ n \notin Made
                           /\ \A t \in TaskIds : task'[t] = IF t = n THEN row ELSE task[t]
  BY <1>5, AddedRow
<1>7. PICK y : y = [x EXCEPT !.kind = "owner", !.task = n]  OBVIOUS
<1>8. PICK z : z = [x EXCEPT !.kind = "delegates", !.task = n]  OBVIOUS
<1>9. PICK w : w = [x EXCEPT !.kind = "rebind", !.bound = n]  OBVIOUS
<1>10. n \in 0 .. MaxTasks  BY Sizes
<1>11. y \in Item  BY <1>3, <1>7, <1>10 DEF Item
<1>12. z \in Item  BY <1>3, <1>8, <1>10 DEF Item
<1>13. w \in Item  BY <1>3, <1>9, <1>10 DEF Item
<1>14. PICK parent : parent = IF x.task = 0 THEN <<>> ELSE <<w>>  OBVIOUS
<1>15. Replace(h, <<y, z>> \o parent)
  BY <1>1, <1>6, <1>7, <1>8, <1>9, <1>14 DEF InsertTask
<1>16. CASE x.task = 0
  <2>1. <<y, z>> \o parent = <<y, z>>  BY <1>14, <1>16
  <2>2. Replace(h, <<y, z>>)  BY <1>15, <2>1
  <2>3. <<y, z>> \in Seq(Item)  BY <1>11, <1>12
  <2>4. PICK items : items = <<y, z>>  OBVIOUS
  <2>5. items \in Seq(Item) /\ Replace(h, items)  BY <2>2, <2>3, <2>4
  <2> QED
    BY <1>1, <1>2, <1>3, <1>4, <1>6, <1>7, <1>8, <1>9, <1>11, <1>12, <1>13, <1>16, <2>4, <2>5, ZenonT(40)
<1>17. CASE x.task # 0
  <2>0. parent = <<w>>  BY <1>14, <1>17
  <2>2. Replace(h, <<y, z>> \o <<w>>)  BY <1>15, <2>0
  <2>3. <<y, z>> \o <<w>> \in Seq(Item)  BY <1>11, <1>12, <1>13
  <2>4. PICK items : items = <<y, z>> \o <<w>>  OBVIOUS
  <2>5. items \in Seq(Item) /\ Replace(h, items)  BY <2>2, <2>3, <2>4
  <2> QED
    BY <1>1, <1>2, <1>3, <1>4, <1>6, <1>7, <1>8, <1>9, <1>11, <1>12, <1>13, <1>17, <2>4, <2>5, ZenonT(40)
<1> QED  BY <1>16, <1>17

LEMMA GiveOwnerEffect ==
    ASSUME IInv, NEW h \in Handlers, GiveOwner(h)
    PROVE  \E x, b, y, items :
              /\ x = Head(handler[h].todo) /\ x \in Item /\ x.kind = "owner"
              /\ handler[h].pc = "create"
              /\ b = handler[h].bound /\ b \in 0 .. MaxTasks
              /\ y = Create(x.request, x.name, task[b].user, 0, x.task)
              /\ \/ items = <<>> /\ (b = 0 \/ ~Exists(b))
                 \/ items = <<y>> /\ b # 0 /\ Exists(b) /\ y \in Item
              /\ items \in Seq(Item) /\ Replace(h, items)
<1>1. PICK x : x = Head(handler[h].todo)  OBVIOUS
<1>2. PICK b : b = handler[h].bound  OBVIOUS
<1>3. handler[h].pc = "create" /\ x.kind = "owner"  BY <1>1 DEF GiveOwner, Does
<1>4. x \in Item /\ b \in 0 .. MaxTasks  BY <1>1, <1>2, <1>3, Known
<1>5. PICK y : y = Create(x.request, x.name, task[b].user, 0, x.task)  OBVIOUS
<1>6. CASE b = 0 \/ ~Exists(b)
  <2>1. Replace(h, <<>>)  BY <1>2, <1>6 DEF GiveOwner
  <2> QED  BY <1>1, <1>2, <1>3, <1>4, <1>5, <1>6, <2>1, None
<1>7. CASE ~(b = 0 \/ ~Exists(b))
  <2>1. Replace(h, <<y>>)  BY <1>1, <1>2, <1>5, <1>7 DEF GiveOwner
  <2>2. b \in Made  BY <1>4, <1>7, Sizes, ExistsMade
  <2>3. task[b].user \in Users  BY <2>2 DEF IInv, RowsGood
  <2>4. y \in Item
    <3>1. PICK u \in Users : u = task[b].user  BY <2>3
    <3>2. x.request \in RequestIds /\ x.name \in Names /\ x.task \in 0 .. MaxTasks
          /\ 0 \in 0 .. MaxTasks
      BY <1>4, Sizes DEF Item
    <3>3. Create(x.request, x.name, u, 0, x.task) \in Item  BY <3>2, CreateItem
    <3> QED  BY <1>5, <3>1, <3>3
  <2> QED  BY <1>1, <1>2, <1>3, <1>4, <1>5, <1>7, <2>1, <2>4, One
<1> QED  BY <1>6, <1>7

(* What comes of a current delegation when task x.task has been created.    *)
FromDelegation(x, i) ==
    \E d \in MadeDelegations : /\ Current(d) /\ delegation[d].from = x.user
                               /\ \/ i = Create(x.request, x.name, delegation[d].to, x.task, 0)
                                 \/ i = [x EXCEPT !.kind = "share", !.delegation = d]

(* The copies and shares that one task is followed by.                      *)
LEMMA GiveDelegatesEffect ==
    ASSUME IInv, NEW h \in Handlers, GiveDelegates(h)
    PROVE  \E x, items :
              /\ x = Head(handler[h].todo) /\ x \in Item /\ x.kind = "delegates"
              /\ handler[h].pc = "create" /\ Of(x.task, x.request, x.name)
              /\ items \in Seq(Item) /\ Replace(h, items)
              /\ \A i \in 1 .. Len(items) : FromDelegation(x, items[i])
<1>1. PICK x : x = Head(handler[h].todo)  OBVIOUS
<1>2. handler[h].pc = "create" /\ x.kind = "delegates"
  BY <1>1 DEF GiveDelegates, Does
<1>3. x \in GoodItem /\ x \in Item  BY <1>1, <1>2, Stack
<1>4. PICK S : S = {d \in DelegationIds : /\ Current(d) /\ delegation[d].task = 0
                                          /\ delegation[d].from = x.user
                                          /\ delegation[d].to # handler[h].user}
  OBVIOUS
<1>5. S \subseteq MadeDelegations /\ S \subseteq DelegationIds
  BY <1>4, CurrentMade DEF Current
<1>6. IsFiniteSet(S)
  <2>1. IsFiniteSet(DelegationIds)  BY Sizes, FS_Interval
  <2> QED  BY <1>4, <2>1, FS_Subset
<1>7. PICK f \in SetToSeqs(S) : Replace(h, DelegateItems(x, f))
  BY <1>1, <1>4 DEF GiveDelegates
<1>8. f \in Seq(S)  BY <1>6, <1>7, Ordered
<1>9. PICK n \in Nat : n = Len(f)  BY <1>8
<1>10. DelegateItems(x, f) \in Seq(GoodItem)
  BY <1>2, <1>3, <1>5, <1>8, DelegateItemsGood
<1>11. Of(x.task, x.request, x.name)  BY <1>2, <1>3 DEF GoodItem
<1>12. PICK items : items = DelegateItems(x, f)  OBVIOUS
<1>13. items \in Seq(Item)  BY <1>10, <1>12 DEF GoodItem
<1>14. ASSUME NEW i \in 1 .. Len(items) PROVE FromDelegation(x, items[i])
  <2>1. items = [j \in 1 .. 2 * n |->
                    IF j % 2 = 1
                    THEN Create(x.request, x.name, delegation[f[(j + 1) \div 2]].to, x.task, 0)
                    ELSE [x EXCEPT !.kind = "share", !.delegation = f[(j + 1) \div 2]]]
    BY <1>9, <1>12 DEF DelegateItems
  <2>2. PICK k \in Nat : k = 2 * n  OBVIOUS
  <2>3. Len(items) = k
    <3>1. DOMAIN items = 1 .. k  BY <2>1, <2>2
    <3>2. DOMAIN items = 1 .. Len(items) /\ Len(items) \in Nat  BY <1>13
    <3> QED  BY <3>1, <3>2
  <2>4. i \in 1 .. 2 * n  BY <2>2, <2>3
  <2>5. (i + 1) \div 2 \in 1 .. n  BY <2>4
  <2>6. PICK d \in S : d = f[(i + 1) \div 2]  BY <1>8, <1>9, <2>5
  <2>7. \/ items[i] = Create(x.request, x.name, delegation[d].to, x.task, 0)
        \/ items[i] = [x EXCEPT !.kind = "share", !.delegation = d]
    BY <2>1, <2>4, <2>6
  <2>8. d \in MadeDelegations /\ Current(d) /\ delegation[d].from = x.user
    BY <1>4, <1>5, <2>6
  <2> QED  BY <2>7, <2>8 DEF FromDelegation
<1>15. Replace(h, items)  BY <1>7, <1>12
<1>17. /\ x = Head(handler[h].todo) /\ x \in Item /\ x.kind = "delegates"
       /\ handler[h].pc = "create" /\ Of(x.task, x.request, x.name)
       /\ items \in Seq(Item) /\ Replace(h, items)
  BY <1>1, <1>2, <1>3, <1>11, <1>13, <1>15
<1> QED  BY <1>14, <1>17

(* The first things to do of a request that has come to a step.             *)
LEMMA FirstItemsAre ==
    ASSUME IInv, NEW r \in RequestIds, NEW S \in SUBSET Names, NEW f \in SetToSeqs(S)
    PROVE  /\ FirstItems(r, f) \in Seq(Item)
           /\ \A i \in 1 .. Len(FirstItems(r, f)) :
                 \E a \in Names : FirstItems(r, f)[i] = Create(r, a, Assignee[a], 0, 0)
<1>1. f \in Seq(S)
  <2>1. IsFiniteSet(S)  BY StepAssumption, FS_Subset
  <2> QED  BY <2>1, Ordered
<1>2. DOMAIN f = 1 .. Len(f) /\ Len(f) \in Nat /\ \A i \in 1 .. Len(f) : f[i] \in Names  BY <1>1
<1>3. PICK n \in Nat : n = Len(f)  BY <1>2
<1>4. FirstItems(r, f) = [i \in 1 .. n |-> Create(r, f[i], Assignee[f[i]], 0, 0)]
  BY <1>2, <1>3 DEF FirstItems
<1>5. FirstItems(r, f) \in Seq(GoodItem)  BY FirstItemsGood
<1>6. FirstItems(r, f) \in Seq(Item)  BY <1>5 DEF GoodItem
<1>7. Len(FirstItems(r, f)) = n  BY <1>4
<1> QED  BY <1>2, <1>3, <1>4, <1>6, <1>7

LEMMA OpenEffect ==
    ASSUME IInv, NEW h \in Handlers, NEW u \in Users, NEW r \in RequestIds, OpenRequest(h, u, r)
    PROVE  \E m, items :
              /\ handler' = [handler EXCEPT ![h] = m] /\ handler[h].pc = "idle"
              /\ items \in Seq(Item)
              /\ \A i \in 1 .. Len(items) : \E a \in Names : items[i] = Create(r, a, Assignee[a], 0, 0)
              /\ m = Idle \/ (m.pc = "create" /\ m.todo = items /\ items # <<>> /\ m.bound = 0)
<1>1. handler[h].pc = "idle"  BY Accepted DEF OpenRequest
<1>2. PICK f \in SetToSeqs(StepsAt(1)) :
          handler' = [handler EXCEPT ![h] = Doing([Idle EXCEPT !.user = u], FirstItems(r, f))]
  BY DEF OpenRequest
<1>3. PICK items : items = FirstItems(r, f)  OBVIOUS
<1>4. /\ items \in Seq(Item)
      /\ \A i \in 1 .. Len(items) : \E a \in Names : items[i] = Create(r, a, Assignee[a], 0, 0)
  BY <1>3, FirstItemsAre DEF StepsAt
<1>5. PICK m : m = Doing([Idle EXCEPT !.user = u], items)  OBVIOUS
<1>6. m = Idle \/ (m.pc = "create" /\ m.todo = items /\ items # <<>> /\ m.bound = 0)
  BY <1>5 DEF Doing, Idle
<1> QED  BY <1>1, <1>2, <1>3, <1>4, <1>5, <1>6

LEMMA AdvanceEffect ==
    ASSUME IInv, NEW h \in Handlers, AdvanceRequest(h)
    PROVE  \E m, items, r :
              /\ handler' = [handler EXCEPT ![h] = m] /\ handler[h].pc = "advance"
              /\ items \in Seq(Item) /\ r \in RequestIds
              /\ \A i \in 1 .. Len(items) : \E a \in Names : items[i] = Create(r, a, Assignee[a], 0, 0)
              /\ m = Idle \/ (m.pc = "create" /\ m.todo = items /\ items # <<>>
                              /\ m.bound = handler[h].bound)
<1>1. PICK me : me = handler[h]  OBVIOUS
<1>2. me \in GoodHandler /\ me.pc = "advance" /\ me \in HandlerRow
  BY <1>1 DEF IInv, CallsGood, AdvanceRequest, GoodHandler
<1>3. PICK r : r = task[me.task].request  OBVIOUS
<1>4. r \in RequestIds  BY <1>2, <1>3 DEF GoodHandler, IInv, RowsGood
<1>5. PICK S : S = IF me.ended THEN {} ELSE StepsAt(me.at + 1)  OBVIOUS
<1>6. PICK f \in SetToSeqs(S) : handler' = [handler EXCEPT ![h] = Doing(me, FirstItems(r, f))]
  BY <1>1, <1>3, <1>5 DEF AdvanceRequest
<1>7. PICK items : items = FirstItems(r, f)  OBVIOUS
<1>8. S \subseteq Names  BY <1>5 DEF StepsAt
<1>9. /\ items \in Seq(Item)
      /\ \A i \in 1 .. Len(items) : \E a \in Names : items[i] = Create(r, a, Assignee[a], 0, 0)
  BY <1>4, <1>6, <1>7, <1>8, FirstItemsAre
<1>10. PICK m : m = Doing(me, items)  OBVIOUS
<1>11. m = Idle \/ (m.pc = "create" /\ m.todo = items /\ items # <<>> /\ m.bound = me.bound)
  BY <1>2, <1>10 DEF Doing, HandlerRow
<1>12. handler' = [handler EXCEPT ![h] = m] /\ handler[h].pc = "advance"  BY <1>1, <1>2, <1>6, <1>7, <1>10
<1>13. m = Idle \/ (m.pc = "create" /\ m.todo = items /\ items # <<>> /\ m.bound = handler[h].bound)
  BY <1>1, <1>11
<1> QED  BY <1>4, <1>9, <1>12, <1>13

(* A call's own steps that neither create nor end anything.                 *)
Plain(h) == UpdateTask(h) \/ RereadTask(h) \/ ReadRequest(h) \/ CheckOthers(h)

LEMMA PlainEffect ==
    ASSUME IInv, NEW h \in Handlers, Plain(h)
    PROVE  /\ \A g \in Handlers : g # h => handler'[g] = handler[g]
           /\ handler[h].pc \in {"update", "reread", "read", "others"}
           /\ handler'[h].pc \in {"idle", "reread", "read", "spread", "advance"}
           /\ UNCHANGED <<delegation, share, nextTask, copying>>
           /\ \A t \in TaskIds :
                 \/ task'[t] = task[t]
                 \/ Exists(t) /\ task'[t] = [task[t] EXCEPT !.state = "closed"]
<1>1. handler \in [Handlers -> HandlerRow] /\ task \in [TaskIds -> TaskRow]
  BY DEF IInv, TypeOK
<1>2. handler[h] \in HandlerRow  BY <1>1
<1>3. CASE UpdateTask(h)
  <2>1. handler' = [handler EXCEPT ![h].pc = "reread"] /\ handler[h].pc = "update"
    BY <1>3 DEF UpdateTask
  <2>2. PICK t : t = handler[h].task  OBVIOUS
  <2>3. task' = IF Exists(t) THEN [task EXCEPT ![t].state = "closed"] ELSE task
    BY <1>3, <2>2 DEF UpdateTask
  <2>4. \A s \in TaskIds : \/ task'[s] = task[s]
                           \/ Exists(s) /\ task'[s] = [task[s] EXCEPT !.state = "closed"]
    BY <1>1, <2>3
  <2> QED  BY <1>1, <1>2, <1>3, <2>1, <2>4 DEF UpdateTask, HandlerRow
<1>4. CASE RereadTask(h)
  <2>0. PICK b : b = task[handler[h].task].bound  OBVIOUS
  <2>1. PICK w : w = [handler[h] EXCEPT !.pc = "read", !.bound = b]  OBVIOUS
  <2>2. PICK m \in {Idle, w} : handler' = [handler EXCEPT ![h] = m]
    BY <1>4, <2>0, <2>1 DEF RereadTask
  <2>3. m.pc \in {"idle", "read"}
    <3>1. w.pc = "read"  BY <1>2, <2>1 DEF HandlerRow
    <3>2. Idle.pc = "idle"  BY DEF Idle
    <3> QED  BY <2>2, <3>1, <3>2
  <2> QED  BY <1>1, <1>4, <2>2, <2>3 DEF RereadTask
<1>5. CASE ReadRequest(h)
  <2>1. PICK a : a = place[task[handler[h].task].request]  OBVIOUS
  <2>0. PICK e : e = (request[task[handler[h].task].request].state = "ended")  OBVIOUS
  <2>2. handler' = [handler EXCEPT ![h] = [handler[h] EXCEPT !.pc = "spread", !.at = a, !.ended = e]]
    BY <1>1, <1>5, <2>0, <2>1 DEF ReadRequest
  <2> QED  BY <1>1, <1>2, <1>5, <2>2 DEF ReadRequest, HandlerRow
<1>6. CASE CheckOthers(h)
  <2>1. PICK w : w = [handler[h] EXCEPT !.pc = "advance"]  OBVIOUS
  <2>2. PICK m \in {Idle, w} : handler' = [handler EXCEPT ![h] = m]
    BY <1>6, <2>1 DEF CheckOthers
  <2>3. m.pc \in {"idle", "advance"}  BY <1>2, <2>1, <2>2 DEF Idle, HandlerRow
  <2> QED  BY <1>1, <1>6, <2>2, <2>3 DEF CheckOthers
<1> QED  BY <1>3, <1>4, <1>5, <1>6 DEF Plain

(* The goroutines of UpdateDelegated let a call go on, at most.             *)
LEMMA SpreadEffect ==
    ASSUME IInv, SpreadStep
    PROVE  /\ \A g \in Handlers : \/ handler'[g] = handler[g]
                                  \/ /\ handler[g].pc = "spread"
                                     /\ handler'[g] = [handler[g] EXCEPT !.pc = "others"]
           /\ UNCHANGED <<place, request, delegation, share, nextTask, nextDelegation, copying>>
<1>1. PICK p \in spreading : \/ FindAbove(p) \/ WriteAbove(p) \/ FindBelow(p)
                             \/ \E t \in p.rows : WriteBelow(p, t)
  BY DEF SpreadStep
<1>2. UNCHANGED <<place, request, delegation, share, nextTask, nextDelegation, copying>>
  BY <1>1 DEF FindAbove, WriteAbove, FindBelow, WriteBelow
<1>3. \/ handler' = handler
      \/ p.by # NoHandler /\ handler' = [handler EXCEPT ![p.by].pc = "others"]
  BY <1>1 DEF FindAbove, WriteAbove, FindBelow, WriteBelow, Becomes, Ends
<1>4. handler \in [Handlers -> HandlerRow]  BY DEF IInv, TypeOK
<1>5. p.by # NoHandler => handler[p.by].pc = "spread"  BY <1>1 DEF IInv, RunsGood
<1>6. CASE handler' = handler  BY <1>2, <1>6
<1>7. CASE p.by # NoHandler /\ handler' = [handler EXCEPT ![p.by].pc = "others"]
  <2>1. \A g \in Handlers : handler'[g] = IF g = p.by THEN [handler[g] EXCEPT !.pc = "others"]
                                          ELSE handler[g]
    BY <1>4, <1>7
  <2> QED  BY <1>2, <1>5, <1>7, <2>1
<1> QED  BY <1>3, <1>6, <1>7
----------------------------------------------------------------------------
(***************************************************************************)
(* Shares.  A share is added by a call or a goroutine that works for a     *)
(* delegation which is there: it cannot end before they are done, since    *)
(* the end waits until nobody is at work.  Between the end of a delegation *)
(* and the deletion of its shares stands one call.                         *)
(***************************************************************************)
Live(d) == d \in DelegationIds /\ delegation[d].exists
LiveItem == {x \in Item : x.kind \in {"share", "addShare"} => Live(x.delegation)}
Unsharing(d) == \E h \in Handlers : handler[h].pc = "unshare" /\ handler[h].delegation = d
Sound(m) == /\ m.pc = "trigger" => Live(m.delegation)
            /\ m.pc = "create" => m.todo \in Seq(LiveItem)
Sharing ==
    /\ \A s \in share : Live(s.delegation) \/ Unsharing(s.delegation)
    /\ \A c \in copying : Live(c.delegation)
    /\ \A h \in Handlers : Sound(handler[h])

LEMMA InitSharing == ASSUME Init PROVE Sharing
BY DEF Init, Sharing, Sound, Idle

LEMMA LiveGrows ==
    ASSUME \A d : Live(d) => Live(d)'
    PROVE  LiveItem \subseteq LiveItem' /\ Seq(LiveItem) \subseteq Seq(LiveItem')
<1>1. LiveItem \subseteq LiveItem'  BY DEF LiveItem
<1> QED  BY <1>1

(* A step that ends no delegation and no deletion of shares.                *)
LEMMA SharingKept ==
    ASSUME Sharing, \A d : Live(d) => Live(d)',
           \A s \in share' : s \in share \/ Live(s.delegation)',
           \A c \in copying' : c \in copying \/ Live(c.delegation)',
           \A g \in Handlers : \/ handler'[g] = handler[g]
                               \/ handler[g].pc # "unshare" /\ Sound(handler[g])'
    PROVE  Sharing'
<1>1. ASSUME NEW s \in share' PROVE Live(s.delegation)' \/ Unsharing(s.delegation)'
  <2>1. CASE Live(s.delegation)'  BY <2>1
  <2>2. CASE s \in share /\ ~Live(s.delegation)
    <3>1. PICK h \in Handlers : handler[h].pc = "unshare" /\ handler[h].delegation = s.delegation
      BY <2>2 DEF Sharing, Unsharing
    <3>2. handler'[h] = handler[h]  BY <3>1
    <3> QED  BY <3>1, <3>2 DEF Unsharing
  <2> QED  BY <2>1, <2>2
<1>2. \A c \in copying' : Live(c.delegation)'  BY DEF Sharing
<1>3. ASSUME NEW g \in Handlers PROVE Sound(handler[g])'
  <2>1. CASE handler'[g] = handler[g]
    <3>1. PICK m : m = handler[g]  OBVIOUS
    <3>2. Sound(m)  BY <3>1 DEF Sharing
    <3>3. Sound(m)'  BY <3>2, LiveGrows DEF Sound
    <3> QED  BY <2>1, <3>1, <3>3
  <2> QED  BY <2>1
<1> QED  BY <1>1, <1>2, <1>3 DEF Sharing

LEMMA SharingRow ==
    ASSUME IInv, Sharing, NEW h \in Handlers, NEW m, handler' = [handler EXCEPT ![h] = m],
           handler[h].pc # "unshare", Sound(m)', \A d : Live(d) => Live(d)',
           \A s \in share' : s \in share \/ Live(s.delegation)',
           \A c \in copying' : c \in copying \/ Live(c.delegation)'
    PROVE  Sharing'
<1>1. \A g \in Handlers : handler'[g] = IF g = h THEN m ELSE handler[g]  BY OneRow
<1>2. ASSUME NEW g \in Handlers
      PROVE  \/ handler'[g] = handler[g]
             \/ handler[g].pc # "unshare" /\ Sound(handler[g])'
  <2>1. CASE g = h
    <3>1. handler'[g] = m  BY <1>1, <2>1
    <3>2. Sound(handler[g])'  BY <3>1
    <3> QED  BY <2>1, <3>2
  <2>2. CASE g # h  BY <1>1, <2>2
  <2> QED  BY <2>1, <2>2
<1> QED  BY <1>2, SharingKept

LEMMA LiveStays == ASSUME UNCHANGED delegation PROVE \A d : Live(d) => Live(d)'
BY DEF Live

(* A call that replaces the first thing to do.                              *)
LEMMA SharingStack ==
    ASSUME IInv, Sharing, NEW h \in Handlers, handler[h].pc = "create",
           NEW items \in Seq(Item), Replace(h, items), \A i \in 1 .. Len(items) : items[i] \in LiveItem,
           UNCHANGED <<delegation, copying>>,
           \A s \in share' : s \in share \/ Live(s.delegation)
    PROVE  Sharing'
<1>1. PICK m : /\ handler' = [handler EXCEPT ![h] = m]
               /\ \/ m = Idle
                  \/ /\ m.pc = "create" /\ m.todo = items \o Tail(handler[h].todo)
                     /\ m.todo # <<>> /\ m.bound = handler[h].bound
  BY StackRow
<1>2. handler[h].todo \in Seq(LiveItem) /\ handler[h].todo # <<>>
  BY Stack DEF Sharing, Sound
<1>3. Tail(handler[h].todo) \in Seq(LiveItem)  BY <1>2
<1>4. items \in Seq(LiveItem)  OBVIOUS
<1>5. PICK T : T = items \o Tail(handler[h].todo)  OBVIOUS
<1>51. T \in Seq(LiveItem)  BY <1>3, <1>4, <1>5
<1>52. Idle.pc = "idle"  BY DEF Idle
<1>6. m.pc = "create" => m.todo \in Seq(LiveItem)  BY <1>1, <1>5, <1>51, <1>52
<1>7. m.pc # "trigger"  BY <1>1, <1>52
<1>8. LiveItem' = LiveItem  BY DEF LiveItem, Live
<1>9. Sound(m)'  BY <1>6, <1>7, <1>8 DEF Sound
<1>10. /\ \A s \in share' : s \in share \/ Live(s.delegation)'
       /\ \A c \in copying' : c \in copying \/ Live(c.delegation)'
  BY DEF Live
<1> QED  BY <1>1, <1>9, <1>10, LiveStays, SharingRow

LEMMA SharingFirst ==
    ASSUME IInv, Sharing, NEW h \in Handlers, NEW m, handler' = [handler EXCEPT ![h] = m],
           handler[h].pc \in {"idle", "advance"}, NEW items \in Seq(Item), NEW r,
           \A i \in 1 .. Len(items) : \E a \in Names : items[i] = Create(r, a, Assignee[a], 0, 0),
           m = Idle \/ (m.pc = "create" /\ m.todo = items),
           UNCHANGED <<delegation, share, copying>>
    PROVE  Sharing'
<1>1. ASSUME NEW i \in 1 .. Len(items) PROVE items[i] \in LiveItem
  <2>1. PICK x : x = items[i]  OBVIOUS
  <2>2. x \in Item  BY <2>1
  <2>3. PICK a \in Names : x = Create(r, a, Assignee[a], 0, 0)  BY <2>1
  <2>4. x.kind = "create"  BY <2>3 DEF Create
  <2> QED  BY <2>1, <2>2, <2>4 DEF LiveItem
<1>2. items \in Seq(LiveItem)
  <2>1. \A i \in 1 .. Len(items) : items[i] \in LiveItem  BY <1>1
  <2> QED  BY <2>1
<1>3. LiveItem' = LiveItem  BY DEF LiveItem, Live
<1>4. Sound(m)'  BY <1>2, <1>3 DEF Sound, Idle
<1> QED  BY <1>4, LiveStays, SharingRow

LEMMA AtMostOne ==
    ASSUME NEW S, NEW y \in S, NEW items, items = <<>> \/ items = <<y>>
    PROVE  items \in Seq(S) /\ \A i \in 1 .. Len(items) : items[i] \in S
<1>1. CASE items = <<>>  BY <1>1
<1>2. CASE items = <<y>>  BY <1>2
<1> QED  BY <1>1, <1>2

LEMMA TwoOrThree ==
    ASSUME NEW S, NEW y \in S, NEW z \in S, NEW w \in S, NEW items,
           items = <<y, z>> \/ items = <<y, z>> \o <<w>>
    PROVE  items \in Seq(S) /\ \A i \in 1 .. Len(items) : items[i] \in S
<1>1. <<y, z>> \in Seq(S) /\ <<w>> \in Seq(S)  OBVIOUS
<1>2. CASE items = <<y, z>>
  <2>1. items \in Seq(S)  BY <1>1, <1>2
  <2> QED  BY <2>1
<1>3. CASE items = <<y, z>> \o <<w>>
  <2>1. PICK a, b : a = <<y, z>> /\ b = <<w>>  OBVIOUS
  <2>2. a \in Seq(S) /\ b \in Seq(S) /\ items = a \o b  BY <1>1, <1>3, <2>1
  <2>3. items \in Seq(S)  BY <2>2
  <2> QED  BY <2>3
<1> QED  BY <1>2, <1>3

LEMMA SharingItems ==
    ASSUME IInv, Sharing, NEW h \in Handlers,
           \/ FindTask(h) \/ InsertTask(h) \/ InsertFails(h) \/ GiveOwner(h)
           \/ Rebind(h) \/ GiveDelegates(h) \/ FindShare(h) \/ AddShare(h)
    PROVE  Sharing'
<1>1. CASE FindTask(h)
  <2>1. PICK x, y, items :
              /\ handler[h].pc = "create" /\ y \in Item /\ y.kind = "insert"
              /\ items = <<>> \/ items = <<y>>
              /\ items \in Seq(Item) /\ Replace(h, items)
    BY <1>1, FindTaskEffect
  <2>2. y \in LiveItem  BY <2>1 DEF LiveItem
  <2>3. \A i \in 1 .. Len(items) : items[i] \in LiveItem
    <3>1. items = <<>> \/ items = <<y>>  BY <2>1
    <3> QED  BY <2>2, <3>1, AtMostOne
  <2> QED  BY <1>1, <2>1, <2>3, SharingStack DEF FindTask
<1>2. CASE InsertTask(h)
  <2>1. PICK x, n, row, y, z, w, items :
              /\ x = Head(handler[h].todo) /\ x \in Item /\ x.kind = "insert"
              /\ handler[h].pc = "create"
              /\ n \in TaskIds /\ ~Exists(n) /\ n \notin Made
              /\ row = [state |-> "open", request |-> x.request, name |-> x.name,
                        user |-> x.user, bound |-> x.bound, entity |-> Entity[x.name]]
              /\ \A t \in TaskIds : task'[t] = IF t = n THEN row ELSE task[t]
              /\ y = [x EXCEPT !.kind = "owner", !.task = n] /\ y \in Item
              /\ z = [x EXCEPT !.kind = "delegates", !.task = n] /\ z \in Item
              /\ w = [x EXCEPT !.kind = "rebind", !.bound = n] /\ w \in Item
              /\ (x.task = 0 /\ items = <<y, z>>) \/ (x.task # 0 /\ items = <<y, z>> \o <<w>>)
              /\ items \in Seq(Item) /\ Replace(h, items)
    BY <1>2, InsertEffect
  <2>20. y.kind = "owner" /\ z.kind = "delegates" /\ w.kind = "rebind"
    <3>1. /\ x \in Item /\ y = [x EXCEPT !.kind = "owner", !.task = n]
          /\ z = [x EXCEPT !.kind = "delegates", !.task = n]
          /\ w = [x EXCEPT !.kind = "rebind", !.bound = n]
      BY <2>1
    <3> QED  BY <3>1 DEF Item
  <2>2. y \in LiveItem /\ z \in LiveItem /\ w \in LiveItem  BY <2>1, <2>20 DEF LiveItem
  <2>3. \A i \in 1 .. Len(items) : items[i] \in LiveItem  BY <2>1, <2>2, TwoOrThree
  <2> QED  BY <1>2, <2>1, <2>3, SharingStack DEF InsertTask
<1>3. CASE InsertFails(h) \/ Rebind(h)
  <2>1. handler[h].pc = "create" /\ Replace(h, <<>>) /\ UNCHANGED <<delegation, copying, share>>
    BY <1>3 DEF InsertFails, Rebind, Does
  <2>2. <<>> \in Seq(Item) /\ \A i \in 1 .. Len(<<>>) : <<>>[i] \in LiveItem  OBVIOUS
  <2> QED  BY <2>1, <2>2, SharingStack
<1>4. CASE GiveOwner(h)
  <2>1. PICK x, b, y, items :
              /\ handler[h].pc = "create"
              /\ y = Create(x.request, x.name, task[b].user, 0, x.task)
              /\ items = <<>> \/ (items = <<y>> /\ y \in Item)
              /\ items \in Seq(Item) /\ Replace(h, items)
    BY <1>4, GiveOwnerEffect
  <2>2. y \in Item => y \in LiveItem  BY <2>1 DEF LiveItem, Create
  <2>3. \A i \in 1 .. Len(items) : items[i] \in LiveItem
    <3>1. CASE items = <<>>  BY <3>1
    <3>2. CASE items = <<y>> /\ y \in LiveItem  BY <3>2, AtMostOne
    <3> QED  BY <2>1, <2>2, <3>1, <3>2
  <2> QED  BY <1>4, <2>1, <2>3, SharingStack DEF GiveOwner
<1>5. CASE GiveDelegates(h)
  <2>1. PICK x, items :
              /\ handler[h].pc = "create" /\ x \in Item
              /\ items \in Seq(Item) /\ Replace(h, items)
              /\ \A i \in 1 .. Len(items) : FromDelegation(x, items[i])
    BY <1>5, GiveDelegatesEffect
  <2>2. ASSUME NEW i \in 1 .. Len(items) PROVE items[i] \in LiveItem
    <3>1. PICK d \in MadeDelegations :
             /\ Current(d)
             /\ \/ items[i] = Create(x.request, x.name, delegation[d].to, x.task, 0)
                \/ items[i] = [x EXCEPT !.kind = "share", !.delegation = d]
      BY <2>1 DEF FromDelegation
    <3>2. items[i] \in Item  BY <2>1
    <3>3. CASE items[i] = Create(x.request, x.name, delegation[d].to, x.task, 0)
      BY <3>2, <3>3 DEF LiveItem, Create
    <3>4. CASE items[i] = [x EXCEPT !.kind = "share", !.delegation = d]
      <4>1. items[i].delegation = d  BY <2>1, <3>4 DEF Item
      <4>2. Live(d)  BY <3>1 DEF Current, Live, MadeDelegations
      <4> QED  BY <3>2, <4>1, <4>2 DEF LiveItem
    <3> QED  BY <3>1, <3>3, <3>4
  <2> QED  BY <1>5, <2>1, <2>2, SharingStack DEF GiveDelegates
<1>6. CASE FindShare(h)
  <2>1. PICK x : x = Head(handler[h].todo)  OBVIOUS
  <2>2. handler[h].pc = "create" /\ x.kind = "share" /\ x \in Item
    BY <1>6, <2>1, Stack DEF FindShare, Does
  <2>3. x \in LiveItem
    <3>1. handler[h].todo \in Seq(LiveItem) /\ handler[h].todo # <<>>
      BY <2>2, Stack DEF Sharing, Sound
    <3> QED  BY <2>1, <3>1
  <2>4. PICK y : y = [x EXCEPT !.kind = "addShare"]  OBVIOUS
  <2>5. y \in Item /\ y \in LiveItem  BY <2>2, <2>3, <2>4 DEF Item, LiveItem
  <2>6. PICK items \in {<<>>, <<y>>} : Replace(h, items)  BY <1>6, <2>1, <2>4 DEF FindShare
  <2>7. items \in Seq(Item) /\ \A i \in 1 .. Len(items) : items[i] \in LiveItem
    BY <2>5, <2>6, AtMostOne
  <2> QED  BY <1>6, <2>2, <2>6, <2>7, SharingStack DEF FindShare
<1>7. CASE AddShare(h)
  <2>1. PICK x : x = Head(handler[h].todo)  OBVIOUS
  <2>2. handler[h].pc = "create" /\ x.kind = "addShare" /\ Replace(h, <<>>)
    BY <1>7, <2>1 DEF AddShare, Does
  <2>3. x \in LiveItem
    <3>1. handler[h].todo \in Seq(LiveItem) /\ handler[h].todo # <<>>
      BY <2>2, Stack DEF Sharing, Sound
    <3> QED  BY <2>1, <3>1
  <2>4. \A s \in share' : s \in share \/ Live(s.delegation)
    BY <1>7, <2>1, <2>2, <2>3 DEF AddShare, ShareOf, LiveItem
  <2>5. <<>> \in Seq(Item) /\ \A i \in 1 .. Len(<<>>) : <<>>[i] \in LiveItem  OBVIOUS
  <2> QED  BY <1>7, <2>2, <2>4, <2>5, SharingStack DEF AddShare
<1> QED  BY <1>1, <1>2, <1>3, <1>4, <1>5, <1>6, <1>7

LEMMA SharingSubmit ==
    ASSUME IInv, Sharing, NEW h \in Handlers, NEW u \in Users, NEW t \in TaskIds, SubmitTask(h, u, t)
    PROVE  Sharing'
<1>1. PICK m : m = [Idle EXCEPT !.pc = "update", !.user = u, !.task = t]  OBVIOUS
<1>2. handler' = [handler EXCEPT ![h] = m] /\ handler[h].pc = "idle"
  BY <1>1, Accepted DEF SubmitTask
<1>3. m.pc = "update"  BY <1>1 DEF Idle
<1>4. Sound(m)'  BY <1>3 DEF Sound
<1> QED  BY <1>2, <1>4, LiveStays, SharingRow DEF SubmitTask

LEMMA SharingOpen ==
    ASSUME IInv, Sharing, NEW h \in Handlers, NEW u \in Users, NEW r \in RequestIds,
           OpenRequest(h, u, r)
    PROVE  Sharing'
<1>1. PICK m, items :
         /\ handler' = [handler EXCEPT ![h] = m] /\ handler[h].pc = "idle"
         /\ items \in Seq(Item)
         /\ \A i \in 1 .. Len(items) : \E a \in Names : items[i] = Create(r, a, Assignee[a], 0, 0)
         /\ m = Idle \/ (m.pc = "create" /\ m.todo = items /\ items # <<>> /\ m.bound = 0)
  BY OpenEffect, ZenonT(40)
<1>2. m = Idle \/ (m.pc = "create" /\ m.todo = items)  BY <1>1
<1>3. UNCHANGED <<delegation, share, copying>>  BY DEF OpenRequest
<1>4. handler[h].pc \in {"idle", "advance"}  BY <1>1
<1>5. handler' = [handler EXCEPT ![h] = m] /\ items \in Seq(Item)  BY <1>1
<1>6. \A i \in 1 .. Len(items) : \E a \in Names : items[i] = Create(r, a, Assignee[a], 0, 0)
  BY <1>1
<1> QED  BY <1>2, <1>3, <1>4, <1>5, <1>6, SharingFirst

LEMMA SharingAdvance ==
    ASSUME IInv, Sharing, NEW h \in Handlers, AdvanceRequest(h)
    PROVE  Sharing'
<1>1. PICK m, items, r :
         /\ handler' = [handler EXCEPT ![h] = m] /\ handler[h].pc = "advance"
         /\ items \in Seq(Item) /\ r \in RequestIds
         /\ \A i \in 1 .. Len(items) : \E a \in Names : items[i] = Create(r, a, Assignee[a], 0, 0)
         /\ m = Idle \/ (m.pc = "create" /\ m.todo = items /\ items # <<>>
                         /\ m.bound = handler[h].bound)
  BY AdvanceEffect
<1>2. m = Idle \/ (m.pc = "create" /\ m.todo = items)  BY <1>1
<1>3. UNCHANGED <<delegation, share, copying>>  BY DEF AdvanceRequest
<1>4. handler[h].pc \in {"idle", "advance"}  BY <1>1
<1>5. handler' = [handler EXCEPT ![h] = m] /\ items \in Seq(Item)  BY <1>1
<1>6. \A i \in 1 .. Len(items) : \E a \in Names : items[i] = Create(r, a, Assignee[a], 0, 0)
  BY <1>1
<1> QED  BY <1>2, <1>3, <1>4, <1>5, <1>6, SharingFirst

(* What a call about delegation d starts with.                              *)
Triggering(u, d) == [Idle EXCEPT !.pc = "trigger", !.user = u, !.delegation = d]

LEMMA TriggersRow ==
    ASSUME NEW h \in Handlers, NEW u, NEW d, Triggers(h, u, d)
    PROVE  \E m : /\ handler' = [handler EXCEPT ![h] = m]
                  /\ m = Idle \/ m = Triggering(u, d)
<1>1. PICK w : w = delegation'[d].window  OBVIOUS
<1>2. PICK m : m = IF w = "current" THEN Triggering(u, d) ELSE Idle  OBVIOUS
<1>3. handler' = [handler EXCEPT ![h] = m]  BY <1>1, <1>2 DEF Triggers, Triggering
<1> QED  BY <1>2, <1>3

LEMMA SharingTriggers ==
    ASSUME IInv, Sharing, NEW h \in Handlers, NEW u, NEW d, Triggers(h, u, d), Live(d)',
           handler[h].pc = "idle", \A e : Live(e) => Live(e)', UNCHANGED <<share, copying>>
    PROVE  Sharing'
<1>1. PICK m : /\ handler' = [handler EXCEPT ![h] = m]
               /\ m = Idle \/ m = Triggering(u, d)
  BY TriggersRow
<1>2. PICK w : w = Triggering(u, d)  OBVIOUS
<1>3. w.pc = "trigger" /\ w.delegation = d /\ Idle.pc = "idle"  BY <1>2 DEF Triggering, Idle
<1>4. Sound(m)'  BY <1>1, <1>2, <1>3 DEF Sound
<1> QED  BY <1>1, <1>4, SharingRow

LEMMA CreatedDelegation ==
    ASSUME IInv, NEW h \in Handlers, NEW u \in Users, NEW v \in Users, NEW t,
           NEW w \in {"coming", "current"}, CreateDelegation(h, u, v, t, w)
    PROVE  \E d \in DelegationIds : \E row :
              /\ d = nextDelegation /\ ~delegation[d].exists /\ d \notin MadeDelegations
              /\ row = [exists |-> TRUE, window |-> w, from |-> u, to |-> v, task |-> t]
              /\ \A e \in DelegationIds : delegation'[e] = IF e = d THEN row ELSE delegation[e]
              /\ Triggers(h, u, d)
<1>1. PICK row : row = [exists |-> TRUE, window |-> w, from |-> u, to |-> v, task |-> t]  OBVIOUS
<1>2. PICK d : d = nextDelegation  OBVIOUS
<1>3. d \in DelegationIds /\ delegation' = [delegation EXCEPT ![d] = row]
  BY <1>1, <1>2, DelegationTable, Sizes DEF CreateDelegation
<1>4. \A e \in DelegationIds : delegation'[e] = IF e = d THEN row ELSE delegation[e]
  BY <1>3, DelegationTable
<1>5. d \notin MadeDelegations  BY <1>2, DelegationTable DEF MadeDelegations
<1>6. ~delegation[d].exists  BY <1>3, <1>5 DEF IInv, RowsGood, NoDelegation
<1>7. Triggers(h, u, d)  BY <1>2 DEF CreateDelegation
<1> QED  BY <1>1, <1>2, <1>3, <1>4, <1>5, <1>6, <1>7

LEMMA SharingCreate ==
    ASSUME IInv, Sharing, NEW h \in Handlers, NEW u \in Users, NEW v \in Users, NEW t,
           NEW w \in {"coming", "current"}, CreateDelegation(h, u, v, t, w)
    PROVE  Sharing'
<1>1. PICK d \in DelegationIds : \E row :
              /\ d = nextDelegation /\ ~delegation[d].exists /\ d \notin MadeDelegations
              /\ row = [exists |-> TRUE, window |-> w, from |-> u, to |-> v, task |-> t]
              /\ \A e \in DelegationIds : delegation'[e] = IF e = d THEN row ELSE delegation[e]
              /\ Triggers(h, u, d)
  BY CreatedDelegation
<1>2. PICK row : /\ row.exists
                 /\ \A e \in DelegationIds : delegation'[e] = IF e = d THEN row ELSE delegation[e]
  BY <1>1
<1>3. Live(d)' /\ \A e : Live(e) => Live(e)'  BY <1>2 DEF Live
<1>4. handler[h].pc = "idle"  BY Accepted DEF CreateDelegation
<1> QED  BY <1>1, <1>3, <1>4, SharingTriggers DEF CreateDelegation

LEMMA SharingUpdate ==
    ASSUME IInv, Sharing, NEW h \in Handlers, NEW u \in Users, NEW d \in DelegationIds,
           UpdateDelegation(h, u, d)
    PROVE  Sharing'
<1>1. Live(d)' /\ \A e : Live(e) => Live(e)'  BY DEF Live, UpdateDelegation
<1>2. handler[h].pc = "idle"  BY Accepted DEF UpdateDelegation
<1> QED  BY <1>1, <1>2, SharingTriggers DEF UpdateDelegation

LEMMA SharingTriggerDaily ==
    ASSUME IInv, Sharing, NEW h \in Handlers, NEW d \in DelegationIds, TriggerDaily(h, d)
    PROVE  Sharing'
<1>1. PICK m : m = [Idle EXCEPT !.pc = "trigger", !.delegation = d]  OBVIOUS
<1>2. handler' = [handler EXCEPT ![h] = m] /\ handler[h].pc = "idle"
  BY <1>1, Accepted DEF TriggerDaily
<1>3. m.pc = "trigger" /\ m.delegation = d  BY <1>1 DEF Idle
<1>4. Live(d)'  BY DEF TriggerDaily, Current, Live
<1>5. Sound(m)'  BY <1>3, <1>4 DEF Sound
<1> QED  BY <1>2, <1>5, LiveStays, SharingRow DEF TriggerDaily

LEMMA SharingTrigger ==
    ASSUME IInv, Sharing, NEW h \in Handlers, Trigger(h)
    PROVE  Sharing'
<1>1. PICK d : d = handler[h].delegation  OBVIOUS
<1>2. handler[h].pc = "trigger" /\ Live(d)  BY <1>1 DEF Trigger, Sharing, Sound
<1>3. PICK rows : copying' = copying \cup {[delegation |-> d, task |-> t, pc |-> "share"] : t \in rows}
  BY <1>1, ZenonT(40) DEF Trigger
<1>4. \A c \in copying' : c \in copying \/ Live(c.delegation)'
  BY <1>2, <1>3 DEF Trigger, Live
<1>5. handler' = [handler EXCEPT ![h] = Idle]  BY DEF Trigger
<1>6. Sound(Idle)'  BY DEF Sound, Idle
<1> QED  BY <1>2, <1>4, <1>5, <1>6, LiveStays, SharingRow DEF Trigger

(* The end of a delegation: nobody is at work, so it ends for nobody else.  *)
LEMMA SharingDeletes ==
    ASSUME IInv, Sharing, "end" \in Alone, NEW h \in Handlers, NEW u, NEW d \in DelegationIds,
           DeletesRow(h, u, d)
    PROVE  Sharing'
<1>1. AtRest /\ handler[h].pc = "idle"  BY DEF DeletesRow, Accept
<1>2. PICK m : m = [Idle EXCEPT !.pc = "unshare", !.user = u, !.delegation = d]  OBVIOUS
<1>3. m.pc = "unshare" /\ m.delegation = d  BY <1>2 DEF Idle
<1>40. handler' = [handler EXCEPT ![h] = m]  BY <1>2 DEF DeletesRow
<1>4. \A g \in Handlers : handler'[g] = IF g = h THEN m ELSE handler[g]  BY <1>40, OneRow
<1>5. delegation' = [delegation EXCEPT ![d].exists = FALSE]  BY DEF DeletesRow
<1>6. \A e \in DelegationIds : e # d => delegation'[e] = delegation[e]
  BY <1>5, DelegationTable
<1>7. ASSUME NEW s \in share' PROVE Live(s.delegation)' \/ Unsharing(s.delegation)'
  <2>1. Live(s.delegation) \/ Unsharing(s.delegation)  BY DEF Sharing, DeletesRow
  <2>2. Live(s.delegation)  BY <1>1, <2>1 DEF Unsharing, AtRest
  <2>3. CASE s.delegation = d
    <3>1. handler'[h].pc = "unshare" /\ handler'[h].delegation = s.delegation
      BY <1>3, <1>4, <2>3
    <3> QED  BY <3>1 DEF Unsharing
  <2>4. CASE s.delegation # d  BY <1>6, <2>2, <2>4 DEF Live
  <2> QED  BY <2>3, <2>4
<1>8. copying' = {}  BY <1>1 DEF DeletesRow, AtRest
<1>9. ASSUME NEW g \in Handlers PROVE Sound(handler[g])'
  <2>1. handler'[g].pc \in {"idle", "unshare"}  BY <1>1, <1>3, <1>4 DEF AtRest
  <2> QED  BY <2>1 DEF Sound
<1> QED  BY <1>7, <1>8, <1>9 DEF Sharing

LEMMA SharingDeleteShares ==
    ASSUME IInv, Sharing, NEW h \in Handlers, DeleteShares(h)
    PROVE  Sharing'
<1>1. PICK d : d = handler[h].delegation  OBVIOUS
<1>2. share' = share \ SharesOf(d)  BY <1>1 DEF DeleteShares
<1>3. handler[h].pc = "unshare"  BY DEF DeleteShares
<1>4. PICK m : m = [handler[h] EXCEPT !.pc = "rivals"]  OBVIOUS
<1>5. handler' = [handler EXCEPT ![h] = m]  BY <1>4 DEF DeleteShares, IInv, TypeOK
<1>6. m.pc = "rivals"  BY <1>4, TaskRows DEF HandlerRow
<1>7. \A g \in Handlers : handler'[g] = IF g = h THEN m ELSE handler[g]  BY <1>5, OneRow
<1>8. ASSUME NEW s \in share' PROVE Live(s.delegation)' \/ Unsharing(s.delegation)'
  <2>1. s \in share /\ s.delegation # d  BY <1>2 DEF SharesOf
  <2>2. CASE Live(s.delegation)  BY <2>2 DEF Live, DeleteShares
  <2>3. CASE Unsharing(s.delegation)
    <3>1. PICK g \in Handlers : handler[g].pc = "unshare" /\ handler[g].delegation = s.delegation
      BY <2>3 DEF Unsharing
    <3>2. g # h  BY <1>1, <2>1, <3>1
    <3>3. handler'[g] = handler[g]  BY <1>7, <3>2
    <3> QED  BY <3>1, <3>3 DEF Unsharing
  <2> QED  BY <2>1, <2>2, <2>3 DEF Sharing
<1>9. \A c \in copying' : Live(c.delegation)'  BY DEF DeleteShares, Live, Sharing
<1>10. ASSUME NEW g \in Handlers PROVE Sound(handler[g])'
  <2>1. CASE g = h
    <3>1. handler'[g].pc = "rivals"  BY <1>6, <1>7, <2>1
    <3> QED  BY <3>1 DEF Sound
  <2>2. CASE g # h
    <3>1. PICK a : a = handler[g]  OBVIOUS
    <3>2. Sound(a)  BY <3>1 DEF Sharing
    <3>3. Sound(a)'  BY <3>2 DEF Sound, Live, LiveItem, DeleteShares
    <3>4. handler'[g] = a  BY <1>7, <2>2, <3>1
    <3> QED  BY <3>3, <3>4
  <2> QED  BY <2>1, <2>2
<1> QED  BY <1>8, <1>9, <1>10 DEF Sharing

(* The rest of the end, the plain steps of a call, and the goroutines.      *)
LEMMA SharingEnds ==
    ASSUME IInv, Sharing, NEW h \in Handlers, FindRivals(h) \/ WithdrawCopies(h)
    PROVE  Sharing'
<1>1. CASE FindRivals(h)
  <2>1. PICK w : w = [handler[h] EXCEPT !.pc = "withdraw"]  OBVIOUS
  <2>2. PICK m \in {Idle, w} : handler' = [handler EXCEPT ![h] = m]
    BY <1>1, <2>1 DEF FindRivals
  <2>3. w.pc = "withdraw" /\ Idle.pc = "idle"  BY <2>1, TaskRows DEF HandlerRow, Idle
  <2>4. Sound(m)'  BY <2>2, <2>3 DEF Sound
  <2>5. handler[h].pc # "unshare"  BY <1>1 DEF FindRivals
  <2> QED  BY <1>1, <2>2, <2>4, <2>5, LiveStays, SharingRow DEF FindRivals
<1>2. CASE WithdrawCopies(h)
  <2>1. handler' = [handler EXCEPT ![h] = Idle]  BY <1>2 DEF WithdrawCopies
  <2>2. Sound(Idle)'  BY DEF Sound, Idle
  <2>3. handler[h].pc # "unshare"  BY <1>2 DEF WithdrawCopies
  <2> QED  BY <1>2, <2>1, <2>2, <2>3, LiveStays, SharingRow DEF WithdrawCopies
<1> QED  BY <1>1, <1>2

LEMMA SharingPlain ==
    ASSUME IInv, Sharing, NEW h \in Handlers, Plain(h)
    PROVE  Sharing'
<1>1. /\ \A g \in Handlers : g # h => handler'[g] = handler[g]
      /\ handler[h].pc \in {"update", "reread", "read", "others"}
      /\ handler'[h].pc \in {"idle", "reread", "read", "spread", "advance"}
      /\ UNCHANGED <<delegation, share, nextTask, copying>>
  BY PlainEffect
<1>2. ASSUME NEW g \in Handlers
      PROVE  \/ handler'[g] = handler[g]
             \/ handler[g].pc # "unshare" /\ Sound(handler[g])'
  BY <1>1 DEF Sound
<1> QED  BY <1>1, <1>2, LiveStays, SharingKept

LEMMA SharingSpread ==
    ASSUME IInv, Sharing, SpreadStep
    PROVE  Sharing'
<1>1. /\ \A g \in Handlers : \/ handler'[g] = handler[g]
                             \/ /\ handler[g].pc = "spread"
                                /\ handler'[g] = [handler[g] EXCEPT !.pc = "others"]
      /\ UNCHANGED <<place, request, delegation, share, nextTask, nextDelegation, copying>>
  BY SpreadEffect
<1>2. ASSUME NEW g \in Handlers
      PROVE  \/ handler'[g] = handler[g]
             \/ handler[g].pc # "unshare" /\ Sound(handler[g])'
  <2>1. CASE handler'[g] = handler[g]  BY <2>1
  <2>2. CASE handler[g].pc = "spread" /\ handler'[g] = [handler[g] EXCEPT !.pc = "others"]
    <3>1. handler'[g].pc = "others"  BY <2>2, TaskRows DEF HandlerRow
    <3> QED  BY <2>2, <3>1 DEF Sound
  <2> QED  BY <1>1, <2>1, <2>2
<1> QED  BY <1>1, <1>2, LiveStays, SharingKept

LEMMA SharingCopy ==
    ASSUME IInv, Sharing, CopyStep
    PROVE  Sharing'
<1>1. PICK c \in copying : FindCopyShare(c) \/ AddCopyShare(c) \/ FindCopy(c) \/ AddCopy(c)
  BY DEF CopyStep
<1>2. c \in Copy /\ Live(c.delegation)  BY DEF IInv, TypeOK, Sharing
<1>3. UNCHANGED <<handler, delegation>>
  BY <1>1 DEF FindCopyShare, AddCopyShare, FindCopy, AddCopy
<1>4. ASSUME NEW e \in copying' PROVE e \in copying \/ Live(e.delegation)'
  <2>1. copying' = copying \ {c} \/ \E pc : copying' = (copying \ {c}) \cup {[c EXCEPT !.pc = pc]}
    BY <1>1 DEF FindCopyShare, AddCopyShare, FindCopy, AddCopy, Goes
  <2>2. \A pc : [c EXCEPT !.pc = pc].delegation = c.delegation  BY <1>2 DEF Copy
  <2> QED  BY <1>2, <1>3, <2>1, <2>2 DEF Live
<1>5. ASSUME NEW s \in share' PROVE s \in share \/ Live(s.delegation)'
  <2>1. share' = share \/ share' = share \cup {ShareOf(c.delegation, task[c.task].request)}
    BY <1>1 DEF FindCopyShare, AddCopyShare, FindCopy, AddCopy
  <2>2. ShareOf(c.delegation, task[c.task].request).delegation = c.delegation  BY DEF ShareOf
  <2> QED  BY <1>2, <1>3, <2>1, <2>2 DEF Live
<1> QED  BY <1>3, <1>4, <1>5, LiveStays, SharingKept

LEMMA SharingToday ==
    ASSUME IInv, Sharing, NEW d \in DelegationIds, NEW w, Today(d, w)
    PROVE  Sharing'
<1>1. delegation' = [delegation EXCEPT ![d].window = w]  BY DEF Today
<1>2. \A e \in DelegationIds : delegation'[e].exists = delegation[e].exists
  BY <1>1, DelegationTable, TaskRows DEF DelegationRow
<1>3. \A e : Live(e) => Live(e)'  BY <1>2 DEF Live
<1> QED  BY <1>3, SharingKept DEF Today

LEMMA NextSharing ==
    ASSUME IInv, Sharing, "end" \in Alone, [Next]_vars
    PROVE  Sharing'
<1>1. ASSUME NEW h \in Handlers, Call(h) PROVE Sharing'
  BY <1>1, SharingOpen, SharingSubmit, SharingCreate, SharingUpdate, SharingDeletes,
     SharingTriggerDaily DEF Call, DeleteDelegation, ExpireDaily
<1>2. ASSUME NEW h \in Handlers, Proceed(h) PROVE Sharing'
  BY <1>2, SharingItems, SharingPlain, SharingAdvance, SharingTrigger, SharingDeleteShares,
     SharingEnds DEF Proceed, Plain
<1>3. CASE UNCHANGED vars
  BY <1>3, LiveStays, SharingKept DEF vars
<1> QED  BY <1>1, <1>2, <1>3, SharingSpread, SharingCopy, SharingToday DEF Next

(* No share outlives its delegation (delegation_service.go:168-171),        *)
(* however many calls and goroutines overlap, INSERTs and UPDATEs are       *)
(* refused and the daily loop runs, as long as delegations are ended when   *)
(* nobody is at work.  What else is at work could add a share of the        *)
(* delegation after its shares have been deleted.                           *)
THEOREM SharesCorrect ==
    ASSUME "end" \in Alone
    PROVE  Spec => []SharesFollow
<1>1. Init => IInv /\ Sharing  BY Starts, InitSharing
<1>2. IInv /\ Sharing /\ [Next]_vars => (IInv /\ Sharing)'  BY Keeps, NextSharing
<1>3. IInv /\ Sharing => SharesFollow
  BY DEF Sharing, SharesFollow, AtRest, Live, Unsharing
<1> QED  BY <1>1, <1>2, <1>3, PTL DEF Spec

----------------------------------------------------------------------------
(***************************************************************************)
(* One task for a step.  When every call waits, one call is at work at a   *)
(* time, and its goroutines only after it has answered.  Whether the user  *)
(* has the task already is read in one statement and the task is inserted  *)
(* in the next: what was read must stay true in between.  It does for a    *)
(* call, which is alone, and for the goroutines of Trigger, which go side  *)
(* by side, because no two of them copy the same step.  The property is    *)
(* about open tasks; the invariant is about all there are, because a       *)
(* closed task counts for the search and its row can be opened again.      *)
(***************************************************************************)
Busy(h) == handler[h].pc # "idle"
Turnwise ==
    /\ \A h, g \in Handlers : Busy(h) /\ Busy(g) => h = g
    /\ copying # {} => \A h \in Handlers : ~Busy(h)

Held(r, n, u) == \E t \in TasksOf(r) : task[t].name = n /\ task[t].user = u
Alike(t, s) == task[t].request = task[s].request /\ task[t].name = task[s].name
(* Trigger copies the tasks that several users have of a step given to an   *)
(* entity, each in a goroutine, so that a delegate may get such a step      *)
(* twice.                                                                   *)
Sole(n) == Entity[n] = NoEntity
Twins(t, s) == t = s \/ (Alike(t, s) /\ Sole(task[t].name))
Unique == \A t, s \in TaskIds :
             Exists(t) /\ Exists(s) /\ Twins(t, s) /\ task[t].user = task[s].user => t = s
Loose == {x \in Item : x.kind # "insert"}
Ready(m) ==
    m.pc = "create" =>
        /\ m.todo \in Seq(Item) /\ m.todo # <<>> /\ Tail(m.todo) \in Seq(Loose)
        /\ LET x == Head(m.todo) IN x.kind = "insert" => ~Held(x.request, x.name, x.user)
Fresh(c) == c.pc = "add" /\ Sole(task[c.task].name) =>
               ~Held(task[c.task].request, task[c.task].name, delegation[c.delegation].to)
Single ==
    /\ Unique
    /\ \A h \in Handlers : Ready(handler[h])
    /\ \A c \in copying : Fresh(c)
    /\ \A c, e \in copying : Twins(c.task, e.task) => c = e

LEMMA InitSingle == ASSUME Init PROVE Turnwise /\ Single
<1>1. \A t \in TaskIds : ~Exists(t)  BY DEF Init, Exists, NoTask
<1>2. \A h \in Handlers : handler[h].pc = "idle"  BY DEF Init, Idle
<1>3. copying = {}  BY DEF Init
<1> QED  BY <1>1, <1>2, <1>3 DEF Turnwise, Busy, Single, Unique, Ready

(* A step that inserts no task, and leaves request, step and user alone.    *)
Thin == \A t \in TaskIds : /\ task'[t].request = task[t].request /\ task'[t].name = task[t].name
                           /\ task'[t].user = task[t].user /\ (task'[t].state # "none" => Exists(t))

LEMMA ThinKept ==
    ASSUME Thin
    PROVE  /\ Unique => Unique'
           /\ \A r, n, u : Held(r, n, u)' => Held(r, n, u)
<1>1. ASSUME Unique PROVE Unique'
  BY <1>1 DEF Unique, Thin, Exists, Alike, Twins
<1>2. ASSUME NEW r, NEW n, NEW u, Held(r, n, u)' PROVE Held(r, n, u)
  <2>1. PICK t \in TaskIds : Exists(t)' /\ task'[t].request = r /\ task'[t].name = n /\ task'[t].user = u
    BY <1>2 DEF Held, TasksOf
  <2>2. Exists(t) /\ task[t].request = r /\ task[t].name = n /\ task[t].user = u
    BY <2>1 DEF Thin, Exists
  <2> QED  BY <2>2 DEF Held, TasksOf
<1> QED  BY <1>1, <1>2

(* Nobody else is at work.                                                  *)
LEMMA OthersIdle ==
    ASSUME Turnwise, NEW h \in Handlers, AtRest \/ Busy(h)
    PROVE  copying = {} /\ \A g \in Handlers : g # h => ~Busy(g)
BY DEF Turnwise, AtRest, Busy

LEMMA TurnRow ==
    ASSUME IInv, Turnwise, NEW h \in Handlers, NEW m, handler' = [handler EXCEPT ![h] = m],
           AtRest \/ Busy(h), UNCHANGED copying
    PROVE  Turnwise'
<1>1. \A g \in Handlers : handler'[g] = IF g = h THEN m ELSE handler[g]  BY OneRow
<1>2. copying = {} /\ \A g \in Handlers : g # h => ~Busy(g)  BY OthersIdle
<1>3. \A g \in Handlers : g # h => ~Busy(g)'  BY <1>1, <1>2 DEF Busy
<1> QED  BY <1>2, <1>3 DEF Turnwise

LEMMA SingleRow ==
    ASSUME IInv, Turnwise, Single, NEW h \in Handlers, NEW m, handler' = [handler EXCEPT ![h] = m],
           AtRest \/ Busy(h), UNCHANGED copying, Unique', Ready(m)'
    PROVE  Single'
<1>1. \A g \in Handlers : handler'[g] = IF g = h THEN m ELSE handler[g]  BY OneRow
<1>2. copying' = {} /\ \A g \in Handlers : g # h => ~Busy(g)  BY OthersIdle
<1>3. ASSUME NEW g \in Handlers PROVE Ready(handler[g])'
  <2>1. CASE g = h
    <3>1. handler'[g] = m  BY <1>1, <2>1
    <3> QED  BY <3>1
  <2>2. CASE g # h
    <3>1. handler'[g].pc = "idle"  BY <1>1, <1>2, <2>2 DEF Busy
    <3> QED  BY <3>1 DEF Ready
  <2> QED  BY <2>1, <2>2
<1> QED  BY <1>2, <1>3 DEF Single

(* A call that is not creating then.                                        *)
LEMMA SinglePlain ==
    ASSUME IInv, Turnwise, Single, NEW h \in Handlers, NEW m, handler' = [handler EXCEPT ![h] = m],
           AtRest \/ Busy(h), UNCHANGED copying, Thin, m.pc # "create"
    PROVE  Turnwise' /\ Single'
<1>1. Unique'  BY ThinKept DEF Single
<1>2. Ready(m)'  BY DEF Ready
<1> QED  BY <1>1, <1>2, TurnRow, SingleRow

LEMMA SameThin == ASSUME UNCHANGED task PROVE Thin
BY DEF Thin, Exists

(* A call that replaces the first thing to do, by what is not an INSERT or  *)
(* by an INSERT of a task that nobody has.                                  *)
LEMMA SingleStack ==
    ASSUME IInv, Turnwise, Single, NEW h \in Handlers, handler[h].pc = "create",
           NEW items \in Seq(Item), Replace(h, items), UNCHANGED copying, Unique',
           \/ items \in Seq(Loose)
           \/ \E y \in Item : items = <<y>> /\ ~Held(y.request, y.name, y.user)'
    PROVE  Turnwise' /\ Single'
<1>1. PICK m : /\ handler' = [handler EXCEPT ![h] = m]
               /\ \/ m = Idle
                  \/ /\ m.pc = "create" /\ m.todo = items \o Tail(handler[h].todo)
                     /\ m.todo # <<>> /\ m.bound = handler[h].bound
  BY StackRow
<1>2. PICK tail : tail = Tail(handler[h].todo)  OBVIOUS
<1>3. tail \in Seq(Loose) /\ tail \in Seq(Item)  BY <1>2, Stack DEF Single, Ready
<1>4. PICK T : T = items \o tail  OBVIOUS
<1>5. Loose' = Loose  BY DEF Loose
<1>6. CASE m = Idle
  <2>1. m.pc = "idle"  BY <1>6 DEF Idle
  <2>2. Ready(m)'  BY <2>1 DEF Ready
  <2> QED  BY <1>1, <2>2, TurnRow, SingleRow DEF Busy
<1>7. CASE m.pc = "create" /\ m.todo = T /\ T # <<>>
  <2>1. T \in Seq(Item)  BY <1>3, <1>4
  <2>2. /\ Tail(T) \in Seq(Loose)
        /\ Head(T).kind = "insert" => ~Held(Head(T).request, Head(T).name, Head(T).user)'
    <3>1. CASE items \in Seq(Loose)
      <4>1. T \in Seq(Loose)  BY <1>3, <1>4, <3>1
      <4>2. Tail(T) \in Seq(Loose) /\ Head(T) \in Loose  BY <1>7, <4>1
      <4> QED  BY <4>2 DEF Loose
    <3>2. CASE \E y \in Item : items = <<y>> /\ ~Held(y.request, y.name, y.user)'
      <4>1. PICK y \in Item : items = <<y>> /\ ~Held(y.request, y.name, y.user)'  BY <3>2
      <4>2. T = <<y>> \o tail  BY <1>4, <4>1
      <4>3. Head(T) = y /\ Tail(T) = tail  BY <1>3, <4>2
      <4> QED  BY <1>3, <4>1, <4>3
    <3> QED  BY <3>1, <3>2
  <2>3. PICK x : x = Head(T)  OBVIOUS
  <2>4. x.kind = "insert" => ~Held(x.request, x.name, x.user)'  BY <2>2, <2>3
  <2>5. Ready(m)'  BY <1>5, <1>7, <2>1, <2>2, <2>3, <2>4 DEF Ready
  <2> QED  BY <1>1, <2>5, TurnRow, SingleRow DEF Busy
<1> QED  BY <1>1, <1>2, <1>4, <1>6, <1>7

LEMMA SingleItems ==
    ASSUME IInv, Turnwise, Single, NEW h \in Handlers,
           FindTask(h) \/ InsertFails(h) \/ GiveOwner(h) \/ GiveDelegates(h) \/ FindShare(h) \/ AddShare(h)
    PROVE  Turnwise' /\ Single'
<1>0. UNCHANGED <<task, copying>>
  BY DEF FindTask, InsertFails, GiveOwner, GiveDelegates, FindShare, AddShare
<1>00. Unique'  BY <1>0, SameThin, ThinKept DEF Single
<1>1. CASE FindTask(h)
  <2>1. PICK x, y, items :
              /\ x = Head(handler[h].todo) /\ x \in Item /\ x.kind = "create"
              /\ handler[h].pc = "create"
              /\ y = [x EXCEPT !.kind = "insert"] /\ y \in Item /\ y.kind = "insert"
              /\ \/ /\ items = <<>>
                    /\ \E t \in TasksOf(x.request) : task[t].name = x.name /\ task[t].user = x.user
                 \/ /\ items = <<y>>
                    /\ ~\E t \in TasksOf(x.request) : task[t].name = x.name /\ task[t].user = x.user
              /\ items \in Seq(Item) /\ Replace(h, items)
    BY <1>1, FindTaskEffect
  <2>2. CASE items = <<>>
    <3>1. items \in Seq(Loose)  BY <2>2, None
    <3> QED  BY <1>0, <1>00, <2>1, <3>1, SingleStack
  <2>3. CASE items = <<y>> /\ ~\E t \in TasksOf(x.request) : task[t].name = x.name /\ task[t].user = x.user
    <3>1. y.request = x.request /\ y.name = x.name /\ y.user = x.user  BY <2>1 DEF Item
    <3>2. ~Held(y.request, y.name, y.user)  BY <2>3, <3>1 DEF Held
    <3>3. ~Held(y.request, y.name, y.user)'  BY <1>0, <3>2, SameThin, ThinKept
    <3>4. \E z \in Item : items = <<z>> /\ ~Held(z.request, z.name, z.user)'  BY <2>1, <2>3, <3>3
    <3> QED  BY <1>0, <1>00, <2>1, <3>4, SingleStack
  <2> QED  BY <2>1, <2>2, <2>3
<1>2. CASE InsertFails(h) \/ AddShare(h)
  <2>1. handler[h].pc = "create" /\ Replace(h, <<>>)  BY <1>2 DEF InsertFails, AddShare, Does
  <2>2. <<>> \in Seq(Item) /\ <<>> \in Seq(Loose)  BY None
  <2> QED  BY <1>0, <1>00, <2>1, <2>2, SingleStack
<1>3. CASE GiveOwner(h)
  <2>1. PICK x, b, y, items :
              /\ handler[h].pc = "create"
              /\ y = Create(x.request, x.name, task[b].user, 0, x.task)
              /\ items = <<>> \/ (items = <<y>> /\ y \in Item)
              /\ items \in Seq(Item) /\ Replace(h, items)
    BY <1>3, GiveOwnerEffect
  <2>2. y \in Item => y \in Loose  BY <2>1 DEF Loose, Create
  <2>3. items \in Seq(Loose)
    <3>1. CASE items = <<>>  BY <3>1, None
    <3>2. CASE items = <<y>> /\ y \in Loose  BY <3>2, One
    <3> QED  BY <2>1, <2>2, <3>1, <3>2
  <2> QED  BY <1>0, <1>00, <2>1, <2>3, SingleStack
<1>4. CASE GiveDelegates(h)
  <2>1. PICK x, items :
              /\ handler[h].pc = "create" /\ x \in Item
              /\ items \in Seq(Item) /\ Replace(h, items)
              /\ x.kind = "delegates" /\ \A i \in 1 .. Len(items) : FromDelegation(x, items[i])
    BY <1>4, GiveDelegatesEffect
  <2>2. ASSUME NEW i \in 1 .. Len(items) PROVE items[i] \in Loose
    <3>0. PICK y : y = items[i]  OBVIOUS
    <3>1. PICK d \in MadeDelegations :
             \/ y = Create(x.request, x.name, delegation[d].to, x.task, 0)
             \/ y = [x EXCEPT !.kind = "share", !.delegation = d]
      BY <2>1, <3>0 DEF FromDelegation
    <3>2. y \in Item  BY <2>1, <3>0
    <3>3. CASE y = Create(x.request, x.name, delegation[d].to, x.task, 0)
      <4>1. y.kind = "create"  BY <3>3 DEF Create
      <4> QED  BY <3>0, <3>2, <4>1 DEF Loose
    <3>4. CASE y = [x EXCEPT !.kind = "share", !.delegation = d]
      <4>1. y.kind = "share"  BY <2>1, <3>4 DEF Item
      <4> QED  BY <3>0, <3>2, <4>1 DEF Loose
    <3> QED  BY <3>1, <3>3, <3>4
  <2>3. items \in Seq(Loose)  BY <2>1, <2>2
  <2> QED  BY <1>0, <1>00, <2>1, <2>3, SingleStack
<1>5. CASE FindShare(h)
  <2>1. PICK x : x = Head(handler[h].todo)  OBVIOUS
  <2>2. handler[h].pc = "create" /\ x.kind = "share" /\ x \in Item
    BY <1>5, <2>1, Stack DEF FindShare, Does
  <2>3. PICK y : y = [x EXCEPT !.kind = "addShare"]  OBVIOUS
  <2>4. y \in Item /\ y \in Loose  BY <2>2, <2>3 DEF Item, Loose
  <2>5. PICK items \in {<<>>, <<y>>} : Replace(h, items)  BY <1>5, <2>1, <2>3 DEF FindShare
  <2>6. items \in Seq(Item) /\ items \in Seq(Loose)  BY <2>4, <2>5, AtMostOne
  <2> QED  BY <1>0, <1>00, <2>2, <2>5, <2>6, SingleStack
<1> QED  BY <1>1, <1>2, <1>3, <1>4, <1>5

(* A new task, of a step that its user did not have.                        *)
LEMMA UniqueAdded ==
    ASSUME Unique, NEW n \in TaskIds, ~Exists(n), NEW row,
           Sole(row.name) => ~Held(row.request, row.name, row.user),
           \A t \in TaskIds : task'[t] = IF t = n THEN row ELSE task[t]
    PROVE  Unique'
<1> SUFFICES ASSUME NEW t \in TaskIds, NEW s \in TaskIds, t # s, Sole(task[t].name)',
                    Exists(t)', Exists(s)', Alike(t, s)', task'[t].user = task'[s].user
             PROVE  FALSE
  BY DEF Unique, Twins
<1>0. ASSUME Sole(row.name), NEW a \in TaskIds, Exists(a)
      PROVE  ~(/\ task[a].request = row.request /\ task[a].name = row.name
               /\ task[a].user = row.user)
  BY <1>0 DEF Held, TasksOf
<1>1. CASE t = n /\ s # n  BY <1>0, <1>1 DEF Exists, Alike, Sole
<1>2. CASE t # n /\ s = n  BY <1>0, <1>2 DEF Exists, Alike, Sole
<1>3. CASE t # n /\ s # n  BY <1>3 DEF Unique, Exists, Alike, Twins, Sole
<1> QED  BY <1>1, <1>2, <1>3

LEMMA SingleInsert ==
    ASSUME IInv, Turnwise, Single, NEW h \in Handlers, InsertTask(h)
    PROVE  Turnwise' /\ Single'
<1>1. PICK x, n, row, y, z, w, items :
              /\ x = Head(handler[h].todo) /\ x \in Item /\ x.kind = "insert"
              /\ handler[h].pc = "create"
              /\ n \in TaskIds /\ ~Exists(n) /\ n \notin Made
              /\ row = [state |-> "open", request |-> x.request, name |-> x.name,
                        user |-> x.user, bound |-> x.bound, entity |-> Entity[x.name]]
              /\ \A t \in TaskIds : task'[t] = IF t = n THEN row ELSE task[t]
              /\ y = [x EXCEPT !.kind = "owner", !.task = n] /\ y \in Item
              /\ z = [x EXCEPT !.kind = "delegates", !.task = n] /\ z \in Item
              /\ w = [x EXCEPT !.kind = "rebind", !.bound = n] /\ w \in Item
              /\ (x.task = 0 /\ items = <<y, z>>) \/ (x.task # 0 /\ items = <<y, z>> \o <<w>>)
              /\ items \in Seq(Item) /\ Replace(h, items)
  BY InsertEffect
<1>2. ~Held(x.request, x.name, x.user)  BY <1>1 DEF Single, Ready
<1>3. ~Held(row.request, row.name, row.user)  BY <1>1, <1>2
<1>4. Unique'  BY <1>1, <1>3, UniqueAdded DEF Single
<1>5. y.kind = "owner" /\ z.kind = "delegates" /\ w.kind = "rebind"
  <2>1. /\ x \in Item /\ y = [x EXCEPT !.kind = "owner", !.task = n]
        /\ z = [x EXCEPT !.kind = "delegates", !.task = n]
        /\ w = [x EXCEPT !.kind = "rebind", !.bound = n]
    BY <1>1
  <2> QED  BY <2>1 DEF Item
<1>6. y \in Loose /\ z \in Loose /\ w \in Loose  BY <1>1, <1>5 DEF Loose
<1>7. items \in Seq(Loose)  BY <1>1, <1>6, TwoOrThree
<1> QED  BY <1>1, <1>4, <1>7, SingleStack DEF InsertTask

LEMMA SingleRebind ==
    ASSUME IInv, Turnwise, Single, NEW h \in Handlers, Rebind(h)
    PROVE  Turnwise' /\ Single'
<1>1. handler[h].pc = "create" /\ Replace(h, <<>>)  BY DEF Rebind, Does
<1>2. PICK x : x = Head(handler[h].todo)  OBVIOUS
<1>3. task' = IF Exists(x.task) THEN [task EXCEPT ![x.task].bound = x.bound] ELSE task
  BY <1>2 DEF Rebind
<1>4. Thin
  <2> SUFFICES ASSUME NEW t \in TaskIds
               PROVE  /\ task'[t].request = task[t].request /\ task'[t].name = task[t].name
                      /\ task'[t].user = task[t].user /\ (task'[t].state # "none" => Exists(t))
    BY DEF Thin
  <2>1. task'[t] = task[t] \/ task'[t] = [task[t] EXCEPT !.bound = x.bound]
    BY <1>3, TaskTable
  <2> QED  BY <2>1, TaskRows DEF TaskRow, Exists
<1>5. Unique'  BY <1>4, ThinKept DEF Single
<1>6. <<>> \in Seq(Item) /\ <<>> \in Seq(Loose)  BY None
<1> QED  BY <1>1, <1>5, <1>6, SingleStack DEF Rebind

(* The steps of a call that is not creating.                                *)
LEMMA SinglePlainStep ==
    ASSUME IInv, Turnwise, Single, NEW h \in Handlers, Plain(h)
    PROVE  Turnwise' /\ Single'
<1>1. /\ \A g \in Handlers : g # h => handler'[g] = handler[g]
      /\ handler[h].pc \in {"update", "reread", "read", "others"}
      /\ handler'[h].pc \in {"idle", "reread", "read", "spread", "advance"}
      /\ UNCHANGED <<delegation, share, nextTask, copying>>
      /\ \A t \in TaskIds : \/ task'[t] = task[t]
                            \/ Exists(t) /\ task'[t] = [task[t] EXCEPT !.state = "closed"]
  BY PlainEffect
<1>2. Thin  BY <1>1, TaskRows DEF Thin, TaskRow, Exists
<1>3. Busy(h)  BY <1>1 DEF Busy
<1>4. copying' = {} /\ \A g \in Handlers : g # h => ~Busy(g)  BY <1>1, <1>3, OthersIdle
<1>5. \A g \in Handlers : g # h => ~Busy(g)'  BY <1>1, <1>4 DEF Busy
<1>6. \A g \in Handlers : handler'[g].pc # "create"  BY <1>1, <1>5 DEF Busy
<1>7. Unique'  BY <1>2, ThinKept DEF Single
<1> QED  BY <1>4, <1>5, <1>6, <1>7 DEF Turnwise, Single, Ready

(* The first things to do of a request.                                     *)
LEMMA SingleFirst ==
    ASSUME IInv, Turnwise, Single, NEW h \in Handlers, NEW m, handler' = [handler EXCEPT ![h] = m],
           AtRest \/ Busy(h), NEW items \in Seq(Item), NEW r,
           \A i \in 1 .. Len(items) : \E a \in Names : items[i] = Create(r, a, Assignee[a], 0, 0),
           m = Idle \/ (m.pc = "create" /\ m.todo = items /\ items # <<>>),
           UNCHANGED <<task, copying>>
    PROVE  Turnwise' /\ Single'
<1>1. CASE m = Idle
  <2>1. m.pc # "create"  BY <1>1 DEF Idle
  <2> QED  BY <2>1, SameThin, SinglePlain
<1>2. CASE m.pc = "create" /\ m.todo = items /\ items # <<>>
  <2>1. ASSUME NEW i \in 1 .. Len(items) PROVE items[i] \in Loose
    <3>0. PICK y : y = items[i]  OBVIOUS
    <3>1. PICK a \in Names : y = Create(r, a, Assignee[a], 0, 0)  BY <3>0
    <3>2. y.kind # "insert"  BY <3>1 DEF Create
    <3> QED  BY <3>0, <3>2 DEF Loose
  <2>2. items \in Seq(Loose)  BY <2>1
  <2>3. Tail(items) \in Seq(Loose) /\ Head(items) \in Loose  BY <1>2, <2>2
  <2>4. Loose' = Loose  BY DEF Loose
  <2>5. Ready(m)'  BY <1>2, <2>3, <2>4 DEF Ready, Loose
  <2>6. Unique'  BY SameThin, ThinKept DEF Single
  <2> QED  BY <2>5, <2>6, TurnRow, SingleRow
<1> QED  BY <1>1, <1>2

LEMMA SingleAdvance ==
    ASSUME IInv, Turnwise, Single, NEW h \in Handlers, AdvanceRequest(h)
    PROVE  Turnwise' /\ Single'
<1>1. PICK m, items, r :
         /\ handler' = [handler EXCEPT ![h] = m] /\ handler[h].pc = "advance"
         /\ items \in Seq(Item) /\ r \in RequestIds
         /\ \A i \in 1 .. Len(items) : \E a \in Names : items[i] = Create(r, a, Assignee[a], 0, 0)
         /\ m = Idle \/ (m.pc = "create" /\ m.todo = items /\ items # <<>>
                         /\ m.bound = handler[h].bound)
  BY AdvanceEffect
<1>2. m = Idle \/ (m.pc = "create" /\ m.todo = items /\ items # <<>>)  BY <1>1
<1>3. UNCHANGED <<task, copying>>  BY DEF AdvanceRequest
<1>4. Busy(h)  BY <1>1 DEF Busy
<1>5. handler' = [handler EXCEPT ![h] = m] /\ items \in Seq(Item)  BY <1>1
<1>6. \A i \in 1 .. Len(items) : \E a \in Names : items[i] = Create(r, a, Assignee[a], 0, 0)
  BY <1>1
<1> QED  BY <1>2, <1>3, <1>4, <1>5, <1>6, SingleFirst

LEMMA SingleOpen ==
    ASSUME IInv, Turnwise, Single, NEW h \in Handlers, NEW u \in Users, NEW r \in RequestIds,
           OpenRequest(h, u, r), AtRest
    PROVE  Turnwise' /\ Single'
<1>1. PICK m, items :
         /\ handler' = [handler EXCEPT ![h] = m] /\ handler[h].pc = "idle"
         /\ items \in Seq(Item)
         /\ \A i \in 1 .. Len(items) : \E a \in Names : items[i] = Create(r, a, Assignee[a], 0, 0)
         /\ m = Idle \/ (m.pc = "create" /\ m.todo = items /\ items # <<>> /\ m.bound = 0)
  BY OpenEffect
<1>2. m = Idle \/ (m.pc = "create" /\ m.todo = items /\ items # <<>>)  BY <1>1
<1>3. UNCHANGED <<task, copying>>  BY DEF OpenRequest
<1>5. handler' = [handler EXCEPT ![h] = m] /\ items \in Seq(Item)  BY <1>1
<1>6. \A i \in 1 .. Len(items) : \E a \in Names : items[i] = Create(r, a, Assignee[a], 0, 0)
  BY <1>1
<1> QED  BY <1>2, <1>3, <1>5, <1>6, SingleFirst

(* The calls: all of them wait, and none creates anything at once.          *)
LEMMA SingleCall ==
    ASSUME IInv, Turnwise, Single, Alone = Calls, NEW h \in Handlers, Call(h)
    PROVE  Turnwise' /\ Single'
<1>1. ASSUME NEW u \in Users, NEW r \in RequestIds, OpenRequest(h, u, r) PROVE Turnwise' /\ Single'
  <2>1. AtRest  BY <1>1 DEF OpenRequest, Accept, Calls
  <2> QED  BY <1>1, <2>1, SingleOpen
<1>2. ASSUME NEW u \in Users, NEW t \in TaskIds, SubmitTask(h, u, t) PROVE Turnwise' /\ Single'
  <2>1. AtRest /\ UNCHANGED <<task, copying>>  BY <1>2 DEF SubmitTask, Accept, Calls
  <2>2. PICK m : m = [Idle EXCEPT !.pc = "update", !.user = u, !.task = t]  OBVIOUS
  <2>3. handler' = [handler EXCEPT ![h] = m]  BY <1>2, <2>2 DEF SubmitTask
  <2>4. m.pc # "create"  BY <2>2 DEF Idle
  <2> QED  BY <2>1, <2>3, <2>4, SameThin, SinglePlain
<1>3. ASSUME NEW u, NEW d, Triggers(h, u, d), AtRest, UNCHANGED <<task, copying>>
      PROVE  Turnwise' /\ Single'
  <2>1. PICK m : handler' = [handler EXCEPT ![h] = m] /\ (m = Idle \/ m = Triggering(u, d))
    BY <1>3, TriggersRow
  <2>2. m.pc # "create"
    <3>1. Triggering(u, d).pc = "trigger" /\ Idle.pc = "idle"  BY DEF Triggering, Idle
    <3> QED  BY <2>1, <3>1
  <2> QED  BY <1>3, <2>1, <2>2, SameThin, SinglePlain
<1>4. ASSUME NEW u \in Users, NEW v \in Users, NEW w \in {"coming", "current"}, NEW t,
             CreateDelegation(h, u, v, t, w)
      PROVE  Turnwise' /\ Single'
  <2>1. AtRest /\ UNCHANGED <<task, copying>> /\ Triggers(h, u, nextDelegation)
    BY <1>4 DEF CreateDelegation, Accept, Calls
  <2> QED  BY <1>3, <2>1
<1>5. ASSUME NEW u \in Users, NEW d \in DelegationIds, UpdateDelegation(h, u, d)
      PROVE  Turnwise' /\ Single'
  <2>1. AtRest /\ UNCHANGED <<task, copying>> /\ Triggers(h, u, d)
    BY <1>5 DEF UpdateDelegation, Accept, Calls
  <2> QED  BY <1>3, <2>1
<1>6. ASSUME NEW u, NEW d \in DelegationIds, DeletesRow(h, u, d) PROVE Turnwise' /\ Single'
  <2>1. AtRest /\ UNCHANGED <<task, copying>>  BY <1>6 DEF DeletesRow, Accept, Calls
  <2>2. PICK m : m = [Idle EXCEPT !.pc = "unshare", !.user = u, !.delegation = d]  OBVIOUS
  <2>3. handler' = [handler EXCEPT ![h] = m]  BY <1>6, <2>2 DEF DeletesRow
  <2>4. m.pc # "create"  BY <2>2 DEF Idle
  <2> QED  BY <2>1, <2>3, <2>4, SameThin, SinglePlain
<1>7. ASSUME NEW d \in DelegationIds, TriggerDaily(h, d) PROVE Turnwise' /\ Single'
  <2>1. AtRest /\ UNCHANGED <<task, copying>>  BY <1>7 DEF TriggerDaily, Accept, Calls
  <2>2. PICK m : m = [Idle EXCEPT !.pc = "trigger", !.delegation = d]  OBVIOUS
  <2>3. handler' = [handler EXCEPT ![h] = m]  BY <1>7, <2>2 DEF TriggerDaily
  <2>4. m.pc # "create"  BY <2>2 DEF Idle
  <2> QED  BY <2>1, <2>3, <2>4, SameThin, SinglePlain
<1> QED
  BY <1>1, <1>2, <1>4, <1>5, <1>6, <1>7 DEF Call, DeleteDelegation, ExpireDaily

(* The goroutines that a delegation is triggered by: each of another step,  *)
(* since they are made from tasks of one user.                              *)
LEMMA SingleTrigger ==
    ASSUME IInv, Turnwise, Single, NEW h \in Handlers, Trigger(h)
    PROVE  Turnwise' /\ Single'
<1>1. PICK d : d = handler[h].delegation  OBVIOUS
<1>2. PICK rows : rows = {t \in TaskIds : IsOpen(t) /\ IF delegation[d].task = 0
                                                       THEN \/ task[t].user = delegation[d].from
                                                            \/ task[t].entity \in
                                                                  EntitiesOf(delegation[d].from)
                                                       ELSE t = delegation[d].task}
  OBVIOUS
<1>3. /\ handler[h].pc = "trigger" /\ handler' = [handler EXCEPT ![h] = Idle]
      /\ copying' = copying \cup {[delegation |-> d, task |-> t, pc |-> "share"] : t \in rows}
      /\ UNCHANGED <<task, delegation>>
  BY <1>1, <1>2 DEF Trigger
<1>4. copying = {} /\ \A g \in Handlers : g # h => ~Busy(g)  BY <1>3, OthersIdle DEF Busy
<1>5. \A g \in Handlers : handler'[g] = IF g = h THEN Idle ELSE handler[g]  BY <1>3, OneRow
<1>6. \A g \in Handlers : handler'[g].pc = "idle"  BY <1>4, <1>5 DEF Busy, Idle
<1>7. ASSUME NEW t \in rows, NEW s \in rows, Twins(t, s) PROVE t = s
  <2>1. ASSUME NEW a \in rows, delegation[d].task = 0, Sole(task[a].name)
        PROVE  task[a].user = delegation[d].from
    <3>1. a \in Made  BY <1>2, ExistsMade DEF IsOpen, Exists
    <3>2. task[a].entity \in {NoEntity, Entity[task[a].name]}  BY <3>1 DEF IInv, RowsGood
    <3>3. task[a].entity = NoEntity  BY <2>1, <3>2 DEF Sole
    <3>4. task[a].entity \notin EntitiesOf(delegation[d].from)  BY <3>3 DEF EntitiesOf
    <3> QED  BY <1>2, <2>1, <3>4
  <2>2. CASE delegation[d].task # 0  BY <1>2, <2>2
  <2>3. CASE delegation[d].task = 0 /\ Alike(t, s) /\ Sole(task[t].name)
    <3>1. task[t].user = delegation[d].from /\ task[s].user = delegation[d].from
      BY <2>1, <2>3 DEF Alike
    <3>2. Exists(t) /\ Exists(s) /\ t \in TaskIds /\ s \in TaskIds  BY <1>2 DEF IsOpen, Exists
    <3> QED  BY <1>7, <3>1, <3>2 DEF Single, Unique
  <2> QED  BY <1>7, <2>2, <2>3 DEF Twins
<1>8. \A c \in copying' : c.task \in rows /\ c.pc = "share"
                          /\ c = [delegation |-> d, task |-> c.task, pc |-> "share"]
  BY <1>3, <1>4
<1>9. \A c \in copying' : Fresh(c)'  BY <1>8 DEF Fresh
<1>10. ASSUME NEW c \in copying', NEW e \in copying', Twins(c.task, e.task)' PROVE c = e
  <2>1. PICK t, s : t = c.task /\ s = e.task  OBVIOUS
  <2>2. t \in rows /\ s \in rows  BY <1>8, <2>1
  <2>3. Twins(t, s)  BY <1>3, <1>10, <2>1 DEF Alike, Twins
  <2>4. t = s  BY <1>7, <2>2, <2>3
  <2> QED  BY <1>8, <2>1, <2>4
<1>11. Unique'  BY <1>3, SameThin, ThinKept DEF Single
<1>12. \A g \in Handlers : Ready(handler[g])'  BY <1>6 DEF Ready
<1> QED  BY <1>6, <1>9, <1>10, <1>11, <1>12 DEF Turnwise, Busy, Single

LEMMA SingleEnds ==
    ASSUME IInv, Turnwise, Single, NEW h \in Handlers,
           DeleteShares(h) \/ FindRivals(h) \/ WithdrawCopies(h)
    PROVE  Turnwise' /\ Single'
<1>1. UNCHANGED copying /\ Busy(h)  BY DEF DeleteShares, FindRivals, WithdrawCopies, Busy
<1>2. CASE DeleteShares(h)
  <2>1. PICK m : m = [handler[h] EXCEPT !.pc = "rivals"]  OBVIOUS
  <2>2. handler' = [handler EXCEPT ![h] = m] /\ UNCHANGED task
    BY <1>2, <2>1 DEF DeleteShares, IInv, TypeOK
  <2>3. m.pc # "create"  BY <2>1, TaskRows DEF HandlerRow
  <2> QED  BY <1>1, <2>2, <2>3, SameThin, SinglePlain
<1>3. CASE FindRivals(h)
  <2>1. PICK w : w = [handler[h] EXCEPT !.pc = "withdraw"]  OBVIOUS
  <2>2. PICK m \in {Idle, w} : handler' = [handler EXCEPT ![h] = m]
    BY <1>3, <2>1 DEF FindRivals
  <2>3. w.pc # "create" /\ Idle.pc # "create"  BY <2>1, TaskRows DEF HandlerRow, Idle
  <2>4. m.pc # "create" /\ UNCHANGED task  BY <1>3, <2>2, <2>3 DEF FindRivals
  <2> QED  BY <1>1, <2>2, <2>4, SameThin, SinglePlain
<1>4. CASE WithdrawCopies(h)
  <2>1. PICK copies \in SUBSET TaskIds :
           task' = [t \in TaskIds |-> IF t \in copies THEN [task[t] EXCEPT !.state = "none"] ELSE task[t]]
    BY <1>4 DEF WithdrawCopies
  <2>2. \A t \in TaskIds : task'[t] = task[t] \/ task'[t] = [task[t] EXCEPT !.state = "none"]
    BY <2>1
  <2>3. Thin  BY <2>2, TaskRows DEF Thin, TaskRow, Exists
  <2>4. handler' = [handler EXCEPT ![h] = Idle] /\ Idle.pc # "create"
    BY <1>4 DEF WithdrawCopies, Idle
  <2> QED  BY <1>1, <2>3, <2>4, SinglePlain
<1> QED  BY <1>2, <1>3, <1>4

(* The goroutines of UpdateDelegated write state and binding only.          *)
LEMMA WritesThin ==
    ASSUME IInv, NEW t, NEW p, NEW b, Writes(t, p, b)
    PROVE  Thin
<1>1. PICK row : row = Written(task[t], p, b)  OBVIOUS
<1>2. task' = task \/ (Exists(t) /\ task' = [task EXCEPT ![t] = row])
  BY <1>1 DEF Writes
<1>3. CASE task' = task  BY <1>3, SameThin
<1>4. CASE Exists(t) /\ task' = [task EXCEPT ![t] = row]
  <2> SUFFICES ASSUME NEW s \in TaskIds
               PROVE  /\ task'[s].request = task[s].request /\ task'[s].name = task[s].name
                      /\ task'[s].user = task[s].user /\ (task'[s].state # "none" => Exists(s))
    BY DEF Thin
  <2>1. CASE s # t  BY <1>4, <2>1, TaskTable DEF Exists
  <2>2. CASE s = t
    <3>1. task'[s] = Written(task[s], p, b)  BY <1>1, <1>4, <2>2, TaskTable
    <3>2. PICK st : task'[s] = [task[s] EXCEPT !.state = st, !.bound = b]
      BY <3>1 DEF Written
    <3>3. task[s] \in TaskRow  BY TaskRows
    <3>4. /\ task'[s].request = task[s].request /\ task'[s].name = task[s].name
          /\ task'[s].user = task[s].user
      BY <3>2, <3>3 DEF TaskRow
    <3> QED  BY <1>4, <2>2, <3>4
  <2> QED  BY <2>1, <2>2
<1> QED  BY <1>2, <1>3, <1>4

LEMMA SpreadThin == ASSUME IInv, SpreadStep PROVE Thin
<1>1. PICK p \in spreading : \/ FindAbove(p) \/ WriteAbove(p) \/ FindBelow(p)
                             \/ \E t \in p.rows : WriteBelow(p, t)
  BY DEF SpreadStep
<1>2. CASE FindAbove(p) \/ FindBelow(p)  BY <1>2, SameThin DEF FindAbove, FindBelow
<1>3. CASE WriteAbove(p)  BY <1>3, WritesThin DEF WriteAbove
<1>4. ASSUME NEW t \in p.rows, WriteBelow(p, t) PROVE Thin
  BY <1>4, WritesThin DEF WriteBelow
<1> QED  BY <1>1, <1>2, <1>3, <1>4

LEMMA SingleSpread ==
    ASSUME IInv, Turnwise, Single, SpreadStep
    PROVE  Turnwise' /\ Single'
<1>1. /\ \A g \in Handlers : \/ handler'[g] = handler[g]
                             \/ /\ handler[g].pc = "spread"
                                /\ handler'[g] = [handler[g] EXCEPT !.pc = "others"]
      /\ UNCHANGED <<place, request, delegation, share, nextTask, nextDelegation, copying>>
  BY SpreadEffect
<1>2. Thin  BY SpreadThin
<1>3. Unique' /\ \A r, n, u : Held(r, n, u)' => Held(r, n, u)  BY <1>2, ThinKept DEF Single
<1>4. \A g \in Handlers : Busy(g)' => Busy(g)  BY <1>1 DEF Busy
<1>5. Turnwise'  BY <1>1, <1>4 DEF Turnwise
<1>6. ASSUME NEW g \in Handlers PROVE Ready(handler[g])'
  <2>1. CASE handler'[g] = handler[g]
    <3>1. PICK m : m = handler[g]  OBVIOUS
    <3>2. Ready(m)  BY <3>1 DEF Single
    <3>3. Loose' = Loose  BY DEF Loose
    <3>4. Ready(m)'  BY <1>3, <3>2, <3>3 DEF Ready
    <3> QED  BY <2>1, <3>1, <3>4
  <2>2. CASE handler[g].pc = "spread" /\ handler'[g] = [handler[g] EXCEPT !.pc = "others"]
    <3>1. handler'[g].pc = "others"  BY <2>2, TaskRows DEF HandlerRow
    <3> QED  BY <3>1 DEF Ready
  <2> QED  BY <1>1, <2>1, <2>2
<1>7. \A c \in copying : c.task \in TaskIds  BY DEF IInv, TypeOK, Copy
<1>8. ASSUME NEW c \in copying' PROVE Fresh(c)'
  <2>1. c \in copying /\ Fresh(c)  BY <1>1 DEF Single
  <2>2. task'[c.task].request = task[c.task].request /\ task'[c.task].name = task[c.task].name
    BY <1>2, <1>7, <2>1 DEF Thin
  <2> QED  BY <1>1, <1>3, <2>1, <2>2 DEF Fresh
<1>9. \A c, e \in copying' : Twins(c.task, e.task)' => c = e
  BY <1>1, <1>2, <1>7 DEF Single, Alike, Thin, Twins
<1> QED  BY <1>3, <1>5, <1>6, <1>8, <1>9 DEF Single

(* The goroutines of Trigger, when no call is at work.                      *)
LEMMA SingleCopy ==
    ASSUME IInv, Turnwise, Single, CopyStep
    PROVE  Turnwise' /\ Single'
<1>1. PICK c \in copying : FindCopyShare(c) \/ AddCopyShare(c) \/ FindCopy(c) \/ AddCopy(c)
  BY DEF CopyStep
<1>2. c \in Copy /\ c.task \in TaskIds  BY DEF IInv, TypeOK, Copy
<1>3. UNCHANGED <<handler, delegation>>
  BY <1>1 DEF FindCopyShare, AddCopyShare, FindCopy, AddCopy
<1>4. \A h \in Handlers : ~Busy(h)  BY <1>1 DEF Turnwise
<1>5. Turnwise'  BY <1>3, <1>4 DEF Turnwise, Busy
<1>6. \A h \in Handlers : Ready(handler[h])'  BY <1>3, <1>4 DEF Ready, Busy
<1>7. \A e \in copying' :
         e \in copying \ {c} \/ \E pc : /\ e = [c EXCEPT !.pc = pc] /\ ~AddCopy(c)
                                        /\ copying' = (copying \ {c}) \cup {e}
  BY <1>1 DEF FindCopyShare, AddCopyShare, FindCopy, AddCopy, Goes
<1>8. \A e \in copying : e.task \in TaskIds /\ (e # c => ~Twins(e.task, c.task))
  BY DEF IInv, TypeOK, Copy, Single
<1>9. CASE AddCopy(c) /\ ~UNCHANGED task
  <2>1. PICK row : /\ row = [task[c.task] EXCEPT !.state = "open", !.user = delegation[c.delegation].to,
                                                 !.bound = c.task, !.entity = NoEntity]
                   /\ AddTask(row)
    BY <1>9 DEF AddCopy
  <2>2. PICK n \in TaskIds : /\ n = nextTask /\ ~Exists(n) /\ n \notin Made
                             /\ \A t \in TaskIds : task'[t] = IF t = n THEN row ELSE task[t]
    BY <2>1, AddedRow
  <2>3. /\ row.request = task[c.task].request /\ row.name = task[c.task].name
        /\ row.user = delegation[c.delegation].to
    BY <1>2, <2>1, TaskRows DEF TaskRow
  <2>4. Sole(row.name) => ~Held(row.request, row.name, row.user)  BY <1>9, <2>3 DEF AddCopy, Single, Fresh
  <2>5. Unique'  BY <2>2, <2>4, UniqueAdded DEF Single
  <2>6. copying' = copying \ {c}  BY <1>9 DEF AddCopy
  <2>7. \A e \in copying' : e \in copying /\ e # c /\ e.task \in Made /\ e.task # n
    BY <2>2, <2>6 DEF IInv, RunsGood, GoodCopy
  <2>8. \A e \in copying' : task'[e.task] = task[e.task]  BY <1>8, <2>2, <2>7
  <2>9. ASSUME NEW e \in copying' PROVE Fresh(e)'
    <3>0. SUFFICES ASSUME e.pc = "add", Sole(task[e.task].name)',
                          Held(task[e.task].request, task[e.task].name, delegation[e.delegation].to)'
                   PROVE  FALSE
      BY DEF Fresh
    <3>1. PICK t \in TaskIds : /\ Exists(t)' /\ task'[t].request = task'[e.task].request
                               /\ task'[t].name = task'[e.task].name
                               /\ task'[t].user = delegation'[e.delegation].to
      BY <3>0 DEF Held, TasksOf
    <3>2. CASE t = n
      <4>1. task[e.task].request = task[c.task].request /\ task[e.task].name = task[c.task].name
        BY <2>2, <2>3, <2>8, <3>1, <3>2
      <4>2. Twins(e.task, c.task)  BY <2>8, <3>0, <4>1 DEF Alike, Twins
      <4> QED  BY <1>8, <2>7, <4>2
    <3>3. CASE t # n
      <4>1. /\ Exists(t) /\ task[t].request = task[e.task].request
            /\ task[t].name = task[e.task].name /\ task[t].user = delegation[e.delegation].to
        BY <1>3, <2>2, <2>8, <3>1, <3>3 DEF Exists
      <4>2. Sole(task[e.task].name)  BY <2>8, <3>0 DEF Sole
      <4> QED  BY <2>7, <3>0, <4>1, <4>2 DEF Single, Fresh, Held, TasksOf
    <3> QED  BY <3>2, <3>3
  <2>10. \A e, f \in copying' : Twins(e.task, f.task)' => e = f
    BY <2>7, <2>8 DEF Single, Alike, Twins, Sole
  <2> QED  BY <1>5, <1>6, <2>5, <2>9, <2>10 DEF Single
<1>10. CASE UNCHANGED task
  <2>1. Unique'  BY <1>10, SameThin, ThinKept DEF Single
  <2>2. \A r, n, u : Held(r, n, u)' <=> Held(r, n, u)  BY <1>10 DEF Held, TasksOf, Exists
  <2>3. ASSUME NEW e \in copying' PROVE Fresh(e)'
    <3>1. CASE e \in copying \ {c}
      <4>1. Fresh(e)  BY <3>1 DEF Single
      <4>2. Fresh(e)'  BY <1>3, <1>10, <2>2, <4>1 DEF Fresh
      <4> QED  BY <3>1, <4>2
    <3>2. CASE e \notin copying \ {c}
      <4>1. PICK pc : e = [c EXCEPT !.pc = pc] /\ copying' = (copying \ {c}) \cup {e}  BY <1>7, <3>2
      <4>2. e.pc = pc /\ e.task = c.task /\ e.delegation = c.delegation  BY <1>2, <4>1 DEF Copy
      <4>3. ASSUME pc = "add" PROVE ~Held(task[e.task].request, task[e.task].name, delegation[e.delegation].to)
        <5>1. ~\E t \in TasksOf(task[c.task].request) : task[t].user = delegation[c.delegation].to
          BY <1>1, <1>2, <3>2, <4>1, <4>2, <4>3 DEF FindCopyShare, AddCopyShare, FindCopy, AddCopy, Goes, Copy
        <5> QED  BY <4>2, <5>1 DEF Held
      <4>4. Fresh(e)'  BY <1>3, <1>10, <2>2, <4>2, <4>3 DEF Fresh
      <4> QED  BY <4>2, <4>4
    <3> QED  BY <3>1, <3>2
  <2>4. ASSUME NEW e \in copying', NEW f \in copying', Twins(e.task, f.task)' PROVE e = f
    <3>1. Twins(e.task, f.task)  BY <1>10, <2>4 DEF Alike, Twins, Sole
    <3>2. CASE e \in copying \ {c} /\ f \in copying \ {c}  BY <3>1, <3>2 DEF Single
    <3>3. CASE e \in copying \ {c} /\ f \notin copying \ {c}
      <4>1. f.task = c.task  BY <1>2, <1>7, <3>3 DEF Copy
      <4> QED  BY <1>8, <3>1, <3>3, <4>1
    <3>4. CASE e \notin copying \ {c} /\ f \in copying \ {c}
      <4>1. e.task = c.task  BY <1>2, <1>7, <3>4 DEF Copy
      <4>2. ~Twins(f.task, c.task)  BY <1>8, <3>4
      <4> QED  BY <3>1, <4>1, <4>2 DEF Alike, Twins, Sole
    <3>5. CASE e \notin copying \ {c} /\ f \notin copying \ {c}  BY <1>7, <3>5
    <3> QED  BY <3>2, <3>3, <3>4, <3>5
  <2>5. \A e \in copying' : Fresh(e)'  BY <2>3
  <2>6. \A e, f \in copying' : Twins(e.task, f.task)' => e = f  BY <2>4
  <2> QED  BY <1>5, <1>6, <2>1, <2>5, <2>6 DEF Single
<1>11. AddCopy(c) \/ UNCHANGED task  BY <1>1 DEF FindCopyShare, AddCopyShare, FindCopy
<1> QED  BY <1>9, <1>10, <1>11

LEMMA SingleToday ==
    ASSUME IInv, Turnwise, Single, Alone = Calls, NEW d \in DelegationIds, NEW w, Today(d, w)
    PROVE  Turnwise' /\ Single'
<1>1. AtRest /\ UNCHANGED <<task, handler, copying>>  BY DEF Today, Calls
<1>2. copying' = {} /\ \A h \in Handlers : handler'[h].pc = "idle"  BY <1>1 DEF AtRest
<1>3. Unique'  BY <1>1, SameThin, ThinKept DEF Single
<1> QED  BY <1>2, <1>3 DEF Turnwise, Busy, Single, Ready

LEMMA NextSingle ==
    ASSUME IInv, Turnwise, Single, Alone = Calls, [Next]_vars
    PROVE  Turnwise' /\ Single'
<1>1. ASSUME NEW h \in Handlers, Proceed(h) PROVE Turnwise' /\ Single'
  <2>1. CASE Trigger(h)  BY <2>1, SingleTrigger
  <2>2. CASE DeleteShares(h) \/ FindRivals(h) \/ WithdrawCopies(h)  BY <2>2, SingleEnds
  <2>3. CASE Plain(h)  BY <2>3, SinglePlainStep
  <2>4. CASE AdvanceRequest(h)  BY <2>4, SingleAdvance
  <2>5. CASE InsertTask(h)  BY <2>5, SingleInsert
  <2>6. CASE Rebind(h)  BY <2>6, SingleRebind
  <2>7. CASE FindTask(h) \/ InsertFails(h) \/ GiveOwner(h) \/ GiveDelegates(h) \/ FindShare(h) \/ AddShare(h)
    BY <2>7, SingleItems
  <2> QED  BY <1>1, <2>1, <2>2, <2>3, <2>4, <2>5, <2>6, <2>7 DEF Proceed, Plain
<1>2. CASE UNCHANGED vars
  <2>1. UNCHANGED <<task, handler, copying, delegation>>  BY <1>2 DEF vars
  <2>2. Unique'  BY <2>1, SameThin, ThinKept DEF Single
  <2>3. \A r, n, u : Held(r, n, u)' <=> Held(r, n, u)  BY <2>1 DEF Held, TasksOf, Exists
  <2>4. \A h \in Handlers : Ready(handler[h])'
    <3> SUFFICES ASSUME NEW h \in Handlers PROVE Ready(handler[h])'  OBVIOUS
    <3>1. Ready(handler[h])  BY DEF Single
    <3> QED  BY <2>1, <2>3, <3>1 DEF Ready, Loose
  <2>5. \A c \in copying' : Fresh(c)'  BY <2>1, <2>3 DEF Single, Fresh
  <2>6. \A c, e \in copying' : Twins(c.task, e.task)' => c = e  BY <2>1 DEF Single, Alike, Twins
  <2>7. Turnwise'  BY <2>1 DEF Turnwise, Busy
  <2> QED  BY <2>2, <2>4, <2>5, <2>6, <2>7 DEF Single
<1> QED  BY <1>1, <1>2, SingleCall, SingleSpread, SingleCopy, SingleToday DEF Next

(* Nobody has two open tasks for one step of no entity (utils.go:128-134,   *)
(* delegation_service.go:103-108, 144-149), whatever is delegated to whom,  *)
(* in chains or circles, with INSERTs and UPDATEs that are refused and the  *)
(* daily loop, when every call waits until nobody is at work.               *)
THEOREM OneOfEachCorrect ==
    ASSUME Alone = Calls
    PROVE  Spec => []OneOfEach
<1>1. Init => IInv /\ Turnwise /\ Single  BY Starts, InitSingle
<1>2. IInv /\ Turnwise /\ Single /\ [Next]_vars => (IInv /\ Turnwise /\ Single)'
  BY Keeps, NextSingle
<1>3. Single => OneOfEach
  BY DEF Single, Unique, OneOfEach, IsOpen, Exists, Alike, Twins, Sole, Personal
<1> QED  BY <1>1, <1>2, <1>3, PTL DEF Spec
============================================================================
