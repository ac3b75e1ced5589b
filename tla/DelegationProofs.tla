-------------------------- MODULE DelegationProofs --------------------------
(***************************************************************************)
(* For every number of users, steps, tasks and calls, and however calls    *)
(* and goroutines interleave, fail or are refused: the types, and that     *)
(* tasks are bound to tasks of the same request and step.                  *)
(*                                                                         *)
(* A task's request and step never change, so that what was read of them   *)
(* stays true.  Everything a call, a goroutine or a row remembers is       *)
(* therefore described by a set that only grows.                           *)
(***************************************************************************)
EXTENDS DelegationProperties, FiniteSetTheorems, TLAPS

Made == {t \in TaskIds : t < nextTask}
MadeDelegations == {d \in DelegationIds : d < nextDelegation}

(* t is a task of step n of request r; o is bound to nothing else.          *)
Of(t, r, n) == t \in Made /\ task[t].request = r /\ task[t].name = n
Kin(t, o) == o \in Made /\ Of(t, task[o].request, task[o].name)
Free(t, o) == o = 0 \/ Kin(t, o)

GoodItem == {x \in Item :
    /\ x.kind \in {"create", "insert"} => /\ x.bound = 0 \/ Of(x.bound, x.request, x.name)
                                          /\ x.task = 0 \/ Of(x.task, x.request, x.name)
    /\ x.kind \in {"owner", "delegates", "rebind"} => Of(x.task, x.request, x.name)
    /\ x.kind = "rebind" => Of(x.bound, x.request, x.name)
    /\ x.kind \in {"share", "addShare"} => x.delegation \in MadeDelegations}
GoodHandler == {m \in HandlerRow :
    /\ m.todo \in Seq(GoodItem)
    /\ ~m.ended => m.at <= LastLevel
    /\ m.pc = "create" => m.todo # <<>>
    /\ m.pc \in {"update", "reread", "read", "spread", "others", "advance"} => m.task \in Made
    /\ m.pc = "read" => Free(m.task, m.bound)
    /\ m.pc \in {"trigger", "unshare", "rivals", "withdraw"} => m.delegation \in MadeDelegations}
GoodCopy == {c \in Copy : c.task \in Made /\ c.delegation \in MadeDelegations}
GoodSpread == {p \in Spread :
    /\ p.task \in Made /\ Free(p.task, p.bound)
    /\ p.pc = "upWrite" => p.bound # 0 /\ Free(p.bound, p.above)
    /\ \A t \in p.rows : Kin(t, p.task)}

(* How far the requests are.                                                *)
PlacesGood ==
    /\ place \in [RequestIds -> -1 .. LastLevel + 1] /\ request \in [RequestIds -> RequestRow]
    /\ \A r \in RequestIds : request[r].state # "ended" => place[r] <= LastLevel
RowsGood ==
    /\ \A t \in Made : /\ task[t].request \in RequestIds /\ task[t].name \in Names
                       /\ task[t].user \in Users /\ Free(t, task[t].bound)
                       /\ task[t].entity \in {NoEntity, Entity[task[t].name]}
    /\ \A t \in TaskIds \ Made : task[t] = NoTask
    /\ \A d \in MadeDelegations : delegation[d].from \in Users /\ delegation[d].to \in Users
    /\ \A d \in DelegationIds \ MadeDelegations : delegation[d] = NoDelegation
CallsGood == \A h \in Handlers : handler[h] \in GoodHandler
RunsGood ==
    /\ copying \subseteq GoodCopy /\ spreading \subseteq GoodSpread
    /\ \A p \in spreading : p.by # NoHandler => handler[p.by].pc = "spread"
    /\ \A p, q \in spreading : p.by # NoHandler /\ p.by = q.by => p = q
IInv == TypeOK /\ RowsGood /\ CallsGood /\ RunsGood

(* What every step keeps.                                                   *)
Steady ==
    /\ nextTask <= nextTask' /\ nextDelegation <= nextDelegation'
    /\ nextTask' \in 1 .. MaxTasks + 1 /\ nextDelegation' \in 1 .. MaxDelegations + 1
    /\ \A t \in Made : task'[t].request = task[t].request /\ task'[t].name = task[t].name

USE DEF RequestIds, TaskIds, DelegationIds

----------------------------------------------------------------------------
LEMMA Sizes == /\ LastLevel \in Nat /\ MaxRequests \in Nat /\ MaxTasks \in Nat
               /\ MaxDelegations \in Nat /\ MaxCalls \in Nat
BY SizeAssumption

(* What was good stays good.                                                *)
LEMMA Grows ==
    ASSUME IInv, Steady
    PROVE  /\ Made \subseteq Made' /\ MadeDelegations \subseteq MadeDelegations'
           /\ \A t, r, n : Of(t, r, n) => Of(t, r, n)'
           /\ \A t, o : Kin(t, o) => Kin(t, o)'
           /\ \A t, o : Free(t, o) => Free(t, o)'
<1>1. /\ nextTask \in Int /\ nextDelegation \in Int /\ nextTask' \in Int /\ nextDelegation' \in Int
      /\ nextTask <= nextTask' /\ nextDelegation <= nextDelegation'
  BY Sizes DEF IInv, TypeOK, Steady
<1>2. Made \subseteq Made' /\ MadeDelegations \subseteq MadeDelegations'
  <2>1. ASSUME NEW t \in Made PROVE t \in Made'  BY <1>1, <2>1 DEF Made
  <2>2. ASSUME NEW d \in MadeDelegations PROVE d \in MadeDelegations'
    BY <1>1, <2>2 DEF MadeDelegations
  <2> QED  BY <2>1, <2>2
<1>3. \A t, r, n : Of(t, r, n) => Of(t, r, n)'
  BY <1>2 DEF Steady, Of
<1>4. \A t, o : Kin(t, o) => Kin(t, o)'
  BY <1>2, <1>3 DEF Steady, Kin, Of
<1> QED  BY <1>2, <1>3, <1>4 DEF Free

LEMMA SetsGrow ==
    ASSUME IInv, Steady
    PROVE  /\ GoodItem \subseteq GoodItem' /\ GoodHandler \subseteq GoodHandler'
           /\ GoodCopy \subseteq GoodCopy' /\ GoodSpread \subseteq GoodSpread'
<1>1. GoodItem \subseteq GoodItem'
  <2> SUFFICES ASSUME NEW x \in GoodItem PROVE x \in GoodItem'  OBVIOUS
  <2> QED  BY Grows DEF GoodItem
<1>2. GoodHandler \subseteq GoodHandler'
  <2> SUFFICES ASSUME NEW m \in GoodHandler PROVE m \in GoodHandler'  OBVIOUS
  <2>1. Seq(GoodItem) \subseteq Seq(GoodItem)'
    BY <1>1
  <2> QED  BY <2>1, Grows DEF GoodHandler
<1>3. GoodCopy \subseteq GoodCopy'
  BY Grows DEF GoodCopy
<1>4. GoodSpread \subseteq GoodSpread'
  <2> SUFFICES ASSUME NEW p \in GoodSpread PROVE p \in GoodSpread'  OBVIOUS
  <2> QED  BY Grows DEF GoodSpread
<1> QED  BY <1>1, <1>2, <1>3, <1>4

----------------------------------------------------------------------------
(* A call that changes its own row, and no run.                             *)
LEMMA CallStep ==
    ASSUME IInv, Steady, NEW h \in Handlers, NEW m \in GoodHandler',
           handler' = [handler EXCEPT ![h] = m], handler[h].pc # "spread",
           UNCHANGED spreading, copying' \subseteq GoodCopy'
    PROVE  CallsGood' /\ RunsGood' /\ handler' \in [Handlers -> HandlerRow]
<1>1. handler \in [Handlers -> HandlerRow]
  BY DEF IInv, TypeOK
<1>2. \A g \in Handlers : handler'[g] = IF g = h THEN m ELSE handler[g]
  BY <1>1
<1>3. CallsGood'
  BY <1>2, SetsGrow DEF IInv, CallsGood
<1>4. \A p \in spreading : p.by # NoHandler => p.by \in Handlers
  BY DEF IInv, TypeOK, Spread
<1>5. RunsGood'
  <2>1. spreading' \subseteq GoodSpread'
    BY SetsGrow DEF IInv, RunsGood
  <2>2. \A p \in spreading' : p.by # NoHandler => handler'[p.by].pc = "spread"
    BY <1>2, <1>4 DEF IInv, RunsGood
  <2>3. \A p, q \in spreading' : p.by # NoHandler /\ p.by = q.by => p = q
    BY DEF IInv, RunsGood
  <2> QED  BY <2>1, <2>2, <2>3 DEF RunsGood
<1>6. m \in HandlerRow
  BY DEF GoodHandler
<1> QED  BY <1>1, <1>3, <1>5, <1>6

LEMMA IdleGood == Idle \in GoodHandler /\ Idle \in GoodHandler'
<1>1. Idle \in HandlerRow
  <2>1. 0 \in 0 .. MaxTasks /\ 0 \in 0 .. MaxDelegations /\ 0 \in -1 .. LastLevel + 1
    BY Sizes
  <2>2. <<>> \in Seq(Item)  OBVIOUS
  <2> QED  BY <2>1, <2>2 DEF Idle, HandlerRow
<1>2. <<>> \in Seq(GoodItem) /\ <<>> \in Seq(GoodItem')  OBVIOUS
<1>3. 0 <= LastLevel  BY Sizes
<1> QED  BY <1>1, <1>2, <1>3 DEF Idle, GoodHandler, Free

(* The rows of tasks and delegations when neither is written.               *)
LEMMA RowsStay ==
    ASSUME IInv, UNCHANGED <<task, delegation, nextTask, nextDelegation>>
    PROVE  RowsGood' /\ Steady
<1>1. Steady
  BY Sizes DEF IInv, TypeOK, Steady
<1> QED  BY <1>1 DEF IInv, RowsGood, Made, MadeDelegations, Free, Kin, Of

(* The elements of the sequence that a first element is replaced by.        *)
LEMMA Replaced ==
    ASSUME NEW S, NEW items \in Seq(S), NEW todo \in Seq(S), todo # <<>>
    PROVE  items \o Tail(todo) \in Seq(S) /\ Head(todo) \in S
<1>1. Tail(todo) \in Seq(S) /\ Head(todo) \in S
  OBVIOUS
<1> QED  BY <1>1

LEMMA DoingGood ==
    ASSUME IInv, Steady, NEW m \in GoodHandler', NEW todo \in Seq(GoodItem')
    PROVE  Doing(m, todo) \in GoodHandler'
<1>1. CASE todo = <<>>
  BY <1>1, IdleGood DEF Doing
<1>2. CASE todo # <<>>
  <2>1. todo \in Seq(Item)
    BY DEF GoodItem
  <2>2. [m EXCEPT !.pc = "create", !.todo = todo] \in HandlerRow
    BY <2>1 DEF GoodHandler, HandlerRow
  <2> QED  BY <1>2, <2>2 DEF Doing, GoodHandler, HandlerRow
<1> QED  BY <1>1, <1>2

(* The first thing to do of a call that is creating, which is replaced.     *)
LEMMA FirstItem ==
    ASSUME IInv, NEW h \in Handlers, handler[h].pc = "create"
    PROVE  Head(handler[h].todo) \in GoodItem
<1>1. handler[h] \in GoodHandler
  BY DEF IInv, CallsGood
<1> QED  BY <1>1, Replaced DEF GoodHandler

LEMMA ReplaceStep ==
    ASSUME IInv, Steady, NEW h \in Handlers, handler[h].pc = "create",
           NEW items \in Seq(GoodItem'), Replace(h, items),
           UNCHANGED <<copying, spreading>>
    PROVE  CallsGood' /\ RunsGood' /\ handler' \in [Handlers -> HandlerRow]
<1>1. PICK m : m = Doing(handler[h], items \o Tail(handler[h].todo))
  OBVIOUS
<1>2. handler' = [handler EXCEPT ![h] = m]
  BY <1>1 DEF Replace
<1>3. handler[h] \in GoodHandler /\ handler[h] \in GoodHandler'
  BY SetsGrow DEF IInv, CallsGood
<1>4. handler[h].todo \in Seq(GoodItem') /\ handler[h].todo # <<>>
  <2>1. handler[h].todo \in Seq(GoodItem) /\ handler[h].todo # <<>>
    BY <1>3 DEF GoodHandler
  <2>2. GoodItem \subseteq GoodItem'
    BY SetsGrow
  <2> QED  BY <2>1, <2>2
<1>5. items \o Tail(handler[h].todo) \in Seq(GoodItem')
  BY <1>4, Replaced
<1>6. m \in GoodHandler'
  BY <1>1, <1>3, <1>5, DoingGood
<1>7. copying' \subseteq GoodCopy'
  BY SetsGrow DEF IInv, RunsGood
<1> QED  BY <1>2, <1>6, <1>7, CallStep

(* The parts of the invariant after a step.                                 *)
LEMMA Whole ==
    ASSUME IInv, Steady, RowsGood', CallsGood', RunsGood',
           handler' \in [Handlers -> HandlerRow],
           PlacesGood', task' \in [TaskIds -> TaskRow],
           delegation' \in [DelegationIds -> DelegationRow], share' \subseteq ShareRow,
           calls' \in 0 .. MaxCalls
    PROVE  IInv'
<1>1. copying' \subseteq Copy /\ spreading' \subseteq Spread
  BY DEF RunsGood, GoodCopy, GoodSpread
<1>2. \A h \in Handlers : ~handler'[h].ended => handler'[h].at <= LastLevel
  BY DEF CallsGood, GoodHandler
<1>3. TypeOK'
  BY <1>1, <1>2 DEF Steady, TypeOK, PlacesGood
<1> QED  BY <1>3 DEF IInv

(* A call that writes no table and changes its stack.                       *)
LEMMA StackStep ==
    ASSUME IInv, NEW h \in Handlers, handler[h].pc = "create",
           NEW items \in Seq(GoodItem), Replace(h, items),
           UNCHANGED <<place, request, task, delegation, nextTask, nextDelegation, copying, spreading, calls>>,
           share' \subseteq ShareRow
    PROVE  IInv'
<1>1. RowsGood' /\ Steady
  BY RowsStay
<1>2. items \in Seq(GoodItem')
  <2>1. GoodItem \subseteq GoodItem'  BY <1>1, SetsGrow
  <2> QED  BY <2>1
<1>3. CallsGood' /\ RunsGood' /\ handler' \in [Handlers -> HandlerRow]
  BY <1>1, <1>2, ReplaceStep
<1>4. /\ PlacesGood /\ task \in [TaskIds -> TaskRow]
      /\ delegation \in [DelegationIds -> DelegationRow] /\ calls \in 0 .. MaxCalls
  BY DEF IInv, TypeOK, PlacesGood
<1>5. /\ PlacesGood' /\ task' \in [TaskIds -> TaskRow]
      /\ delegation' \in [DelegationIds -> DelegationRow] /\ calls' \in 0 .. MaxCalls
  BY <1>4 DEF PlacesGood
<1> QED  BY <1>1, <1>3, <1>5, Whole

(* The kinds of things to do, and what is known of the first one.           *)
LEMMA Known ==
    ASSUME IInv, NEW h \in Handlers, handler[h].pc = "create", NEW x, x = Head(handler[h].todo)
    PROVE  /\ x \in GoodItem /\ x \in Item
           /\ handler[h].user \in Users \cup {NoUser} /\ handler[h].bound \in 0 .. MaxTasks
<1>1. x \in GoodItem  BY FirstItem
<1> QED  BY <1>1 DEF GoodItem, IInv, TypeOK, HandlerRow

LEMMA ExistsMade == ASSUME IInv, NEW t \in TaskIds, Exists(t) PROVE t \in Made
BY DEF IInv, RowsGood, Exists, NoTask

LEMMA CurrentMade ==
    ASSUME IInv, NEW d \in DelegationIds, delegation[d].exists PROVE d \in MadeDelegations
BY DEF IInv, RowsGood, NoDelegation

LEMMA One == ASSUME NEW S, NEW x \in S PROVE <<x>> \in Seq(S)
OBVIOUS
LEMMA None == ASSUME NEW S PROVE <<>> \in Seq(S)
OBVIOUS

----------------------------------------------------------------------------
LEMMA FindTaskGood ==
    ASSUME IInv, NEW h \in Handlers, FindTask(h)
    PROVE  IInv'
<1>1. PICK x : x = Head(handler[h].todo)  OBVIOUS
<1>2. handler[h].pc = "create" /\ x.kind = "create"
  BY <1>1 DEF FindTask, Does
<1>3. x \in GoodItem  BY <1>1, <1>2, Known
<1>4. [x EXCEPT !.kind = "insert"] \in GoodItem
  BY <1>2, <1>3 DEF GoodItem, Item
<1>5. PICK items \in {<<>>, <<[x EXCEPT !.kind = "insert"]>>} : Replace(h, items)
  BY <1>1 DEF FindTask
<1>6. items \in Seq(GoodItem)  BY <1>4, <1>5, One, None
<1>7. share \subseteq ShareRow  BY DEF IInv, TypeOK
<1> QED  BY <1>2, <1>5, <1>6, <1>7, StackStep DEF FindTask

LEMMA InsertFailsGood ==
    ASSUME IInv, NEW h \in Handlers, InsertFails(h)
    PROVE  IInv'
<1>1. handler[h].pc = "create" /\ Replace(h, <<>>)
  BY DEF InsertFails, Does
<1>2. share \subseteq ShareRow  BY DEF IInv, TypeOK
<1> QED  BY <1>1, <1>2, None, StackStep DEF InsertFails

LEMMA GiveOwnerGood ==
    ASSUME IInv, NEW h \in Handlers, GiveOwner(h)
    PROVE  IInv'
<1>1. PICK x : x = Head(handler[h].todo)  OBVIOUS
<1>2. PICK b : b = handler[h].bound  OBVIOUS
<1>3. handler[h].pc = "create" /\ x.kind = "owner"
  BY <1>1 DEF GiveOwner, Does
<1>4. x \in GoodItem /\ x \in Item /\ b \in 0 .. MaxTasks  BY <1>1, <1>2, <1>3, Known
<1>5. PICK y : y = Create(x.request, x.name, task[b].user, 0, x.task)  OBVIOUS
<1>6. PICK items : /\ items = IF b = 0 \/ ~Exists(b) THEN <<>> ELSE <<y>>
                   /\ Replace(h, items)
  BY <1>1, <1>2, <1>5 DEF GiveOwner
<1>7. items \in Seq(GoodItem)
  <2>1. CASE b = 0 \/ ~Exists(b)  BY <2>1, <1>6, None
  <2>2. CASE ~(b = 0 \/ ~Exists(b))
    <3>1. b \in Made  BY <2>2, <1>4, Sizes, ExistsMade
    <3>2. task[b].user \in Users  BY <3>1 DEF IInv, RowsGood
    <3>3. y \in Item  BY <1>4, <1>5, <3>2, Sizes DEF Create, Item
    <3>4. y \in GoodItem  BY <1>3, <1>4, <1>5, <3>3 DEF GoodItem, Create
    <3> QED  BY <2>2, <1>6, <3>4, One
  <2> QED  BY <2>1, <2>2
<1>8. share \subseteq ShareRow  BY DEF IInv, TypeOK
<1> QED  BY <1>3, <1>6, <1>7, <1>8, StackStep DEF GiveOwner

LEMMA ShareTyped ==
    ASSUME IInv, NEW d \in MadeDelegations, NEW r \in RequestIds
    PROVE  ShareOf(d, r) \in ShareRow
BY DEF ShareOf, ShareRow, IInv, RowsGood, MadeDelegations

LEMMA FindShareGood ==
    ASSUME IInv, NEW h \in Handlers, FindShare(h)
    PROVE  IInv'
<1>1. PICK x : x = Head(handler[h].todo)  OBVIOUS
<1>2. handler[h].pc = "create" /\ x.kind = "share"
  BY <1>1 DEF FindShare, Does
<1>3. x \in GoodItem  BY <1>1, <1>2, Known
<1>4. [x EXCEPT !.kind = "addShare"] \in GoodItem
  BY <1>2, <1>3 DEF GoodItem, Item
<1>5. PICK items \in {<<>>, <<[x EXCEPT !.kind = "addShare"]>>} : Replace(h, items)
  BY <1>1 DEF FindShare
<1>6. items \in Seq(GoodItem)  BY <1>4, <1>5, One, None
<1>7. share \subseteq ShareRow  BY DEF IInv, TypeOK
<1> QED  BY <1>2, <1>5, <1>6, <1>7, StackStep DEF FindShare

LEMMA AddShareGood ==
    ASSUME IInv, NEW h \in Handlers, AddShare(h)
    PROVE  IInv'
<1>1. PICK x : x = Head(handler[h].todo)  OBVIOUS
<1>2. handler[h].pc = "create" /\ x.kind = "addShare"
  BY <1>1 DEF AddShare, Does
<1>3. x \in GoodItem /\ x \in Item  BY <1>1, <1>2, Known
<1>4. ShareOf(x.delegation, x.request) \in ShareRow
  BY <1>2, <1>3, ShareTyped DEF GoodItem, Item
<1>5. share' \subseteq ShareRow
  BY <1>1, <1>4 DEF AddShare, IInv, TypeOK
<1>6. Replace(h, <<>>)  BY DEF AddShare
<1> QED  BY <1>2, <1>5, <1>6, None, StackStep DEF AddShare

LEMMA Ordered ==
    ASSUME NEW S, IsFiniteSet(S), NEW f \in SetToSeqs(S)
    PROVE  f \in Seq(S)
<1>1. Cardinality(S) \in Nat  BY FS_CardinalityType
<1>2. f \in [1 .. Cardinality(S) -> S]  BY DEF SetToSeqs
<1> QED  BY <1>1, <1>2

LEMMA DelegateItemsGood ==
    ASSUME IInv, NEW x \in GoodItem, x.kind = "delegates", NEW S \in SUBSET MadeDelegations,
           NEW f \in Seq(S)
    PROVE  DelegateItems(x, f) \in Seq(GoodItem)
<1>1. Len(f) \in Nat /\ \A i \in 1 .. Len(f) : f[i] \in S  OBVIOUS
<1>2. PICK n \in Nat : n = Len(f)  BY <1>1
<1>3. x \in Item /\ Of(x.task, x.request, x.name)  BY DEF GoodItem
<1>4. ASSUME NEW d \in MadeDelegations
      PROVE  /\ Create(x.request, x.name, delegation[d].to, x.task, 0) \in GoodItem
             /\ [x EXCEPT !.kind = "share", !.delegation = d] \in GoodItem
  <2>1. d \in 0 .. MaxDelegations /\ delegation[d].to \in Users /\ 0 \in 0 .. MaxTasks
        /\ 0 \in 0 .. MaxDelegations
    BY <1>4, Sizes DEF IInv, RowsGood, MadeDelegations
  <2>2. Create(x.request, x.name, delegation[d].to, x.task, 0) \in Item
    BY <2>1, <1>3 DEF Create, Item
  <2>3. [x EXCEPT !.kind = "share", !.delegation = d] \in Item
    BY <2>1, <1>3 DEF Item
  <2>4. Create(x.request, x.name, delegation[d].to, x.task, 0) \in GoodItem
    BY <2>2, <1>3 DEF Create, GoodItem
  <2>5. [x EXCEPT !.kind = "share", !.delegation = d] \in GoodItem
    BY <2>3, <1>3 DEF GoodItem, Item
  <2> QED  BY <2>4, <2>5
<1>5. ASSUME NEW i \in 1 .. 2 * n
      PROVE  DelegateItems(x, f)[i] \in GoodItem
  <2>1. (i + 1) \div 2 \in 1 .. n  BY <1>5
  <2>2. PICK d \in MadeDelegations : d = f[(i + 1) \div 2]  BY <2>1, <1>1, <1>2
  <2>3. DelegateItems(x, f)[i] = IF i % 2 = 1
                                 THEN Create(x.request, x.name, delegation[d].to, x.task, 0)
                                 ELSE [x EXCEPT !.kind = "share", !.delegation = d]
    BY <1>2, <2>2 DEF DelegateItems
  <2> QED  BY <2>3, <1>4
<1>6. DelegateItems(x, f) = [i \in 1 .. 2 * n |-> DelegateItems(x, f)[i]]
  BY <1>2 DEF DelegateItems
<1>7. 2 * n \in Nat  OBVIOUS
<1> HIDE DEF DelegateItems
<1> QED  BY <1>5, <1>6, <1>7

LEMMA GiveDelegatesGood ==
    ASSUME IInv, NEW h \in Handlers, GiveDelegates(h)
    PROVE  IInv'
<1>1. PICK x : x = Head(handler[h].todo)  OBVIOUS
<1>2. handler[h].pc = "create" /\ x.kind = "delegates"
  BY <1>1 DEF GiveDelegates, Does
<1>3. x \in GoodItem  BY <1>1, <1>2, Known
<1>4. PICK S : S = {d \in DelegationIds : /\ Current(d) /\ delegation[d].task = 0
                                          /\ delegation[d].from = x.user
                                          /\ delegation[d].to # handler[h].user}
  OBVIOUS
<1>5. S \subseteq MadeDelegations  BY <1>4, CurrentMade DEF Current
<1>6. IsFiniteSet(S)
  <2>1. IsFiniteSet(DelegationIds)  BY Sizes, FS_Interval
  <2> QED  BY <1>4, <2>1, FS_Subset
<1>7. PICK f \in SetToSeqs(S) : Replace(h, DelegateItems(x, f))
  BY <1>1, <1>4 DEF GiveDelegates
<1>8. DelegateItems(x, f) \in Seq(GoodItem)
  BY <1>2, <1>3, <1>5, <1>6, <1>7, Ordered, DelegateItemsGood
<1>9. share \subseteq ShareRow  BY DEF IInv, TypeOK
<1> QED  BY <1>2, <1>7, <1>8, <1>9, StackStep DEF GiveDelegates

LEMMA TaskTable ==
    ASSUME IInv PROVE task \in [TaskIds -> TaskRow] /\ nextTask \in 1 .. MaxTasks + 1
                      /\ nextTask \in Int
BY Sizes DEF IInv, TypeOK

(* A new row in dbtask.                                                     *)
LEMMA Added ==
    ASSUME IInv, NEW row \in TaskRow, AddTask(row), NEW n, n = nextTask,
           row.request \in RequestIds, row.name \in Names, row.user \in Users,
           row.bound = 0 \/ Of(row.bound, row.request, row.name),
           row.entity \in {NoEntity, Entity[row.name]},
           UNCHANGED <<delegation, nextDelegation>>
    PROVE  /\ Steady /\ RowsGood' /\ task' \in [TaskIds -> TaskRow]
           /\ Of(n, row.request, row.name)' /\ n \in TaskIds
<1>1. /\ task \in [TaskIds -> TaskRow] /\ nextTask \in TaskIds /\ nextTask \in Int
      /\ nextTask' = nextTask + 1 /\ task' = [task EXCEPT ![nextTask] = row]
  BY TaskTable, Sizes DEF AddTask
<1>2. \A t \in TaskIds : task'[t] = IF t = nextTask THEN row ELSE task[t]
  BY <1>1
<1>3. nextDelegation' = nextDelegation /\ nextDelegation \in 1 .. MaxDelegations + 1
  BY DEF IInv, TypeOK
<1>4. Steady
  BY <1>1, <1>2, <1>3, Sizes DEF Steady, Made
<1>5. Made' = Made \cup {nextTask}
  BY <1>1 DEF Made
<1>6. Of(n, row.request, row.name)'
  BY <1>1, <1>2, <1>5 DEF Of
<1>7. RowsGood'
  <2>1. ASSUME NEW t \in Made'
        PROVE  /\ task'[t].request \in RequestIds /\ task'[t].name \in Names
               /\ task'[t].user \in Users /\ Free(t, task[t].bound)'
               /\ task'[t].entity \in {NoEntity, Entity[task'[t].name]}
    <3>1. CASE t = nextTask
      <4>1. task'[t] = row  BY <3>1, <1>1, <1>2
      <4>2. \A o : Of(o, row.request, row.name) => Of(o, row.request, row.name)'
        BY <1>4, Grows
      <4>3. row.bound = 0 \/ Of(row.bound, row.request, row.name)'
        BY <4>2
      <4>4. task'[t].bound = 0 \/ (Kin(t, row.bound))'
        BY <4>1, <4>3, <2>1 DEF Kin, Of
      <4>5. Free(t, task[t].bound)'  BY <4>1, <4>4 DEF Free
      <4> QED  BY <4>1, <4>5
    <3>2. CASE t # nextTask
      <4>1. t \in Made /\ task'[t] = task[t]  BY <3>2, <1>2, <1>5, <2>1 DEF Made
      <4>2. PICK o : o = task[t].bound  OBVIOUS
      <4>3. Free(t, o)'
        <5>1. Free(t, o)  BY <4>1, <4>2 DEF IInv, RowsGood
        <5> QED  BY <5>1, <1>4, Grows
      <4>4. Free(t, task[t].bound)'  BY <4>1, <4>2, <4>3
      <4> QED  BY <4>1, <4>4 DEF IInv, RowsGood
    <3> QED  BY <3>1, <3>2
  <2>2. \A t \in TaskIds \ Made' : task'[t] = NoTask
    BY <1>2, <1>5 DEF IInv, RowsGood
  <2>3. MadeDelegations' = MadeDelegations  BY <1>3 DEF MadeDelegations
  <2> QED  BY <2>1, <2>2, <2>3 DEF IInv, RowsGood
<1> QED  BY <1>1, <1>2, <1>4, <1>6, <1>7

(* Rows whose state or binding is written.                                  *)
LEMMA Rewritten ==
    ASSUME IInv, task' \in [TaskIds -> TaskRow],
           UNCHANGED <<delegation, nextTask, nextDelegation>>,
           \A t \in TaskIds : /\ task'[t].request = task[t].request
                              /\ task'[t].name = task[t].name /\ task'[t].user = task[t].user
                              /\ task'[t].entity = task[t].entity,
           \A t \in TaskIds \ Made : task'[t] = task[t],
           \A t \in Made : task'[t].bound = task[t].bound \/ Free(t, task'[t].bound)
    PROVE  Steady /\ RowsGood'
<1>1. Steady
  BY Sizes DEF Steady, IInv, TypeOK, Made
<1>2. Made' = Made /\ MadeDelegations' = MadeDelegations
  BY DEF Made, MadeDelegations
<1>3. ASSUME NEW t \in Made
      PROVE  /\ task'[t].request \in RequestIds /\ task'[t].name \in Names
             /\ task'[t].user \in Users /\ Free(t, task[t].bound)'
             /\ task'[t].entity \in {NoEntity, Entity[task'[t].name]}
  <2>1. t \in TaskIds  BY DEF Made
  <2>2. PICK o : o = task'[t].bound  OBVIOUS
  <2>3. Free(t, o)  BY <2>2, <1>3 DEF IInv, RowsGood
  <2>4. Free(t, o)'  BY <2>3, <1>1, Grows
  <2>5. Free(t, task[t].bound)'  BY <2>2, <2>4
  <2> QED  BY <2>1, <2>5, <1>3 DEF IInv, RowsGood
<1>4. \A t \in TaskIds \ Made' : task'[t] = NoTask
  BY <1>2 DEF IInv, RowsGood
<1> QED  BY <1>1, <1>2, <1>3, <1>4 DEF IInv, RowsGood

(* The tables and counters an action leaves as they are.                    *)
LEMMA Untouched ==
    ASSUME IInv
    PROVE  /\ UNCHANGED <<place, request>> => PlacesGood'
           /\ UNCHANGED task => task' \in [TaskIds -> TaskRow]
           /\ UNCHANGED delegation => delegation' \in [DelegationIds -> DelegationRow]
           /\ UNCHANGED share => share' \subseteq ShareRow
           /\ UNCHANGED calls => calls' \in 0 .. MaxCalls
           /\ UNCHANGED handler => handler' \in [Handlers -> HandlerRow]
BY DEF IInv, TypeOK, PlacesGood

LEMMA InsertTaskGood ==
    ASSUME IInv, NEW h \in Handlers, InsertTask(h)
    PROVE  IInv'
<1>1. PICK x : x = Head(handler[h].todo)  OBVIOUS
<1>2. PICK n : n = nextTask  OBVIOUS
<1>3. handler[h].pc = "create" /\ x.kind = "insert"
  BY <1>1 DEF InsertTask, Does
<1>4. x \in GoodItem /\ x \in Item  BY <1>1, <1>3, Known
<1>5. PICK row : row = [state |-> "open", request |-> x.request, name |-> x.name,
                        user |-> x.user, bound |-> x.bound, entity |-> Entity[x.name]]
  OBVIOUS
<1>6. /\ row \in TaskRow /\ row.request \in RequestIds /\ row.name \in Names /\ row.user \in Users
      /\ row.entity = Entity[row.name]
  BY <1>4, <1>5, Sizes, StepAssumption DEF Item, TaskRow
<1>7. row.bound = 0 \/ Of(row.bound, row.request, row.name)
  BY <1>3, <1>4, <1>5 DEF GoodItem
<1>8. AddTask(row)  BY <1>1, <1>5 DEF InsertTask
<1>9. /\ Steady /\ RowsGood' /\ task' \in [TaskIds -> TaskRow]
      /\ Of(n, x.request, x.name)' /\ n \in TaskIds
  BY <1>2, <1>5, <1>6, <1>7, <1>8, Added DEF InsertTask
<1>10. PICK y : y = [x EXCEPT !.kind = "owner", !.task = n]  OBVIOUS
<1>11. PICK z : z = [x EXCEPT !.kind = "delegates", !.task = n]  OBVIOUS
<1>12. PICK w : w = [x EXCEPT !.kind = "rebind", !.bound = n]  OBVIOUS
<1>13. y \in GoodItem' /\ z \in GoodItem'
  <2>1. n \in 0 .. MaxTasks  BY <1>9, Sizes
  <2>2. y \in Item  BY <1>4, <1>10, <2>1 DEF Item
  <2>3. z \in Item  BY <1>4, <1>11, <2>1 DEF Item
  <2> QED  BY <2>2, <2>3, <1>4, <1>9, <1>10, <1>11 DEF GoodItem, Item
<1>14. x.task # 0 => w \in GoodItem'
  <2>0. n \in 0 .. MaxTasks  BY <1>9, Sizes
  <2>1. w \in Item  BY <1>4, <1>12, <2>0 DEF Item
  <2>2. x.task # 0 => Of(x.task, x.request, x.name)'
    BY <1>3, <1>4, <1>9, Grows DEF GoodItem
  <2> QED  BY <2>1, <2>2, <1>4, <1>9, <1>12 DEF GoodItem, Item
<1>15. PICK parent : parent = IF x.task = 0 THEN <<>> ELSE <<w>>  OBVIOUS
<1>16. Replace(h, <<y, z>> \o parent)
  BY <1>1, <1>2, <1>10, <1>11, <1>12, <1>15 DEF InsertTask
<1>17. <<y, z>> \o parent \in Seq(GoodItem')
  <2>1. parent \in Seq(GoodItem')  BY <1>14, <1>15
  <2>2. <<y, z>> \in Seq(GoodItem')  BY <1>13
  <2> QED  BY <2>1, <2>2
<1>18. CallsGood' /\ RunsGood' /\ handler' \in [Handlers -> HandlerRow]
  BY <1>3, <1>9, <1>16, <1>17, ReplaceStep DEF InsertTask
<1> QED  BY <1>9, <1>18, Untouched, Whole DEF InsertTask

LEMMA RebindGood ==
    ASSUME IInv, NEW h \in Handlers, Rebind(h)
    PROVE  IInv'
<1>1. PICK x : x = Head(handler[h].todo)  OBVIOUS
<1>2. handler[h].pc = "create" /\ x.kind = "rebind" /\ Replace(h, <<>>)
  BY <1>1 DEF Rebind, Does
<1>3. x \in GoodItem /\ x \in Item  BY <1>1, <1>2, Known
<1>4. Of(x.task, x.request, x.name) /\ Of(x.bound, x.request, x.name)
  BY <1>2, <1>3 DEF GoodItem
<1>5. x.task \in TaskIds /\ x.bound \in 0 .. MaxTasks /\ Free(x.task, x.bound)
  BY <1>3, <1>4 DEF Of, Made, Item, Free, Kin
<1>6. task' = task \/ task' = [task EXCEPT ![x.task].bound = x.bound]
  BY <1>1 DEF Rebind
<1>7. task \in [TaskIds -> TaskRow]  BY TaskTable
<1>8. \A t \in TaskIds : \/ task'[t] = task[t]
                         \/ (t = x.task /\ task'[t] = [task[t] EXCEPT !.bound = x.bound])
  BY <1>6, <1>7
<1>9. task' \in [TaskIds -> TaskRow]
  BY <1>5, <1>6, <1>7 DEF TaskRow
<1>10. \A t \in TaskIds : task[t] \in TaskRow  BY <1>7
<1>80. ASSUME NEW t \in TaskIds
       PROVE  /\ task'[t].request = task[t].request /\ task'[t].name = task[t].name
              /\ task'[t].user = task[t].user /\ task'[t].entity = task[t].entity
              /\ t \notin Made => task'[t] = task[t]
              /\ t \in Made => task'[t].bound = task[t].bound \/ Free(t, task'[t].bound)
  <2>1. CASE task'[t] = task[t]  BY <2>1
  <2>2. CASE t = x.task /\ task'[t] = [task[t] EXCEPT !.bound = x.bound]
    <3>1. PICK old \in TaskRow : old = task[t]  BY <1>10
    <3>2. PICK new : new = [old EXCEPT !.bound = x.bound]  OBVIOUS
    <3>3. new.request = old.request /\ new.name = old.name  BY <3>1, <3>2 DEF TaskRow
    <3>4. new.user = old.user /\ new.entity = old.entity  BY <3>1, <3>2 DEF TaskRow
    <3>5. new.bound = x.bound  BY <3>1, <3>2 DEF TaskRow
    <3>6. t \in Made  BY <1>4, <2>2 DEF Of
    <3> QED  BY <1>5, <2>2, <3>1, <3>2, <3>3, <3>4, <3>5, <3>6
  <2> QED  BY <1>8, <2>1, <2>2
<1>11. /\ \A t \in TaskIds : /\ task'[t].request = task[t].request
                             /\ task'[t].name = task[t].name /\ task'[t].user = task[t].user
                             /\ task'[t].entity = task[t].entity
       /\ \A t \in TaskIds \ Made : task'[t] = task[t]
       /\ \A t \in Made : task'[t].bound = task[t].bound \/ Free(t, task'[t].bound)
  <2>1. Made \subseteq TaskIds  BY DEF Made
  <2> QED  BY <1>80, <2>1
<1>12. Steady /\ RowsGood'
  BY <1>9, <1>11, Rewritten DEF Rebind
<1>13. CallsGood' /\ RunsGood' /\ handler' \in [Handlers -> HandlerRow]
  BY <1>2, <1>12, None, ReplaceStep DEF Rebind
<1> QED  BY <1>9, <1>12, <1>13, Untouched, Whole DEF Rebind

----------------------------------------------------------------------------
(* A call that writes neither tasks nor delegations.                        *)
LEMMA PlainCall ==
    ASSUME IInv, NEW h \in Handlers, handler[h].pc # "spread",
           NEW m \in GoodHandler', handler' = [handler EXCEPT ![h] = m],
           UNCHANGED <<task, delegation, nextTask, nextDelegation, spreading>>,
           copying' \subseteq GoodCopy', PlacesGood',
           share' \subseteq ShareRow, calls' \in 0 .. MaxCalls
    PROVE  IInv'
<1>1. RowsGood' /\ Steady  BY RowsStay
<1>2. CallsGood' /\ RunsGood' /\ handler' \in [Handlers -> HandlerRow]
  BY <1>1, CallStep
<1> QED  BY <1>1, <1>2, Untouched, Whole

LEMMA CopiesStay == ASSUME IInv, Steady, UNCHANGED copying PROVE copying' \subseteq GoodCopy'
BY SetsGrow DEF IInv, RunsGood

LEMMA Accepted ==
    ASSUME IInv, NEW h, NEW c, Accept(h, c)
    PROVE  handler[h].pc = "idle" /\ calls' \in 0 .. MaxCalls
BY Sizes DEF Accept, IInv, TypeOK

LEMMA FirstItemsGood ==
    ASSUME IInv, NEW r \in RequestIds, NEW S \in SUBSET Names, NEW f \in SetToSeqs(S)
    PROVE  FirstItems(r, f) \in Seq(GoodItem)
<1>1. f \in Seq(S)
  <2>1. IsFiniteSet(S)  BY StepAssumption, FS_Subset
  <2> QED  BY <2>1, Ordered
<1>2. Len(f) \in Nat /\ DOMAIN f = 1 .. Len(f) /\ \A i \in 1 .. Len(f) : f[i] \in Names
  BY <1>1
<1>3. PICK n \in Nat : n = Len(f)  BY <1>2
<1>4. ASSUME NEW i \in 1 .. n PROVE Create(r, f[i], Assignee[f[i]], 0, 0) \in GoodItem
  <2>1. PICK a \in Names : a = f[i]  BY <1>2, <1>3
  <2>2. Assignee[a] \in Users /\ 0 \in 0 .. MaxTasks /\ 0 \in 0 .. MaxDelegations
    BY StepAssumption, Sizes
  <2>3. Create(r, a, Assignee[a], 0, 0) \in Item  BY <2>2 DEF Create, Item
  <2> QED  BY <2>1, <2>3 DEF GoodItem, Create
<1>5. FirstItems(r, f) = [i \in 1 .. n |-> Create(r, f[i], Assignee[f[i]], 0, 0)]
  BY <1>2, <1>3 DEF FirstItems
<1> QED  BY <1>4, <1>5

LEMMA OpenRequestGood ==
    ASSUME IInv, NEW h \in Handlers, NEW u \in Users, NEW r \in RequestIds, OpenRequest(h, u, r)
    PROVE  IInv'
<1>1. handler[h].pc = "idle" /\ calls' \in 0 .. MaxCalls  BY Accepted DEF OpenRequest
<1>2. RowsGood' /\ Steady  BY RowsStay DEF OpenRequest
<1>3. PICK f \in SetToSeqs(StepsAt(1)) :
          handler' = [handler EXCEPT ![h] = Doing([Idle EXCEPT !.user = u], FirstItems(r, f))]
  BY DEF OpenRequest
<1>4. FirstItems(r, f) \in Seq(GoodItem)  BY FirstItemsGood DEF StepsAt
<1>5. FirstItems(r, f) \in Seq(GoodItem')
  <2>1. GoodItem \subseteq GoodItem'  BY <1>2, SetsGrow
  <2> QED  BY <1>4, <2>1
<1>6. PICK i : i = [Idle EXCEPT !.user = u]  OBVIOUS
<1>7. i \in GoodHandler'  BY <1>6, IdleGood DEF GoodHandler, HandlerRow, Idle
<1>8. PICK m : m = Doing(i, FirstItems(r, f))  OBVIOUS
<1>9. m \in GoodHandler'  BY <1>2, <1>5, <1>7, <1>8, DoingGood
<1>10. PlacesGood'
  <2>1. 1 <= LastLevel  BY StepAssumption, Sizes DEF OpenRequest, StepsAt
  <2>2. /\ place' = [place EXCEPT ![r] = 1] /\ place \in [RequestIds -> -1 .. LastLevel + 1]
        /\ request' = [request EXCEPT ![r].state = "running"]
        /\ request \in [RequestIds -> RequestRow]
    BY DEF OpenRequest, IInv, TypeOK
  <2>3. \A q \in RequestIds : q # r => place'[q] = place[q] /\ request'[q] = request[q]
    BY <2>2
  <2>4. request' \in [RequestIds -> RequestRow]  BY <2>2 DEF RequestRow
  <2>5. place'[r] = 1 /\ place' \in [RequestIds -> -1 .. LastLevel + 1]  BY <2>1, <2>2, Sizes
  <2> QED  BY <2>1, <2>3, <2>4, <2>5 DEF PlacesGood, IInv, TypeOK
<1>11. copying' \subseteq GoodCopy'  BY <1>2, CopiesStay DEF OpenRequest
<1> QED  BY <1>1, <1>3, <1>6, <1>8, <1>9, <1>10, <1>11, Untouched, PlainCall DEF OpenRequest

LEMMA SubmitTaskGood ==
    ASSUME IInv, NEW h \in Handlers, NEW u \in Users, NEW t \in TaskIds, SubmitTask(h, u, t)
    PROVE  IInv'
<1>1. handler[h].pc = "idle" /\ calls' \in 0 .. MaxCalls  BY Accepted DEF SubmitTask
<1>2. RowsGood' /\ Steady  BY RowsStay DEF SubmitTask
<1>3. PICK m : m = [Idle EXCEPT !.pc = "update", !.user = u, !.task = t]  OBVIOUS
<1>4. t \in Made /\ t \in 0 .. MaxTasks  BY Sizes, ExistsMade DEF SubmitTask
<1>5. m \in GoodHandler  BY <1>3, <1>4, IdleGood DEF GoodHandler, HandlerRow, Idle
<1>6. m \in GoodHandler'  BY <1>2, <1>5, SetsGrow
<1>7. copying' \subseteq GoodCopy'  BY <1>2, CopiesStay DEF SubmitTask
<1> QED  BY <1>1, <1>3, <1>6, <1>7, Untouched, PlainCall DEF SubmitTask

LEMMA UpdateTaskGood ==
    ASSUME IInv, NEW h \in Handlers, UpdateTask(h)
    PROVE  IInv'
<1>1. PICK t : t = handler[h].task  OBVIOUS
<1>2. handler[h] \in GoodHandler /\ handler[h].pc = "update"
  BY DEF IInv, CallsGood, UpdateTask
<1>3. t \in Made  BY <1>1, <1>2 DEF GoodHandler
<1>4. task' = task \/ task' = [task EXCEPT ![t].state = "closed"]
  BY <1>1 DEF UpdateTask
<1>5. task \in [TaskIds -> TaskRow]  BY TaskTable
<1>6. task' \in [TaskIds -> TaskRow]  BY <1>4, <1>5 DEF TaskRow
<1>7. \A s \in TaskIds : \/ task'[s] = task[s]
                         \/ (s = t /\ task'[s] = [task[s] EXCEPT !.state = "closed"])
  BY <1>4, <1>5
<1>8. \A s \in TaskIds : task[s] \in TaskRow  BY <1>5
<1>9. \A s \in TaskIds : /\ task'[s].request = task[s].request /\ task'[s].name = task[s].name
                         /\ task'[s].user = task[s].user /\ task'[s].bound = task[s].bound
                         /\ task'[s].entity = task[s].entity
  BY <1>7, <1>8 DEF TaskRow
<1>91. \A s \in TaskIds \ Made : task'[s] = task[s]
  BY <1>3, <1>7
<1>92. \A s \in Made : task'[s].bound = task[s].bound
  BY <1>9 DEF Made
<1>10. Steady /\ RowsGood'  BY <1>6, <1>9, <1>91, <1>92, Rewritten DEF UpdateTask
<1>11. PICK m : m = [handler[h] EXCEPT !.pc = "reread"]  OBVIOUS
<1>12. m \in GoodHandler  BY <1>2, <1>11 DEF GoodHandler, HandlerRow
<1>13. m \in GoodHandler'  BY <1>10, <1>12, SetsGrow
<1>14. handler' = [handler EXCEPT ![h] = m]  BY <1>11 DEF UpdateTask, IInv, TypeOK
<1>15. copying' \subseteq GoodCopy'  BY <1>10, CopiesStay DEF UpdateTask
<1>16. CallsGood' /\ RunsGood' /\ handler' \in [Handlers -> HandlerRow]
  BY <1>2, <1>10, <1>13, <1>14, <1>15, CallStep DEF UpdateTask
<1> QED  BY <1>6, <1>10, <1>16, Untouched, Whole DEF UpdateTask

LEMMA RereadTaskGood ==
    ASSUME IInv, NEW h \in Handlers, RereadTask(h)
    PROVE  IInv'
<1>1. PICK t : t = handler[h].task  OBVIOUS
<1>2. handler[h] \in GoodHandler /\ handler[h].pc = "reread"
  BY DEF IInv, CallsGood, RereadTask
<1>3. t \in Made /\ task[t] \in TaskRow
  BY <1>1, <1>2, TaskTable DEF GoodHandler, Made
<1>4. RowsGood' /\ Steady  BY RowsStay DEF RereadTask
<1>5. PICK w : w = [handler[h] EXCEPT !.pc = "read", !.bound = task[t].bound]  OBVIOUS
<1>6. w \in GoodHandler
  <2>1. Free(t, task[t].bound) /\ task[t].bound \in 0 .. MaxTasks
    BY <1>3 DEF IInv, RowsGood, TaskRow
  <2> QED  BY <1>1, <1>2, <1>3, <1>5, <2>1 DEF GoodHandler, HandlerRow
<1>7. PICK m \in {Idle, w} : handler' = [handler EXCEPT ![h] = m]
  BY <1>1, <1>5 DEF RereadTask
<1>8. m \in GoodHandler'  BY <1>4, <1>6, <1>7, IdleGood, SetsGrow
<1>9. copying' \subseteq GoodCopy'  BY <1>4, CopiesStay DEF RereadTask
<1> QED  BY <1>2, <1>7, <1>8, <1>9, Untouched, PlainCall DEF RereadTask

LEMMA CheckOthersGood ==
    ASSUME IInv, NEW h \in Handlers, CheckOthers(h)
    PROVE  IInv'
<1>2. handler[h] \in GoodHandler /\ handler[h].pc = "others"
  BY DEF IInv, CallsGood, CheckOthers
<1>4. RowsGood' /\ Steady  BY RowsStay DEF CheckOthers
<1>5. PICK w : w = [handler[h] EXCEPT !.pc = "advance"]  OBVIOUS
<1>6. w \in GoodHandler  BY <1>2, <1>5 DEF GoodHandler, HandlerRow
<1>7. PICK m \in {Idle, w} : handler' = [handler EXCEPT ![h] = m]
  BY <1>5 DEF CheckOthers
<1>8. m \in GoodHandler'  BY <1>4, <1>6, <1>7, IdleGood, SetsGrow
<1>9. copying' \subseteq GoodCopy'  BY <1>4, CopiesStay DEF CheckOthers
<1> QED  BY <1>2, <1>7, <1>8, <1>9, Untouched, PlainCall DEF CheckOthers

LEMMA AdvanceRequestGood ==
    ASSUME IInv, NEW h \in Handlers, AdvanceRequest(h)
    PROVE  IInv'
<1>1. PICK me : me = handler[h]  OBVIOUS
<1>2. me \in GoodHandler /\ me.pc = "advance"
  BY <1>1 DEF IInv, CallsGood, AdvanceRequest
<1>3. PICK r : r = task[me.task].request  OBVIOUS
<1>4. r \in RequestIds  BY <1>2, <1>3 DEF GoodHandler, IInv, RowsGood
<1>5. RowsGood' /\ Steady  BY RowsStay DEF AdvanceRequest
<1>6. PICK S : S = IF me.ended THEN {} ELSE StepsAt(me.at + 1)  OBVIOUS
<1>7. PICK f \in SetToSeqs(S) : handler' = [handler EXCEPT ![h] = Doing(me, FirstItems(r, f))]
  BY <1>1, <1>3, <1>6 DEF AdvanceRequest
<1>8. FirstItems(r, f) \in Seq(GoodItem')
  <2>1. S \subseteq Names  BY <1>6 DEF StepsAt
  <2>2. FirstItems(r, f) \in Seq(GoodItem)  BY <1>4, <1>7, <2>1, FirstItemsGood
  <2>3. GoodItem \subseteq GoodItem'  BY <1>5, SetsGrow
  <2> QED  BY <2>2, <2>3
<1>9. PICK m : m = Doing(me, FirstItems(r, f))  OBVIOUS
<1>10. m \in GoodHandler'
  <2>1. me \in GoodHandler'  BY <1>2, <1>5, SetsGrow
  <2> QED  BY <1>5, <1>8, <1>9, <2>1, DoingGood
<1>11. PlacesGood'
  <2>1. PlacesGood  BY DEF IInv, TypeOK, PlacesGood
  <2>2. CASE UNCHANGED <<place, request>>  BY <2>1, <2>2 DEF PlacesGood
  <2>3. CASE ~UNCHANGED <<place, request>>
    <3>1. PICK v : v = IF me.ended THEN -1 ELSE me.at + 1  OBVIOUS
    <3>2. PICK q : q = [request[r] EXCEPT !.state = StateAt(me.at + 1),
                                          !.again = @ \/ (me.ended /\ StateAt(me.at + 1) = "running")]
      OBVIOUS
    <3>3. place' = [place EXCEPT ![r] = v] /\ request' = [request EXCEPT ![r] = q]
      BY <1>1, <1>3, <1>4, <2>1, <2>3, <3>1, <3>2 DEF AdvanceRequest, PlacesGood
    <3>4. me.at \in -1 .. LastLevel + 1 /\ me.ended \in BOOLEAN /\ (~me.ended => me.at <= LastLevel)
      BY <1>2 DEF GoodHandler, HandlerRow
    <3>5. v \in -1 .. LastLevel + 1  BY <3>1, <3>4, Sizes
    <3>6. q \in RequestRow /\ q.state = StateAt(me.at + 1)
      BY <1>4, <2>1, <3>2 DEF PlacesGood, RequestRow, StateAt
    <3>7. q.state # "ended" => v <= LastLevel
      <4>1. ASSUME q.state # "ended", ~me.ended PROVE me.at + 1 <= LastLevel
        <5>1. PICK n \in Names : Level[n] = me.at + 1 \/ Level[n] = me.at + 1 + 1
          BY <3>6, <4>1 DEF StateAt, StepsAt
        <5>2. Level[n] \in 1 .. LastLevel  BY StepAssumption
        <5> QED  BY <3>4, <5>1, <5>2, Sizes
      <4> QED  BY <3>1, <4>1, Sizes
    <3> QED  BY <2>1, <3>3, <3>5, <3>6, <3>7 DEF PlacesGood
  <2> QED  BY <2>2, <2>3
<1>12. copying' \subseteq GoodCopy'  BY <1>5, CopiesStay DEF AdvanceRequest
<1> QED  BY <1>1, <1>2, <1>7, <1>9, <1>10, <1>11, <1>12, Untouched, PlainCall DEF AdvanceRequest

----------------------------------------------------------------------------
(* Runs of UpdateDelegated: one is put in place of others, and its call     *)
(* waits on or goes on.                                                     *)
LEMMA RunGoesOn ==
    ASSUME IInv, Steady, NEW p \in spreading, NEW New, New \subseteq GoodSpread',
           spreading' = (spreading \ {p}) \cup New,
           \A q \in New : q.by \in {p.by, NoHandler},
           \A q, r \in New : q.by # NoHandler /\ q.by = r.by => q = r,
           UNCHANGED <<handler, copying>>
    PROVE  CallsGood' /\ RunsGood' /\ handler' \in [Handlers -> HandlerRow]
<1>1. CallsGood' /\ copying' \subseteq GoodCopy'
  BY SetsGrow, CopiesStay DEF IInv, CallsGood
<1>2. spreading' \subseteq GoodSpread'  BY SetsGrow DEF IInv, RunsGood
<1>3. \A q \in spreading' : q.by # NoHandler => handler'[q.by].pc = "spread"
  BY DEF IInv, RunsGood
<1>4. \A q, r \in spreading' : q.by # NoHandler /\ q.by = r.by => q = r
  <2> SUFFICES ASSUME NEW q \in spreading', NEW r \in spreading', q.by # NoHandler, q.by = r.by
               PROVE  q = r
    OBVIOUS
  <2>1. \A a, b \in spreading : a.by # NoHandler /\ a.by = b.by => a = b
    BY DEF IInv, RunsGood
  <2>2. CASE q \in New /\ r \in New  BY <2>2
  <2>3. CASE q \in New /\ r \notin New
    <3>1. q.by = p.by /\ r \in spreading /\ r # p  BY <2>3
    <3> QED  BY <3>1, <2>1
  <2>4. CASE q \notin New /\ r \in New
    <3>1. r.by = p.by /\ q \in spreading /\ q # p  BY <2>4
    <3> QED  BY <3>1, <2>1
  <2>5. CASE q \notin New /\ r \notin New  BY <2>1, <2>5
  <2> QED  BY <2>2, <2>3, <2>4, <2>5
<1> QED  BY <1>1, <1>2, <1>3, <1>4, Untouched DEF RunsGood

LEMMA RunEnds ==
    ASSUME IInv, Steady, NEW p \in spreading, NEW New, New \subseteq GoodSpread',
           spreading' = (spreading \ {p}) \cup New,
           \A q \in New : q.by = NoHandler,
           handler' = IF p.by = NoHandler THEN handler ELSE [handler EXCEPT ![p.by].pc = "others"],
           UNCHANGED copying
    PROVE  CallsGood' /\ RunsGood' /\ handler' \in [Handlers -> HandlerRow]
<1>1. CASE p.by = NoHandler
  BY <1>1, RunGoesOn
<1>2. CASE p.by # NoHandler
  <2>1. PICK h \in Handlers : h = p.by  BY <1>2 DEF IInv, TypeOK, Spread
  <2>2. handler[h].pc = "spread" /\ handler[h] \in GoodHandler
    BY <1>2, <2>1 DEF IInv, RunsGood, CallsGood
  <2>3. handler \in [Handlers -> HandlerRow]  BY DEF IInv, TypeOK
  <2>4. PICK m : m = [handler[h] EXCEPT !.pc = "others"]  OBVIOUS
  <2>5. handler' = [handler EXCEPT ![h] = m]  BY <1>2, <2>1, <2>3, <2>4
  <2>6. m \in GoodHandler /\ m \in HandlerRow  BY <2>2, <2>4 DEF GoodHandler, HandlerRow
  <2>7. \A g \in Handlers : handler'[g] = IF g = h THEN m ELSE handler[g]  BY <2>3, <2>5
  <2>8. CallsGood' /\ copying' \subseteq GoodCopy'
    BY <2>6, <2>7, SetsGrow, CopiesStay DEF IInv, CallsGood
  <2>9. spreading' \subseteq GoodSpread'  BY SetsGrow DEF IInv, RunsGood
  <2>10. \A q, r \in spreading' : q.by # NoHandler /\ q.by = r.by => q = r
    BY DEF IInv, RunsGood
  <2>11. ASSUME NEW q \in spreading', q.by # NoHandler PROVE handler'[q.by].pc = "spread"
    <3>1. q \in spreading /\ q # p  BY <2>11
    <3>2. q.by # h /\ handler[q.by].pc = "spread"
      BY <1>2, <2>1, <2>11, <3>1 DEF IInv, RunsGood
    <3>3. q.by \in Handlers  BY <2>11, <3>1 DEF IInv, TypeOK, Spread
    <3> QED  BY <2>7, <3>2, <3>3
  <2> QED  BY <2>3, <2>5, <2>6, <2>8, <2>9, <2>10, <2>11 DEF RunsGood
<1> QED  BY <1>1, <1>2

(* The task a run starts from, and what it may be bound to.                 *)
LEMMA FreeMade ==
    ASSUME NEW t, NEW o, Free(t, o), o # 0
    PROVE  o \in Made /\ Kin(t, o)
BY DEF Free, Kin

LEMMA SelfFree == ASSUME NEW t \in Made PROVE Free(t, t)
BY DEF Free, Kin, Of

LEMMA RunGood ==
    ASSUME IInv, NEW t \in Made, NEW b \in 0 .. MaxTasks, Free(t, b), NEW c \in BOOLEAN,
           NEW by \in Handlers \cup {NoHandler}
    PROVE  Run(t, b, c, by) \in GoodSpread
<1>1. Run(t, b, c, by) \in Spread
  BY Sizes DEF Run, Spread, Made
<1> QED  BY <1>1 DEF Run, GoodSpread

LEMMA ReadRequestGood ==
    ASSUME IInv, NEW h \in Handlers, ReadRequest(h)
    PROVE  IInv'
<1>1. PICK me : me = handler[h]  OBVIOUS
<1>2. me \in GoodHandler /\ me.pc = "read" /\ me \in HandlerRow
  BY <1>1 DEF IInv, CallsGood, ReadRequest, GoodHandler
<1>3. RowsGood' /\ Steady  BY RowsStay DEF ReadRequest
<1>4. PICK a : a = place[task[me.task].request]  OBVIOUS
<1>40. PICK e : e = (request[task[me.task].request].state = "ended")  OBVIOUS
<1>5. a \in -1 .. LastLevel + 1 /\ e \in BOOLEAN /\ (~e => a <= LastLevel)
  BY <1>2, <1>4, <1>40 DEF GoodHandler, IInv, RowsGood, TypeOK
<1>6. PICK m : m = [me EXCEPT !.pc = "spread", !.at = a, !.ended = e]  OBVIOUS
<1>7. m \in GoodHandler  BY <1>2, <1>5, <1>6 DEF GoodHandler, HandlerRow
<1>8. m \in GoodHandler' /\ m \in HandlerRow
  BY <1>3, <1>7, SetsGrow DEF GoodHandler
<1>9. handler \in [Handlers -> HandlerRow]  BY DEF IInv, TypeOK
<1>10. handler' = [handler EXCEPT ![h] = m]
  BY <1>1, <1>4, <1>40, <1>6, <1>9 DEF ReadRequest
<1>11. \A g \in Handlers : handler'[g] = IF g = h THEN m ELSE handler[g]  BY <1>9, <1>10
<1>12. PICK new : new = Run(me.task, me.bound, TRUE, h)  OBVIOUS
<1>13. spreading' = spreading \cup {new}  BY <1>1, <1>12 DEF ReadRequest
<1>14. new \in GoodSpread' /\ new.by = h
  <2>1. new \in GoodSpread  BY <1>2, <1>12, RunGood DEF GoodHandler, HandlerRow
  <2> QED  BY <1>3, <1>12, <2>1, SetsGrow DEF Run
<1>15. CallsGood'  BY <1>3, <1>8, <1>11, SetsGrow DEF IInv, CallsGood
<1>16. \A q \in spreading : q.by # h
  BY <1>1, <1>2, StepAssumption DEF IInv, RunsGood
<1>17. \A q \in spreading : q.by # NoHandler => q.by \in Handlers
  BY DEF IInv, TypeOK, Spread
<1>18. RunsGood'
  <2>1. copying' \subseteq GoodCopy'  BY <1>3, CopiesStay DEF ReadRequest
  <2>2. spreading' \subseteq GoodSpread'  BY <1>3, <1>13, <1>14, SetsGrow DEF IInv, RunsGood
  <2>3. \A q \in spreading' : q.by # NoHandler => handler'[q.by].pc = "spread"
    BY <1>6, <1>2, <1>11, <1>13, <1>14, <1>16, <1>17 DEF IInv, RunsGood, HandlerRow
  <2>4. \A q, r \in spreading' : q.by # NoHandler /\ q.by = r.by => q = r
    BY <1>13, <1>14, <1>16 DEF IInv, RunsGood
  <2> QED  BY <2>1, <2>2, <2>3, <2>4 DEF RunsGood
<1>19. handler' \in [Handlers -> HandlerRow]  BY <1>8, <1>9, <1>10
<1> QED  BY <1>3, <1>15, <1>18, <1>19, Untouched, Whole DEF ReadRequest

LEMMA FindAboveGood ==
    ASSUME IInv, NEW p \in spreading, FindAbove(p)
    PROVE  IInv'
<1>1. p \in GoodSpread /\ p \in Spread  BY DEF IInv, RunsGood, TypeOK
<1>2. RowsGood' /\ Steady  BY RowsStay DEF FindAbove
<1>3. PICK q : q = IF p.bound # 0 /\ IsOpen(p.bound)
                   THEN [p EXCEPT !.pc = "upWrite", !.above = task[p.bound].bound]
                   ELSE [p EXCEPT !.pc = "down"]
  OBVIOUS
<1>4. q \in GoodSpread
  <2>1. CASE p.bound # 0 /\ IsOpen(p.bound)
    <3>1. p.bound \in Made /\ Free(p.bound, task[p.bound].bound)
      BY <1>1, <2>1, FreeMade DEF GoodSpread, IInv, RowsGood
    <3>2. task[p.bound].bound \in 0 .. MaxTasks
      BY <3>1, TaskTable DEF Made, TaskRow
    <3>3. q = [p EXCEPT !.pc = "upWrite", !.above = task[p.bound].bound]
      BY <1>3, <2>1
    <3>4. q \in Spread  BY <1>1, <3>2, <3>3 DEF Spread
    <3> QED  BY <1>1, <2>1, <3>1, <3>3, <3>4 DEF GoodSpread, Spread
  <2>2. CASE ~(p.bound # 0 /\ IsOpen(p.bound))
    BY <1>1, <1>3, <2>2 DEF GoodSpread, Spread
  <2> QED  BY <2>1, <2>2
<1>5. q.by = p.by  BY <1>1, <1>3 DEF Spread
<1>6. PICK new : new = {q}  OBVIOUS
<1>61. spreading' = (spreading \ {p}) \cup new /\ UNCHANGED handler
  BY <1>3, <1>6 DEF FindAbove, Becomes
<1>7. /\ new \subseteq GoodSpread' /\ \A a \in new : a.by \in {p.by, NoHandler}
      /\ \A a, b \in new : a.by # NoHandler /\ a.by = b.by => a = b
  BY <1>2, <1>4, <1>5, <1>6, SetsGrow
<1>8. CallsGood' /\ RunsGood' /\ handler' \in [Handlers -> HandlerRow]
  BY <1>2, <1>61, <1>7, RunGoesOn DEF FindAbove
<1> QED  BY <1>2, <1>8, Untouched, Whole DEF FindAbove

LEMMA WritesGood ==
    ASSUME IInv, NEW p \in Spread, NEW t \in Made, NEW b \in 0 .. MaxTasks, Free(t, b),
           Writes(t, p, b), UNCHANGED <<delegation, nextTask, nextDelegation>>
    PROVE  Steady /\ RowsGood' /\ task' \in [TaskIds -> TaskRow]
<1>1. task \in [TaskIds -> TaskRow] /\ t \in TaskIds  BY TaskTable DEF Made
<1>2. PICK row : row = Written(task[t], p, b)  OBVIOUS
<1>3. task' = [task EXCEPT ![t] = row] \/ task' = task
  BY <1>1, <1>2 DEF Writes
<1>4. task[t] \in TaskRow  BY <1>1
<1>5. /\ row \in TaskRow /\ row.request = task[t].request /\ row.name = task[t].name
      /\ row.user = task[t].user /\ row.bound = b /\ row.entity = task[t].entity
  BY <1>2, <1>4 DEF Written, TaskRow
<1>6. task' \in [TaskIds -> TaskRow]  BY <1>1, <1>3, <1>5
<1>7. \A s \in TaskIds : \/ task'[s] = task[s]
                         \/ (s = t /\ task'[s] = row)
  BY <1>1, <1>3
<1>8. \A s \in TaskIds : /\ task'[s].request = task[s].request /\ task'[s].name = task[s].name
                         /\ task'[s].user = task[s].user /\ task'[s].entity = task[s].entity
  BY <1>5, <1>7
<1>9. \A s \in TaskIds \ Made : task'[s] = task[s]  BY <1>7
<1>10. \A s \in Made : task'[s].bound = task[s].bound \/ Free(s, task'[s].bound)
  BY <1>5, <1>7 DEF Made
<1> QED  BY <1>6, <1>8, <1>9, <1>10, Rewritten

LEMMA WriteAboveGood ==
    ASSUME IInv, NEW p \in spreading, WriteAbove(p)
    PROVE  IInv'
<1>1. p \in GoodSpread /\ p \in Spread  BY DEF IInv, RunsGood, TypeOK
<1>2. /\ p.bound \in Made /\ p.bound \in 0 .. MaxTasks /\ p.above \in 0 .. MaxTasks
      /\ Free(p.bound, p.bound) /\ Free(p.bound, p.above)
  BY <1>1, FreeMade, SelfFree DEF WriteAbove, GoodSpread, Spread
<1>3. Steady /\ RowsGood' /\ task' \in [TaskIds -> TaskRow]
  BY <1>1, <1>2, WritesGood DEF WriteAbove
<1>4. PICK q : q = [p EXCEPT !.pc = "down"]  OBVIOUS
<1>5. PICK r : r = Run(p.bound, p.above, FALSE, NoHandler)  OBVIOUS
<1>6. q \in GoodSpread /\ q.by = p.by  BY <1>1, <1>4 DEF GoodSpread, Spread
<1>7. r \in GoodSpread /\ r.by = NoHandler
  <2>1. r \in GoodSpread  BY <1>2, <1>5, RunGood
  <2> QED  BY <1>5, <2>1 DEF Run
<1>8. PICK new : new = {q, r}  OBVIOUS
<1>9. spreading' = (spreading \ {p}) \cup new
  BY <1>4, <1>5, <1>8 DEF WriteAbove
<1>10. /\ new \subseteq GoodSpread' /\ \A a \in new : a.by \in {p.by, NoHandler}
       /\ \A a, b \in new : a.by # NoHandler /\ a.by = b.by => a = b
  BY <1>3, <1>6, <1>7, <1>8, SetsGrow
<1>11. CallsGood' /\ RunsGood' /\ handler' \in [Handlers -> HandlerRow]
  BY <1>3, <1>9, <1>10, RunGoesOn DEF WriteAbove
<1> QED  BY <1>3, <1>11, Untouched, Whole DEF WriteAbove

(* What is bound to a task is its kin.                                      *)
LEMMA BoundKin ==
    ASSUME IInv, NEW t \in TaskIds, Exists(t), NEW o \in TaskIds, task[t].bound = o
    PROVE  Kin(t, o)
<1>1. t \in Made  BY ExistsMade
<1>2. Free(t, o)  BY <1>1 DEF IInv, RowsGood
<1>3. o # 0  BY Sizes
<1> QED  BY <1>2, <1>3 DEF Free

LEMMA FindBelowGood ==
    ASSUME IInv, NEW p \in spreading, FindBelow(p)
    PROVE  IInv'
<1>1. p \in GoodSpread /\ p \in Spread  BY DEF IInv, RunsGood, TypeOK
<1>2. RowsGood' /\ Steady  BY RowsStay DEF FindBelow
<1>3. CASE Below(p) = {}
  <2>0. PICK new : new = {}  OBVIOUS
  <2>1. /\ spreading' = (spreading \ {p}) \cup new
        /\ handler' = IF p.by = NoHandler THEN handler ELSE [handler EXCEPT ![p.by].pc = "others"]
    BY <1>3, <2>0 DEF FindBelow, Ends
  <2>2. new \subseteq GoodSpread' /\ \A q \in new : q.by = NoHandler  BY <2>0
  <2>3. CallsGood' /\ RunsGood' /\ handler' \in [Handlers -> HandlerRow]
    BY <1>2, <2>1, <2>2, RunEnds DEF FindBelow
  <2> QED  BY <1>2, <2>3, Untouched, Whole DEF FindBelow
<1>4. CASE Below(p) # {}
  <2>1. PICK rows : rows = Below(p)  OBVIOUS
  <2>2. PICK q : q = [p EXCEPT !.pc = "downWrite", !.rows = rows]  OBVIOUS
  <2>3. \A t \in rows : Kin(t, p.task)
    BY <1>1, <2>1, BoundKin DEF Below, IsOpen, Exists, Spread
  <2>4. q \in Spread /\ q.by = p.by
    BY <1>1, <2>1, <2>2 DEF Below, Spread
  <2>5. q \in GoodSpread  BY <1>1, <2>2, <2>3, <2>4 DEF GoodSpread, Spread
  <2>0. PICK new : new = {q}  OBVIOUS
  <2>6. spreading' = (spreading \ {p}) \cup new /\ UNCHANGED handler
    BY <1>4, <2>0, <2>1, <2>2 DEF FindBelow, Becomes
  <2>7. /\ new \subseteq GoodSpread' /\ \A a \in new : a.by \in {p.by, NoHandler}
        /\ \A a, b \in new : a.by # NoHandler /\ a.by = b.by => a = b
    BY <1>2, <2>0, <2>4, <2>5, SetsGrow
  <2>8. CallsGood' /\ RunsGood' /\ handler' \in [Handlers -> HandlerRow]
    BY <1>2, <2>6, <2>7, RunGoesOn DEF FindBelow
  <2> QED  BY <1>2, <2>8, Untouched, Whole DEF FindBelow
<1> QED  BY <1>3, <1>4

LEMMA WriteBelowGood ==
    ASSUME IInv, NEW p \in spreading, NEW t \in p.rows, WriteBelow(p, t)
    PROVE  IInv'
<1>1. p \in GoodSpread /\ p \in Spread  BY DEF IInv, RunsGood, TypeOK
<1>2. /\ t \in Made /\ p.task \in 0 .. MaxTasks /\ Free(t, p.task)
  BY <1>1, Sizes DEF GoodSpread, Spread, Kin, Of, Free
<1>3. Steady /\ RowsGood' /\ task' \in [TaskIds -> TaskRow]
  BY <1>1, <1>2, WritesGood DEF WriteBelow
<1>4. PICK q : q = [p EXCEPT !.rows = p.rows \ {t}]  OBVIOUS
<1>5. PICK r : r = Run(t, p.task, FALSE, NoHandler)  OBVIOUS
<1>6. q \in GoodSpread /\ q.by = p.by  BY <1>1, <1>4 DEF GoodSpread, Spread
<1>7. r \in GoodSpread /\ r.by = NoHandler
  <2>1. r \in GoodSpread  BY <1>2, <1>5, RunGood
  <2> QED  BY <1>5, <2>1 DEF Run
<1>8. CASE p.rows = {t}
  <2>0. PICK new : new = {r}  OBVIOUS
  <2>1. spreading' = (spreading \ {p}) \cup new
    BY <1>5, <1>8, <2>0 DEF WriteBelow
  <2>2. new \subseteq GoodSpread' /\ \A a \in new : a.by = NoHandler
    BY <1>3, <1>7, <2>0, SetsGrow
  <2>3. handler' = IF p.by = NoHandler THEN handler ELSE [handler EXCEPT ![p.by].pc = "others"]
    BY <1>8 DEF WriteBelow
  <2>4. CallsGood' /\ RunsGood' /\ handler' \in [Handlers -> HandlerRow]
    BY <1>3, <2>1, <2>2, <2>3, RunEnds DEF WriteBelow
  <2> QED  BY <1>3, <2>4, Untouched, Whole DEF WriteBelow
<1>9. CASE p.rows # {t}
  <2>1. PICK new : new = {q, r}  OBVIOUS
  <2>2. spreading' = (spreading \ {p}) \cup new /\ UNCHANGED handler
    BY <1>4, <1>5, <1>9, <2>1 DEF WriteBelow
  <2>3. /\ new \subseteq GoodSpread' /\ \A a \in new : a.by \in {p.by, NoHandler}
        /\ \A a, b \in new : a.by # NoHandler /\ a.by = b.by => a = b
    BY <1>3, <1>6, <1>7, <2>1, SetsGrow
  <2>4. CallsGood' /\ RunsGood' /\ handler' \in [Handlers -> HandlerRow]
    BY <1>3, <2>2, <2>3, RunGoesOn DEF WriteBelow
  <2> QED  BY <1>3, <2>4, Untouched, Whole DEF WriteBelow
<1> QED  BY <1>8, <1>9

----------------------------------------------------------------------------
LEMMA DelegationTable ==
    ASSUME IInv
    PROVE  /\ delegation \in [DelegationIds -> DelegationRow]
           /\ nextDelegation \in 1 .. MaxDelegations + 1 /\ nextDelegation \in Int
           /\ nextTask \in 1 .. MaxTasks + 1 /\ nextTask \in Int
BY Sizes DEF IInv, TypeOK

(* Rows of delegations whose window or existence is written.                *)
LEMMA DelegationWritten ==
    ASSUME IInv, NEW d \in MadeDelegations, NEW row \in DelegationRow,
           delegation' = [delegation EXCEPT ![d] = row],
           row.from \in Users, row.to \in Users,
           UNCHANGED <<task, nextTask, nextDelegation>>
    PROVE  Steady /\ RowsGood' /\ delegation' \in [DelegationIds -> DelegationRow]
<1>1. Steady  BY Sizes DEF Steady, IInv, TypeOK
<1>2. /\ Made' = Made /\ MadeDelegations' = MadeDelegations
      /\ \A t, o : Free(t, o) => Free(t, o)'
  BY <1>1, Grows DEF Made, MadeDelegations
<1>3. delegation \in [DelegationIds -> DelegationRow] /\ d \in DelegationIds
  BY DelegationTable DEF MadeDelegations
<1>4. \A e \in DelegationIds : delegation'[e] = IF e = d THEN row ELSE delegation[e]
  BY <1>3
<1>5. ASSUME NEW t \in Made
      PROVE  /\ task'[t].request \in RequestIds /\ task'[t].name \in Names
             /\ task'[t].user \in Users /\ Free(t, task[t].bound)'
             /\ task'[t].entity \in {NoEntity, Entity[task'[t].name]}
  <2>1. PICK o : o = task[t].bound  OBVIOUS
  <2>2. Free(t, o)'  BY <1>2, <2>1 DEF IInv, RowsGood
  <2>3. Free(t, task[t].bound)'  BY <2>1, <2>2
  <2> QED  BY <2>3 DEF IInv, RowsGood
<1>6. \A e \in MadeDelegations : delegation'[e].from \in Users /\ delegation'[e].to \in Users
  BY <1>4 DEF IInv, RowsGood, MadeDelegations
<1>7. \A e \in DelegationIds \ MadeDelegations : delegation'[e] = NoDelegation
  BY <1>4 DEF IInv, RowsGood
<1>8. \A t \in TaskIds \ Made : task'[t] = NoTask  BY DEF IInv, RowsGood
<1> QED  BY <1>1, <1>2, <1>3, <1>5, <1>6, <1>7, <1>8 DEF RowsGood

(* A call that starts with, or goes on from, a delegation.                  *)
LEMMA AtDelegation ==
    ASSUME IInv, Steady, NEW d \in MadeDelegations', NEW u \in Users \cup {NoUser},
           NEW pc \in {"trigger", "unshare", "rivals", "withdraw"}
    PROVE  [Idle EXCEPT !.pc = pc, !.user = u, !.delegation = d] \in GoodHandler'
<1>1. d \in 0 .. MaxDelegations  BY Sizes DEF MadeDelegations
<1>2. [Idle EXCEPT !.pc = pc, !.user = u, !.delegation = d] \in HandlerRow
  BY <1>1, IdleGood DEF GoodHandler, HandlerRow, Idle
<1> QED  BY <1>2, IdleGood DEF GoodHandler, Idle

LEMMA TriggersGood ==
    ASSUME IInv, Steady, NEW h \in Handlers, NEW u \in Users, NEW d \in MadeDelegations',
           handler[h].pc = "idle", Triggers(h, u, d), UNCHANGED <<copying, spreading>>
    PROVE  CallsGood' /\ RunsGood' /\ handler' \in [Handlers -> HandlerRow]
<1>1. PICK w : w = [Idle EXCEPT !.pc = "trigger", !.user = u, !.delegation = d]  OBVIOUS
<1>2. w \in GoodHandler'  BY <1>1, AtDelegation
<1>3. PICK m \in {Idle, w} : handler' = [handler EXCEPT ![h] = m]
  BY <1>1 DEF Triggers
<1>4. m \in GoodHandler'  BY <1>2, <1>3, IdleGood
<1> QED  BY <1>3, <1>4, CopiesStay, CallStep

LEMMA CreateDelegationGood ==
    ASSUME IInv, NEW h \in Handlers, NEW u \in Users, NEW v \in Users, NEW t \in 0 .. MaxTasks,
           NEW w \in {"coming", "current"}, CreateDelegation(h, u, v, t, w)
    PROVE  IInv'
<1>1. handler[h].pc = "idle" /\ calls' \in 0 .. MaxCalls  BY Accepted DEF CreateDelegation
<1>2. PICK row : row = [exists |-> TRUE, window |-> w, from |-> u, to |-> v, task |-> t]  OBVIOUS
<1>3. PICK d : d = nextDelegation  OBVIOUS
<1>4. row \in DelegationRow  BY <1>2 DEF DelegationRow
<1>5. /\ d \in DelegationIds /\ nextDelegation' = d + 1
      /\ delegation' = [delegation EXCEPT ![d] = row]
  BY <1>2, <1>3, DelegationTable, Sizes DEF CreateDelegation
<1>6. Steady
  BY <1>3, <1>5, DelegationTable, Sizes DEF Steady, CreateDelegation
<1>7. Made' = Made /\ MadeDelegations' = MadeDelegations \cup {d}
  BY <1>3, <1>5, DelegationTable DEF Made, MadeDelegations, CreateDelegation
<1>8. \A e \in DelegationIds : delegation'[e] = IF e = d THEN row ELSE delegation[e]
  BY <1>5, DelegationTable
<1>9. delegation' \in [DelegationIds -> DelegationRow]
  BY <1>4, <1>5, DelegationTable
<1>10. RowsGood'
  <2>1. ASSUME NEW s \in Made
        PROVE  /\ task'[s].request \in RequestIds /\ task'[s].name \in Names
               /\ task'[s].user \in Users /\ Free(s, task[s].bound)'
               /\ task'[s].entity \in {NoEntity, Entity[task'[s].name]}
    <3>1. PICK o : o = task[s].bound  OBVIOUS
    <3>2. Free(s, o)  BY <3>1 DEF IInv, RowsGood
    <3>3. Free(s, o)'  BY <3>2, <1>6, Grows
    <3>4. Free(s, task[s].bound)'  BY <3>1, <3>3 DEF CreateDelegation
    <3> QED  BY <3>4 DEF IInv, RowsGood, CreateDelegation
  <2>2. \A e \in MadeDelegations' : delegation'[e].from \in Users /\ delegation'[e].to \in Users
    BY <1>2, <1>7, <1>8 DEF IInv, RowsGood, MadeDelegations
  <2>3. \A e \in DelegationIds \ MadeDelegations' : delegation'[e] = NoDelegation
    BY <1>7, <1>8 DEF IInv, RowsGood
  <2>4. \A s \in TaskIds \ Made' : task'[s] = NoTask
    BY <1>7 DEF IInv, RowsGood, CreateDelegation
  <2> QED  BY <1>7, <2>1, <2>2, <2>3, <2>4 DEF RowsGood
<1>11. d \in MadeDelegations'  BY <1>7
<1>12. Triggers(h, u, d)  BY <1>3 DEF CreateDelegation
<1>13. CallsGood' /\ RunsGood' /\ handler' \in [Handlers -> HandlerRow]
  BY <1>1, <1>6, <1>11, <1>12, TriggersGood DEF CreateDelegation
<1> QED  BY <1>1, <1>6, <1>9, <1>10, <1>13, Untouched, Whole DEF CreateDelegation

LEMMA UpdateDelegationGood ==
    ASSUME IInv, NEW h \in Handlers, NEW u \in Users, NEW d \in DelegationIds,
           UpdateDelegation(h, u, d)
    PROVE  IInv'
<1>1. handler[h].pc = "idle" /\ calls' \in 0 .. MaxCalls  BY Accepted DEF UpdateDelegation
<1>2. RowsGood' /\ Steady  BY RowsStay DEF UpdateDelegation
<1>3. d \in MadeDelegations'  BY <1>2, CurrentMade, Grows DEF UpdateDelegation
<1>4. CallsGood' /\ RunsGood' /\ handler' \in [Handlers -> HandlerRow]
  BY <1>1, <1>2, <1>3, TriggersGood DEF UpdateDelegation
<1> QED  BY <1>1, <1>2, <1>4, Untouched, Whole DEF UpdateDelegation

(* A step that no call and no goroutine takes part in.                      *)
LEMMA Unmoved ==
    ASSUME IInv, Steady, UNCHANGED <<handler, copying, spreading>>
    PROVE  CallsGood' /\ RunsGood' /\ handler' \in [Handlers -> HandlerRow]
<1>1. CallsGood'  BY SetsGrow DEF IInv, CallsGood
<1>2. RunsGood'  BY SetsGrow DEF IInv, RunsGood
<1> QED  BY <1>1, <1>2, Untouched

LEMMA TodayGood ==
    ASSUME IInv, NEW d \in DelegationIds, NEW w \in {"current", "past"}, Today(d, w)
    PROVE  IInv'
<1>1. PICK row : row = [delegation[d] EXCEPT !.window = w]  OBVIOUS
<1>2. d \in MadeDelegations /\ delegation[d] \in DelegationRow
  BY CurrentMade, DelegationTable DEF Today
<1>3. row \in DelegationRow /\ row.from \in Users /\ row.to \in Users
  BY <1>1, <1>2 DEF DelegationRow, IInv, RowsGood
<1>4. delegation' = [delegation EXCEPT ![d] = row]
  BY <1>1, DelegationTable DEF Today
<1>5. Steady /\ RowsGood' /\ delegation' \in [DelegationIds -> DelegationRow]
  BY <1>2, <1>3, <1>4, DelegationWritten DEF Today
<1>6. CallsGood' /\ RunsGood' /\ handler' \in [Handlers -> HandlerRow]
  BY <1>5, Unmoved DEF Today
<1> QED  BY <1>5, <1>6, Untouched, Whole DEF Today

LEMMA DeletesRowGood ==
    ASSUME IInv, NEW h \in Handlers, NEW u \in Users \cup {NoUser}, NEW d \in DelegationIds,
           DeletesRow(h, u, d)
    PROVE  IInv'
<1>0. handler[h].pc = "idle" /\ calls' \in 0 .. MaxCalls  BY Accepted DEF DeletesRow
<1>1. PICK row : row = [delegation[d] EXCEPT !.exists = FALSE]  OBVIOUS
<1>2. d \in MadeDelegations /\ delegation[d] \in DelegationRow
  BY CurrentMade, DelegationTable DEF DeletesRow
<1>3. row \in DelegationRow /\ row.from \in Users /\ row.to \in Users
  BY <1>1, <1>2 DEF DelegationRow, IInv, RowsGood
<1>4. delegation' = [delegation EXCEPT ![d] = row]
  BY <1>1, DelegationTable DEF DeletesRow
<1>5. Steady /\ RowsGood' /\ delegation' \in [DelegationIds -> DelegationRow]
  BY <1>2, <1>3, <1>4, DelegationWritten DEF DeletesRow
<1>6. PICK m : m = [Idle EXCEPT !.pc = "unshare", !.user = u, !.delegation = d]  OBVIOUS
<1>7. m \in GoodHandler'  BY <1>2, <1>5, <1>6, Grows, AtDelegation
<1>8. handler' = [handler EXCEPT ![h] = m]  BY <1>6 DEF DeletesRow
<1>9. CallsGood' /\ RunsGood' /\ handler' \in [Handlers -> HandlerRow]
  BY <1>0, <1>5, <1>7, <1>8, CopiesStay, CallStep DEF DeletesRow
<1> QED  BY <1>0, <1>5, <1>9, Untouched, Whole DEF DeletesRow

LEMMA TriggerDailyGood ==
    ASSUME IInv, NEW h \in Handlers, NEW d \in DelegationIds, TriggerDaily(h, d)
    PROVE  IInv'
<1>1. handler[h].pc = "idle" /\ calls' \in 0 .. MaxCalls  BY Accepted DEF TriggerDaily
<1>2. RowsGood' /\ Steady  BY RowsStay DEF TriggerDaily
<1>3. d \in MadeDelegations'  BY <1>2, CurrentMade, Grows DEF TriggerDaily, Current
<1>4. PICK m : m = [Idle EXCEPT !.pc = "trigger", !.delegation = d]  OBVIOUS
<1>5. m \in HandlerRow
  <2>1. d \in 0 .. MaxDelegations  BY Sizes
  <2>2. Idle \in HandlerRow  BY IdleGood DEF GoodHandler
  <2> QED  BY <1>4, <2>1, <2>2 DEF HandlerRow
<1>6. m \in GoodHandler'  BY <1>3, <1>4, <1>5, IdleGood DEF GoodHandler, Idle
<1>7. copying' \subseteq GoodCopy'  BY <1>2, CopiesStay DEF TriggerDaily
<1>8. handler' = [handler EXCEPT ![h] = m]  BY <1>4 DEF TriggerDaily
<1> QED  BY <1>1, <1>6, <1>7, <1>8, Untouched, PlainCall DEF TriggerDaily

LEMMA TriggerGood ==
    ASSUME IInv, NEW h \in Handlers, Trigger(h)
    PROVE  IInv'
<1>1. PICK d : d = handler[h].delegation  OBVIOUS
<1>2. handler[h] \in GoodHandler /\ handler[h].pc = "trigger"
  BY DEF IInv, CallsGood, Trigger
<1>3. d \in MadeDelegations  BY <1>1, <1>2 DEF GoodHandler
<1>4. PICK rows \in SUBSET TaskIds :
         /\ \A t \in rows : IsOpen(t)
         /\ copying' = copying \cup {[delegation |-> d, task |-> t, pc |-> "share"] : t \in rows}
  <2>1. PICK rows : rows = {t \in TaskIds : IsOpen(t) /\ IF delegation[d].task = 0
                               THEN \/ task[t].user = delegation[d].from
                                    \/ task[t].entity \in EntitiesOf(delegation[d].from)
                               ELSE t = delegation[d].task}
    OBVIOUS
  <2>2. copying' = copying \cup {[delegation |-> d, task |-> t, pc |-> "share"] : t \in rows}
    BY <1>1, <2>1 DEF Trigger
  <2>3. rows \subseteq TaskIds /\ \A t \in rows : IsOpen(t)  BY <2>1
  <2> QED  BY <2>2, <2>3
<1>5. RowsGood' /\ Steady  BY RowsStay DEF Trigger
<1>6. copying' \subseteq GoodCopy'
  <2>1. ASSUME NEW t \in rows PROVE [delegation |-> d, task |-> t, pc |-> "share"] \in GoodCopy
    <3>1. t \in Made  BY <1>4, <2>1, ExistsMade DEF IsOpen, Exists
    <3> QED  BY <1>3, <3>1 DEF GoodCopy, Copy, Made, MadeDelegations
  <2>2. copying' \subseteq GoodCopy  BY <1>4, <2>1 DEF IInv, RunsGood
  <2> QED  BY <1>5, <2>2, SetsGrow
<1>7. handler' = [handler EXCEPT ![h] = Idle]  BY DEF Trigger
<1> QED  BY <1>2, <1>6, <1>7, IdleGood, Untouched, PlainCall DEF Trigger

LEMMA DeleteSharesGood ==
    ASSUME IInv, NEW h \in Handlers, DeleteShares(h)
    PROVE  IInv'
<1>1. handler[h] \in GoodHandler /\ handler[h].pc = "unshare"
  BY DEF IInv, CallsGood, DeleteShares
<1>2. RowsGood' /\ Steady  BY RowsStay DEF DeleteShares
<1>3. PICK m : m = [handler[h] EXCEPT !.pc = "rivals"]  OBVIOUS
<1>4. m \in GoodHandler  BY <1>1, <1>3 DEF GoodHandler, HandlerRow
<1>5. m \in GoodHandler'  BY <1>2, <1>4, SetsGrow
<1>6. handler' = [handler EXCEPT ![h] = m]  BY <1>3 DEF DeleteShares, IInv, TypeOK
<1>7. share' \subseteq ShareRow  BY DEF DeleteShares, IInv, TypeOK
<1>8. copying' \subseteq GoodCopy'  BY <1>2, CopiesStay DEF DeleteShares
<1> QED  BY <1>1, <1>5, <1>6, <1>7, <1>8, Untouched, PlainCall DEF DeleteShares

LEMMA FindRivalsGood ==
    ASSUME IInv, NEW h \in Handlers, FindRivals(h)
    PROVE  IInv'
<1>1. handler[h] \in GoodHandler /\ handler[h].pc = "rivals"
  BY DEF IInv, CallsGood, FindRivals
<1>2. RowsGood' /\ Steady  BY RowsStay DEF FindRivals
<1>3. PICK w : w = [handler[h] EXCEPT !.pc = "withdraw"]  OBVIOUS
<1>4. w \in GoodHandler  BY <1>1, <1>3 DEF GoodHandler, HandlerRow
<1>5. PICK m \in {Idle, w} : handler' = [handler EXCEPT ![h] = m]
  BY <1>3 DEF FindRivals
<1>6. m \in GoodHandler'  BY <1>2, <1>4, <1>5, IdleGood, SetsGrow
<1>7. copying' \subseteq GoodCopy'  BY <1>2, CopiesStay DEF FindRivals
<1> QED  BY <1>1, <1>5, <1>6, <1>7, Untouched, PlainCall DEF FindRivals

LEMMA WithdrawCopiesGood ==
    ASSUME IInv, NEW h \in Handlers, WithdrawCopies(h)
    PROVE  IInv'
<1>1. handler[h].pc = "withdraw"  BY DEF WithdrawCopies
<1>2. PICK copies : /\ \A t \in copies : IsOpen(t)
                    /\ task' = [t \in TaskIds |-> IF t \in copies
                                                  THEN [task[t] EXCEPT !.state = "none"]
                                                  ELSE task[t]]
  BY DEF WithdrawCopies
<1>3. \A t \in TaskIds : task[t] \in TaskRow  BY TaskTable
<1>4. task' \in [TaskIds -> TaskRow]  BY <1>2, <1>3 DEF TaskRow
<1>5. \A t \in TaskIds : /\ task'[t].request = task[t].request /\ task'[t].name = task[t].name
                         /\ task'[t].user = task[t].user /\ task'[t].bound = task[t].bound
                         /\ task'[t].entity = task[t].entity
  BY <1>2, <1>3 DEF TaskRow
<1>6. \A t \in TaskIds \ Made : task'[t] = task[t]
  BY <1>2, ExistsMade DEF IsOpen, Exists
<1>7. \A t \in Made : task'[t].bound = task[t].bound  BY <1>5 DEF Made
<1>8. Steady /\ RowsGood'  BY <1>4, <1>5, <1>6, <1>7, Rewritten DEF WithdrawCopies
<1>9. handler' = [handler EXCEPT ![h] = Idle]  BY DEF WithdrawCopies
<1>10. CallsGood' /\ RunsGood' /\ handler' \in [Handlers -> HandlerRow]
  BY <1>1, <1>8, <1>9, IdleGood, CopiesStay, CallStep DEF WithdrawCopies
<1> QED  BY <1>4, <1>8, <1>10, Untouched, Whole DEF WithdrawCopies

----------------------------------------------------------------------------
(* Trigger's goroutines.                                                    *)
LEMMA CopyMoves ==
    ASSUME IInv, Steady, UNCHANGED <<handler, spreading>>, copying' \subseteq GoodCopy'
    PROVE  CallsGood' /\ RunsGood' /\ handler' \in [Handlers -> HandlerRow]
<1>1. CallsGood'  BY SetsGrow DEF IInv, CallsGood
<1>2. RunsGood'  BY SetsGrow DEF IInv, RunsGood
<1> QED  BY <1>1, <1>2, Untouched

LEMMA GoesGood ==
    ASSUME IInv, Steady, NEW c \in copying, NEW pc \in {"share", "addShare", "look", "add"},
           copying' = copying \ {c} \/ Goes(c, pc)
    PROVE  copying' \subseteq GoodCopy'
<1>1. c \in GoodCopy  BY DEF IInv, RunsGood
<1>2. [c EXCEPT !.pc = pc] \in GoodCopy  BY <1>1 DEF GoodCopy, Copy
<1>3. copying' \subseteq GoodCopy  BY <1>2 DEF Goes, IInv, RunsGood
<1> QED  BY <1>3, SetsGrow

LEMMA FindCopyShareGood ==
    ASSUME IInv, NEW c \in copying, FindCopyShare(c)
    PROVE  IInv'
<1>1. RowsGood' /\ Steady  BY RowsStay DEF FindCopyShare
<1>2. PICK pc \in {"look", "addShare"} : Goes(c, pc)  BY DEF FindCopyShare
<1>3. copying' \subseteq GoodCopy'  BY <1>1, <1>2, GoesGood
<1>4. CallsGood' /\ RunsGood' /\ handler' \in [Handlers -> HandlerRow]
  BY <1>1, <1>3, CopyMoves DEF FindCopyShare
<1> QED  BY <1>1, <1>4, Untouched, Whole DEF FindCopyShare

LEMMA AddCopyShareGood ==
    ASSUME IInv, NEW c \in copying, AddCopyShare(c)
    PROVE  IInv'
<1>1. RowsGood' /\ Steady  BY RowsStay DEF AddCopyShare
<1>2. copying' \subseteq GoodCopy'  BY <1>1, GoesGood DEF AddCopyShare
<1>3. CallsGood' /\ RunsGood' /\ handler' \in [Handlers -> HandlerRow]
  BY <1>1, <1>2, CopyMoves DEF AddCopyShare
<1>4. c.task \in Made /\ c.delegation \in MadeDelegations
  BY DEF IInv, RunsGood, GoodCopy
<1>5. ShareOf(c.delegation, task[c.task].request) \in ShareRow
  BY <1>4, ShareTyped DEF IInv, RowsGood
<1>6. share' \subseteq ShareRow  BY <1>5 DEF AddCopyShare, IInv, TypeOK
<1> QED  BY <1>1, <1>3, <1>6, Untouched, Whole DEF AddCopyShare

LEMMA FindCopyGood ==
    ASSUME IInv, NEW c \in copying, FindCopy(c)
    PROVE  IInv'
<1>1. RowsGood' /\ Steady  BY RowsStay DEF FindCopy
<1>2. copying' = copying \ {c} \/ Goes(c, "add")  BY DEF FindCopy
<1>3. copying' \subseteq GoodCopy'  BY <1>1, <1>2, GoesGood
<1>4. CallsGood' /\ RunsGood' /\ handler' \in [Handlers -> HandlerRow]
  BY <1>1, <1>3, CopyMoves DEF FindCopy
<1> QED  BY <1>1, <1>4, Untouched, Whole DEF FindCopy

LEMMA AddCopyGood ==
    ASSUME IInv, NEW c \in copying, AddCopy(c)
    PROVE  IInv'
<1>1. c.task \in Made /\ c.task \in 0 .. MaxTasks /\ c.delegation \in MadeDelegations
  BY Sizes DEF IInv, RunsGood, GoodCopy, Made
<1>2. PICK v \in Users : v = delegation[c.delegation].to  BY <1>1 DEF IInv, RowsGood
<1>3. PICK row : row = [task[c.task] EXCEPT !.state = "open", !.user = v, !.bound = c.task,
                                            !.entity = NoEntity]
  OBVIOUS
<1>4. /\ row \in TaskRow /\ row.request = task[c.task].request /\ row.name = task[c.task].name
      /\ row.user = v /\ row.bound = c.task /\ row.entity = NoEntity
  <2>1. PICK old \in TaskRow : old = task[c.task]  BY <1>1, TaskTable DEF Made
  <2>2. row = [old EXCEPT !.state = "open", !.user = v, !.bound = c.task, !.entity = NoEntity]
    BY <1>3, <2>1
  <2>3. row \in TaskRow  BY <1>1, <1>2, <2>1, <2>2 DEF TaskRow
  <2>4. row.request = old.request /\ row.name = old.name  BY <2>1, <2>2 DEF TaskRow
  <2>5. row.user = v /\ row.bound = c.task /\ row.entity = NoEntity  BY <2>1, <2>2 DEF TaskRow
  <2> QED  BY <2>1, <2>3, <2>4, <2>5
<1>5. row.request \in RequestIds /\ row.name \in Names /\ Of(row.bound, row.request, row.name)
  BY <1>1, <1>4 DEF IInv, RowsGood, Of
<1>6. Steady /\ RowsGood' /\ task' \in [TaskIds -> TaskRow]
  <2>1. CASE AddTask(row)
    BY <1>2, <1>4, <1>5, <2>1, Added DEF AddCopy
  <2>2. CASE UNCHANGED <<task, nextTask>>
    BY <2>2, RowsStay, Untouched DEF AddCopy
  <2> QED  BY <1>2, <1>3, <2>1, <2>2 DEF AddCopy
<1>7. copying' \subseteq GoodCopy'  BY <1>6, GoesGood DEF AddCopy
<1>8. CallsGood' /\ RunsGood' /\ handler' \in [Handlers -> HandlerRow]
  BY <1>6, <1>7, CopyMoves DEF AddCopy
<1> QED  BY <1>6, <1>8, Untouched, Whole DEF AddCopy

----------------------------------------------------------------------------
LEMMA Starts == ASSUME Init PROVE IInv
<1>1. TypeOK
  <2>1. 0 \in -1 .. LastLevel + 1 /\ 0 \in 0 .. MaxRequests /\ 0 \in 0 .. MaxTasks
        /\ 0 \in 0 .. MaxCalls /\ 1 \in 1 .. MaxTasks + 1 /\ 1 \in 1 .. MaxDelegations + 1
    BY Sizes
  <2>2. NoTask \in TaskRow /\ NoDelegation \in DelegationRow
    BY <2>1 DEF NoTask, TaskRow, NoDelegation, DelegationRow
  <2>3. Idle \in HandlerRow  BY IdleGood DEF GoodHandler
  <2>4. [state |-> "none", again |-> FALSE] \in RequestRow /\ 0 <= LastLevel
    BY Sizes DEF RequestRow
  <2>5. Idle.ended = FALSE /\ Idle.at = 0  BY DEF Idle
  <2> QED  BY <2>1, <2>2, <2>3, <2>4, <2>5 DEF Init, TypeOK
<1>2. Made = {} /\ MadeDelegations = {}
  BY DEF Init, Made, MadeDelegations
<1>3. RowsGood  BY <1>2 DEF Init, RowsGood
<1>4. CallsGood  BY IdleGood DEF Init, CallsGood
<1>5. RunsGood  BY DEF Init, RunsGood
<1> QED  BY <1>1, <1>3, <1>4, <1>5 DEF IInv

LEMMA CallGood ==
    ASSUME IInv, NEW h \in Handlers, Call(h)
    PROVE  IInv'
<1>1. CASE \E u \in Users, r \in RequestIds : OpenRequest(h, u, r)
  BY <1>1, OpenRequestGood
<1>2. CASE \E u \in Users, t \in TaskIds : SubmitTask(h, u, t)
  BY <1>2, SubmitTaskGood
<1>3. CASE \E u, v \in Users, w \in {"coming", "current"},
              t \in {0} \cup (IF Singles THEN TaskIds ELSE {}) : CreateDelegation(h, u, v, t, w)
  <2>1. {0} \cup (IF Singles THEN TaskIds ELSE {}) \subseteq 0 .. MaxTasks  BY Sizes
  <2> QED  BY <1>3, <2>1, CreateDelegationGood
<1>4. CASE \E u \in Users, d \in DelegationIds : UpdateDelegation(h, u, d)
  BY <1>4, UpdateDelegationGood
<1>5. CASE \E u \in Users, d \in DelegationIds : DeleteDelegation(h, u, d)
  BY <1>5, DeletesRowGood DEF DeleteDelegation
<1>6. CASE \E d \in DelegationIds : ExpireDaily(h, d)
  BY <1>6, DeletesRowGood DEF ExpireDaily
<1>7. CASE \E d \in DelegationIds : TriggerDaily(h, d)
  BY <1>7, TriggerDailyGood
<1> QED  BY <1>1, <1>2, <1>3, <1>4, <1>5, <1>6, <1>7 DEF Call

LEMMA ProceedGood ==
    ASSUME IInv, NEW h \in Handlers, Proceed(h)
    PROVE  IInv'
BY FindTaskGood, InsertTaskGood, InsertFailsGood, GiveOwnerGood, RebindGood, GiveDelegatesGood,
   FindShareGood, AddShareGood, UpdateTaskGood, RereadTaskGood, ReadRequestGood, CheckOthersGood,
   AdvanceRequestGood, TriggerGood, DeleteSharesGood, FindRivalsGood, WithdrawCopiesGood
   DEF Proceed

LEMMA SpreadStepGood ==
    ASSUME IInv, SpreadStep
    PROVE  IInv'
BY FindAboveGood, WriteAboveGood, FindBelowGood, WriteBelowGood DEF SpreadStep

LEMMA CopyStepGood ==
    ASSUME IInv, CopyStep
    PROVE  IInv'
BY FindCopyShareGood, AddCopyShareGood, FindCopyGood, AddCopyGood DEF CopyStep

LEMMA Stutters ==
    ASSUME IInv, UNCHANGED vars
    PROVE  IInv'
<1>1. RowsGood' /\ Steady  BY RowsStay DEF vars
<1>2. CallsGood' /\ RunsGood' /\ handler' \in [Handlers -> HandlerRow]
  BY <1>1, Unmoved DEF vars
<1> QED  BY <1>1, <1>2, Untouched, Whole DEF vars

LEMMA Keeps ==
    ASSUME IInv, [Next]_vars
    PROVE  IInv'
BY CallGood, ProceedGood, SpreadStepGood, CopyStepGood, TodayGood, Stutters DEF Next

(* The whole invariant holds throughout, whatever calls and goroutines do.  *)
THEOREM DelegationInvariant == Spec => []IInv
<1>1. Init => IInv  BY Starts
<1>2. IInv /\ [Next]_vars => IInv'  BY Keeps
<1> QED  BY <1>1, <1>2, PTL DEF Spec

(* Every table, call and goroutine keeps its shape: the rows of dbtask,     *)
(* dbdelegation and dbshare, the stack of createTaskAndNotify and           *)
(* CreateDelegated, and the goroutines of Trigger and UpdateDelegated.      *)
THEOREM DelegationsTyped == Spec => []TypeOK
<1>1. IInv => TypeOK  BY DEF IInv
<1> QED  BY <1>1, DelegationInvariant, PTL

(* What a task is bound to (utils.go:208-218, 235, 309, 324;                *)
(* delegation_service.go:75) is a task of the same request and step, for    *)
(* every workflow, any number of delegations, and however the goroutines    *)
(* that close, copy and bind tasks interleave: closing a task never closes  *)
(* work of another step.                                                    *)
THEOREM DelegationsBoundAlike == Spec => []BoundAlike
<1>1. IInv => BoundAlike
  <2> SUFFICES ASSUME IInv, NEW t \in TaskIds, Exists(t), task[t].bound # 0
               PROVE  LET o == task[t].bound IN /\ o \in 1 .. nextTask - 1
                                                /\ task[o].request = task[t].request
                                                /\ task[o].name = task[t].name
    BY DEF BoundAlike
  <2>1. t \in Made  BY ExistsMade
  <2>2. PICK o : o = task[t].bound  OBVIOUS
  <2>3. o \in Made /\ Kin(t, o)  BY <2>1, <2>2, FreeMade DEF IInv, RowsGood
  <2>4. nextTask \in Int  BY TaskTable
  <2>5. o \in 1 .. nextTask - 1  BY <2>3, <2>4, Sizes DEF Made
  <2> QED  BY <2>2, <2>3, <2>5 DEF Kin, Of
<1> QED  BY <1>1, DelegationInvariant, PTL
=============================================================================
