------------------------ MODULE DelegationCloseProofs ------------------------
(***************************************************************************)
(* Closing, when every call waits until nobody is at work and no UPDATE is *)
(* refused, for every workflow and whoever delegates to whom: what is      *)
(* closed stays as it is, what it is bound to is closed with it, and what  *)
(* is left open behind a request has been passed over.                     *)
(*                                                                         *)
(* The goroutines of UpdateDelegated go side by side with the run that the *)
(* call waits for and with what the call does next.  Four invariants, each *)
(* resting on the ones before it: Placed, what step of its request all     *)
(* that is at work is about; Sorted, which rows the goroutines may reach;  *)
(* Shut, what is closed together; AllLeft, what is left behind.            *)
(***************************************************************************)
EXTENDS DelegationTurnProofs

USE DEF RequestIds, TaskIds, DelegationIds

----------------------------------------------------------------------------
(***************************************************************************)
(* The place of what is at work.  A call that closes a task holds the      *)
(* place of its request as it is; what it creates then belongs to the step *)
(* just reached, as long as no request that has ended is walked again.     *)
(* And the runs it has left go on among the tasks there were before (V):   *)
(* nothing that it creates is bound to one of those, or the other way.     *)
(***************************************************************************)
Works == {"spread", "others", "advance"}
Silent == {"update", "reread", "read", "trigger", "unshare", "rivals", "withdraw"}

Stays(U, g) == /\ g.task \in U /\ g.bound \in U \cup {0} /\ g.rows \subseteq U
               /\ g.pc = "upWrite" => g.above \in U \cup {0}
Aside(V) == /\ \A t \in V : task[t].bound \in V \cup {0}
            /\ \A t \in Made \ V : task[t].bound \notin V
            /\ \A g \in spreading : Stays(V, g)
Reached(t) == FirstWalk => \/ place[task[t].request] = -1
                           \/ Level[task[t].name] <= place[task[t].request]
NewStep(V) == {x \in Item : /\ x.task \notin V /\ x.bound \notin V
                            /\ FirstWalk => place[x.request] = Level[x.name]}
RowPlaced(m) ==
    /\ m.pc \in Silent => spreading = {}
    /\ m.pc \in Works => /\ m.at = place[task[m.task].request]
                         /\ m.ended = (request[task[m.task].request].state = "ended")
    /\ m.pc = "create" => \E V \in SUBSET Made : Aside(V) /\ m.todo \in Seq(NewStep(V))
Walked(r) == /\ request[r].state = "none" => place[r] = 0
             /\ FirstWalk /\ place[r] = -1 => request[r].state = "ended"
Placed == /\ \A r \in RequestIds : Walked(r)
          /\ \A t \in Made : Reached(t)
          /\ \A h \in Handlers : RowPlaced(handler[h])
          /\ copying # {} => spreading = {}

LEMMA InitPlaced == ASSUME Init PROVE Placed
<1>1. Made = {}  BY Sizes DEF Init, Made
<1>2. \A h \in Handlers : handler[h].pc = "idle"  BY DEF Init, Idle
<1>3. copying = {}  BY DEF Init
<1>4. \A r \in RequestIds : Walked(r)  BY DEF Init, Walked
<1> QED  BY <1>1, <1>2, <1>3, <1>4 DEF Placed, RowPlaced, Works, Silent

LEMMA IdlePlaced == ASSUME NEW m, m.pc = "idle" PROVE RowPlaced(m) /\ RowPlaced(m)'
BY DEF RowPlaced, Works, Silent

(* The row of the one call at work, and what else it may have changed.      *)
LEMMA PlacedRow ==
    ASSUME IInv, NEW h \in Handlers, NEW m, handler' = [handler EXCEPT ![h] = m],
           \A g \in Handlers : g # h => handler[g].pc = "idle",
           \A t \in Made' : Reached(t)', RowPlaced(m)', \A r \in RequestIds : Walked(r)',
           copying' # {} => spreading' = {}
    PROVE  Placed'
<1>0. handler' = [handler EXCEPT ![h] = m]  OBVIOUS
<1>1. \A g \in Handlers : handler'[g] = IF g = h THEN m ELSE handler[g]
  BY ONLY IInv, <1>0, OneRow
<1>2. ASSUME NEW g \in Handlers PROVE RowPlaced(handler[g])'
  <2>1. CASE g = h  BY <1>1, <2>1
  <2>2. CASE g # h
    <3>1. PICK q : q = handler'[g]  OBVIOUS
    <3>2. q.pc = "idle"  BY <1>1, <2>2, <3>1
    <3>3. RowPlaced(q)'  BY <3>2, IdlePlaced
    <3> QED  BY <3>1, <3>3
  <2> QED  BY <2>1, <2>2
<1> QED  BY <1>2 DEF Placed

LEMMA ReachedSame ==
    ASSUME Placed, UNCHANGED <<place, request>>, Made' = Made, NEW t \in Made',
           task'[t].request = task[t].request, task'[t].name = task[t].name
    PROVE  Reached(t)'
<1>1. FirstWalk' <=> FirstWalk  BY DEF FirstWalk
<1> QED  BY <1>1 DEF Placed, Reached

LEMMA WalkedSame ==
    ASSUME Placed, UNCHANGED <<place, request>>
    PROVE  \A r \in RequestIds : Walked(r)'
<1>1. FirstWalk' <=> FirstWalk  BY DEF FirstWalk
<1> QED  BY <1>1 DEF Placed, Walked

LEMMA NewSame == ASSUME UNCHANGED <<place, request>>, NEW V PROVE NewStep(V)' = NewStep(V)
<1>1. FirstWalk' <=> FirstWalk  BY DEF FirstWalk
<1> QED  BY <1>1 DEF NewStep

(* A call that replaces the first thing to do.                              *)
LEMMA PlacedStack ==
    ASSUME IInv, Turnwise, Placed, NEW h \in Handlers, handler[h].pc = "create",
           NEW V \in SUBSET Made, handler[h].todo \in Seq(NewStep(V)), Aside(V)', Made \subseteq Made',
           NEW items \in Seq(NewStep(V)), Replace(h, items),
           UNCHANGED <<place, request, copying, spreading>>, \A t \in Made' : Reached(t)'
    PROVE  Placed'
<1>1. items \in Seq(Item)  BY DEF NewStep
<1>2. PICK m : /\ handler' = [handler EXCEPT ![h] = m]
               /\ \/ m = Idle
                  \/ /\ m.pc = "create" /\ m.todo = items \o Tail(handler[h].todo)
                     /\ m.todo # <<>> /\ m.bound = handler[h].bound
  BY <1>1, StackRow
<1>3. handler[h].todo # <<>>  BY Stack
<1>4. PICK S : S = NewStep(V)  OBVIOUS
<1>5. NewStep(V)' = S  BY <1>4, NewSame
<1>6. RowPlaced(m)'
  <2>1. CASE m = Idle  BY <2>1, IdlePlaced DEF Idle
  <2>2. CASE m.pc = "create" /\ m.todo = items \o Tail(handler[h].todo)
    <3>1. PICK T, Q : T = Tail(Q) /\ Q = handler[h].todo  OBVIOUS
    <3>2. Q \in Seq(S) /\ Q # <<>> /\ items \in Seq(S)  BY <1>3, <1>4, <3>1
    <3>3. T \in Seq(S)  BY <3>1, <3>2
    <3>4. m.todo \in Seq(S)  BY <2>2, <3>1, <3>2, <3>3
    <3>5. V \in SUBSET Made'  OBVIOUS
    <3>6. m.todo \in Seq(NewStep(V)')  BY <1>5, <3>4
    <3> QED  BY <2>2, <3>5, <3>6 DEF RowPlaced, Works, Silent
  <2> QED  BY <1>2, <2>1, <2>2
<1>7. \A g \in Handlers : g # h => handler[g].pc = "idle"  BY DEF Turnwise, Busy
<1>8. copying' = {}  BY <1>7 DEF Turnwise, Busy
<1>9. \A r \in RequestIds : Walked(r)'  BY WalkedSame
<1> QED  BY <1>2, <1>6, <1>7, <1>8, <1>9, PlacedRow

LEMMA HeadPlaced ==
    ASSUME IInv, Placed, NEW h \in Handlers, handler[h].pc = "create", NEW x, x = Head(handler[h].todo)
    PROVE  \E V \in SUBSET Made : Aside(V) /\ handler[h].todo \in Seq(NewStep(V)) /\ x \in NewStep(V)
<1>1. RowPlaced(handler[h]) /\ handler[h].todo # <<>>  BY Stack DEF Placed
<1>2. PICK V \in SUBSET Made : Aside(V) /\ handler[h].todo \in Seq(NewStep(V))
  BY <1>1 DEF RowPlaced
<1>3. x \in NewStep(V)  BY <1>1, <1>2
<1> QED  BY <1>2, <1>3

LEMMA SameStep ==
    ASSUME NEW V, NEW x \in NewStep(V), NEW y \in Item, y.request = x.request, y.name = x.name,
           y.task \notin V, y.bound \notin V
    PROVE  y \in NewStep(V)
BY DEF NewStep

LEMMA MadeSame == ASSUME UNCHANGED nextTask PROVE Made' = Made
BY DEF Made

LEMMA PlacedItems ==
    ASSUME IInv, Turnwise, Placed, NEW h \in Handlers,
           FindTask(h) \/ InsertFails(h) \/ GiveOwner(h) \/ GiveDelegates(h) \/ FindShare(h) \/ AddShare(h)
    PROVE  Placed'
<1>0. UNCHANGED <<place, request, task, nextTask, copying, spreading>> /\ handler[h].pc = "create"
  BY DEF FindTask, InsertFails, GiveOwner, GiveDelegates, FindShare, AddShare, Does
<1>00. \A t \in Made' : Reached(t)'  BY <1>0, MadeSame, ReachedSame
<1>02. PICK x : x = Head(handler[h].todo)  OBVIOUS
<1>01. PICK V \in SUBSET Made :
          Aside(V) /\ handler[h].todo \in Seq(NewStep(V)) /\ x \in NewStep(V)
  BY <1>0, <1>02, HeadPlaced
<1>03. x \in Item /\ x.task \notin V /\ x.bound \notin V  BY <1>01 DEF NewStep
<1>030. 0 \notin V  BY DEF Made
<1>031. Made' = Made  BY <1>0, MadeSame
<1>032. Aside(V)'  BY <1>0, <1>01, <1>031 DEF Aside
<1>04. ASSUME NEW items \in Seq(NewStep(V)), Replace(h, items) PROVE Placed'
  BY <1>0, <1>00, <1>01, <1>031, <1>032, <1>04, PlacedStack
<1>1. CASE FindTask(h)
  <2>1. PICK y, items : /\ y = [x EXCEPT !.kind = "insert"] /\ y \in Item
                        /\ items = <<>> \/ items = <<y>>
                        /\ Replace(h, items)
    BY <1>1, <1>02, FindTaskEffect
  <2>2. y.request = x.request /\ y.name = x.name /\ y.task = x.task /\ y.bound = x.bound
    BY <1>03, <2>1 DEF Item
  <2>3. y \in NewStep(V)  BY <1>01, <1>03, <2>1, <2>2, SameStep
  <2>4. items \in Seq(NewStep(V))  BY <2>1, <2>3, One, None
  <2> QED  BY <1>04, <2>1, <2>4
<1>2. CASE InsertFails(h) \/ AddShare(h)
  <2>1. Replace(h, <<>>)  BY <1>2 DEF InsertFails, AddShare
  <2> QED  BY <1>04, <2>1, None
<1>3. CASE GiveOwner(h)
  <2>1. PICK b, y, items : /\ y = Create(x.request, x.name, task[b].user, 0, x.task)
                           /\ items = <<>> \/ (items = <<y>> /\ y \in Item)
                           /\ Replace(h, items)
    BY <1>3, <1>02, GiveOwnerEffect
  <2>2. y.request = x.request /\ y.name = x.name /\ y.task = x.task /\ y.bound = 0
    BY <2>1 DEF Create
  <2>3. items \in Seq(NewStep(V))
    <3>1. CASE items = <<>>  BY <3>1, None
    <3>2. CASE items = <<y>> /\ y \in Item
      <4>1. y \in NewStep(V)  BY <1>01, <1>03, <1>030, <2>2, <3>2, SameStep
      <4> QED  BY <3>2, <4>1, One
    <3> QED  BY <2>1, <3>1, <3>2
  <2> QED  BY <1>04, <2>1, <2>3
<1>4. CASE GiveDelegates(h)
  <2>1. PICK items : /\ items \in Seq(Item) /\ Replace(h, items)
                     /\ \A i \in 1 .. Len(items) : FromDelegation(x, items[i])
    BY <1>4, <1>02, GiveDelegatesEffect
  <2>2. ASSUME NEW i \in 1 .. Len(items) PROVE items[i] \in NewStep(V)
    <3>1. items[i] \in Item  BY <2>1
    <3>2. PICK d : \/ items[i] = Create(x.request, x.name, delegation[d].to, x.task, 0)
                   \/ items[i] = [x EXCEPT !.kind = "share", !.delegation = d]
      BY <2>1 DEF FromDelegation
    <3>3. /\ items[i].request = x.request /\ items[i].name = x.name
          /\ items[i].task \notin V /\ items[i].bound \notin V
      <4>1. CASE items[i] = Create(x.request, x.name, delegation[d].to, x.task, 0)
        BY <1>03, <1>030, <4>1 DEF Create
      <4>2. CASE items[i] = [x EXCEPT !.kind = "share", !.delegation = d]  BY <1>03, <4>2 DEF Item
      <4> QED  BY <3>2, <4>1, <4>2
    <3> QED  BY <1>01, <3>1, <3>3, SameStep
  <2>3. items \in Seq(NewStep(V))
    <3>1. PICK S : S = NewStep(V)  OBVIOUS
    <3>2. \A i \in 1 .. Len(items) : items[i] \in S  BY <2>2, <3>1
    <3>3. items \in Seq(S)  BY <2>1, <3>2
    <3> QED  BY <3>1, <3>3
  <2> QED  BY <1>04, <2>1, <2>3
<1>5. CASE FindShare(h)
  <2>1. PICK y : y = [x EXCEPT !.kind = "addShare"]  OBVIOUS
  <2>2. /\ y \in Item /\ y.request = x.request /\ y.name = x.name
        /\ y.task = x.task /\ y.bound = x.bound
    BY <1>03, <2>1 DEF Item
  <2>3. y \in NewStep(V)  BY <1>01, <1>03, <2>2, SameStep
  <2>4. Replace(h, <<>>) \/ Replace(h, <<y>>)  BY <1>5, <1>02, <2>1 DEF FindShare
  <2> QED  BY <1>04, <2>3, <2>4, One, None
<1> QED  BY <1>1, <1>2, <1>3, <1>4, <1>5

LEMMA Levels == \A n \in Names : Level[n] \in 1 .. LastLevel /\ Level[n] \in Int
<1>1. Level \in [Names -> 1 .. LastLevel]  BY StepAssumption
<1>2. LastLevel \in Nat  BY Sizes
<1>3. ASSUME NEW n \in Names PROVE Level[n] \in 1 .. LastLevel  BY <1>1
<1> QED  BY <1>2, <1>3

(* The row that an INSERT adds is the next one.                             *)
LEMMA NextIs ==
    ASSUME IInv, NEW h \in Handlers, InsertTask(h), NEW n \in TaskIds, ~Exists(n), task'[n].state # "none"
    PROVE  n = nextTask /\ nextTask' = nextTask + 1 /\ \A t \in Made' : t \in Made \/ t = n
<1>1. PICK row : AddTask(row)  BY DEF InsertTask
<1>2. PICK a \in TaskIds : a = nextTask /\ \A t \in TaskIds : task'[t] = IF t = a THEN row ELSE task[t]
  BY <1>1, AddedRow
<1>3. n = nextTask  BY <1>2 DEF Exists
<1>4. nextTask' = nextTask + 1 /\ nextTask \in Int  BY <1>1, TaskTable DEF AddTask
<1> QED  BY <1>3, <1>4 DEF Made

LEMMA PlacedInsert ==
    ASSUME IInv, Turnwise, Placed, NEW h \in Handlers, InsertTask(h)
    PROVE  Placed'
<1>1. PICK x, n, row, y, z, w, items :
              /\ x = Head(handler[h].todo) /\ x \in Item /\ x.kind = "insert"
              /\ handler[h].pc = "create"
              /\ n \in TaskIds /\ ~Exists(n) /\ n \notin Made
              /\ row = [state |-> "open", request |-> x.request, name |-> x.name,
                        user |-> x.user, bound |-> x.bound, entity |-> Entity[x.name]]
              /\ \A t \in TaskIds : task'[t] = IF t = n THEN row ELSE task[t]
              /\ y = [x EXCEPT !.kind = "owner", !.task = n] /\ y \in Item
              /\ z = [x EXCEPT !.kind = "delegates", !.task = n] /\ z \in Item
              /\ w = [x EXCEPT !.kind = "rebind", !.bound = n] /\ w \in Item
              /\ (x.task = 0 /\ items = <<y, z>>) \/ (x.task # 0 /\ items = <<y, z>> \o <<w>>)
              /\ items \in Seq(Item) /\ Replace(h, items)
  BY InsertEffect
<1>2. PICK V \in SUBSET Made :
         Aside(V) /\ handler[h].todo \in Seq(NewStep(V)) /\ x \in NewStep(V)
  BY <1>1, HeadPlaced
<1>20. x.task \notin V /\ x.bound \notin V /\ n \notin V  BY <1>1, <1>2 DEF NewStep
<1>3. /\ y.request = x.request /\ y.name = x.name /\ z.request = x.request /\ z.name = x.name
      /\ w.request = x.request /\ w.name = x.name
      /\ y.task = n /\ z.task = n /\ w.task = x.task
      /\ y.bound = x.bound /\ z.bound = x.bound /\ w.bound = n
  <2>1. /\ x \in Item /\ y = [x EXCEPT !.kind = "owner", !.task = n]
        /\ z = [x EXCEPT !.kind = "delegates", !.task = n]
        /\ w = [x EXCEPT !.kind = "rebind", !.bound = n]
    BY <1>1
  <2> QED  BY <2>1 DEF Item
<1>4. y \in NewStep(V) /\ z \in NewStep(V) /\ w \in NewStep(V)
  BY <1>1, <1>2, <1>20, <1>3, SameStep
<1>5. items \in Seq(NewStep(V))  BY <1>1, <1>4, TwoOrThree
<1>6. UNCHANGED <<place, request, copying, spreading>> /\ nextTask' = nextTask + 1
  BY DEF InsertTask, AddTask
<1>7. \A t \in Made : t # n /\ t \in TaskIds  BY <1>1 DEF Made
<1>8. \A t \in Made : task'[t] = task[t]  BY <1>1, <1>7
<1>80. FirstWalk' <=> FirstWalk  BY <1>6 DEF FirstWalk
<1>9. ASSUME NEW t \in Made' PROVE Reached(t)'
  <2>1. t \in Made \/ t = n
    <3>1. task'[n].state # "none"  BY <1>1
    <3> QED  BY <1>1, <3>1, NextIs
  <2>2. CASE t \in Made  BY <1>6, <1>8, <1>80, <2>2 DEF Placed, Reached
  <2>3. CASE t = n
    <3>1. task'[t].request = x.request /\ task'[t].name = x.name  BY <1>1, <2>3
    <3>2. FirstWalk => place[x.request] = Level[x.name]  BY <1>2 DEF NewStep
    <3>3. Level[x.name] \in Int  BY <1>1, Levels DEF Item
    <3> QED  BY <1>6, <1>80, <3>1, <3>2, <3>3 DEF Reached
  <2> QED  BY <2>1, <2>2, <2>3
<1>10. handler[h].pc = "create" /\ Replace(h, items)  BY <1>1
<1>11. Made \subseteq Made' /\ \A t \in Made' : t \in Made \/ t = n
  <2>1. task'[n].state # "none"  BY <1>1
  <2>2. n = nextTask /\ \A t \in Made' : t \in Made \/ t = n  BY <1>1, <2>1, NextIs
  <2> QED  BY <1>6, <2>2, TaskTable DEF Made
<1>12. Aside(V)'
  <2>1. task'[n].bound = x.bound  BY <1>1
  <2>2. \A t \in V : task'[t].bound \in V \cup {0}  BY <1>2, <1>8 DEF Aside
  <2>3. \A t \in Made' \ V : task'[t].bound \notin V  BY <1>2, <1>8, <1>11, <1>20, <2>1 DEF Aside
  <2> QED  BY <1>2, <1>6, <2>2, <2>3 DEF Aside
<1> QED  BY <1>2, <1>5, <1>6, <1>9, <1>10, <1>11, <1>12, PlacedStack

LEMMA PlacedRebind ==
    ASSUME IInv, Turnwise, Placed, NEW h \in Handlers, Rebind(h)
    PROVE  Placed'
<1>1. handler[h].pc = "create" /\ Replace(h, <<>>)  BY DEF Rebind, Does
<1>2. UNCHANGED <<place, request, nextTask, copying, spreading>>  BY DEF Rebind
<1>3. PICK x : x = Head(handler[h].todo)  OBVIOUS
<1>30. PICK V \in SUBSET Made :
          Aside(V) /\ handler[h].todo \in Seq(NewStep(V)) /\ x \in NewStep(V)
  BY <1>1, <1>3, HeadPlaced
<1>4. task' = IF Exists(x.task) THEN [task EXCEPT ![x.task].bound = x.bound] ELSE task
  BY <1>3 DEF Rebind
<1>5. \A t \in TaskIds : task'[t].request = task[t].request /\ task'[t].name = task[t].name
  BY <1>4, TaskTable DEF TaskRow
<1>6. \A t \in Made : task'[t].request = task[t].request /\ task'[t].name = task[t].name
  BY <1>5 DEF Made
<1>7. \A t \in Made' : Reached(t)'  BY <1>2, <1>6, MadeSame, ReachedSame
<1>8. <<>> \in Seq(NewStep(V))  BY None
<1>9. Made' = Made /\ Made \subseteq TaskIds  BY <1>2, MadeSame DEF Made
<1>10. \A t \in TaskIds : \/ task'[t].bound = task[t].bound
                          \/ t = x.task /\ task'[t].bound = x.bound
  BY <1>4, TaskTable, TaskRows DEF TaskRow
<1>11. Aside(V)'
  <2>1. x.task \notin V /\ x.bound \notin V  BY <1>30 DEF NewStep
  <2>2. \A t \in V : task'[t].bound \in V \cup {0}  BY <1>9, <1>10, <1>30, <2>1 DEF Aside
  <2>3. \A t \in Made' \ V : task'[t].bound \notin V  BY <1>9, <1>10, <1>30, <2>1 DEF Aside
  <2> QED  BY <1>2, <1>30, <2>2, <2>3 DEF Aside
<1> QED  BY <1>1, <1>2, <1>7, <1>8, <1>9, <1>11, <1>30, PlacedStack

(* The other steps of a call, but the one that moves its request on.        *)
LEMMA PlacedPlain ==
    ASSUME IInv, Turnwise, Placed, NEW h \in Handlers, Plain(h)
    PROVE  Placed'
<1>1. /\ \A g \in Handlers : g # h => handler'[g] = handler[g]
      /\ handler[h].pc \in {"update", "reread", "read", "others"}
      /\ UNCHANGED <<delegation, share, nextTask, copying>>
      /\ \A t \in TaskIds :
            \/ task'[t] = task[t]
            \/ Exists(t) /\ task'[t] = [task[t] EXCEPT !.state = "closed"]
  BY PlainEffect
<1>2. UNCHANGED <<place, request>>  BY DEF Plain, UpdateTask, RereadTask, ReadRequest, CheckOthers
<1>3. \A t \in TaskIds : task'[t].request = task[t].request /\ task'[t].name = task[t].name
  BY <1>1, TaskRows DEF TaskRow
<1>4. \A t \in Made' : Reached(t)'
  <2>1. Made' = Made /\ Made \subseteq TaskIds  BY <1>1, MadeSame DEF Made
  <2> QED  BY <1>2, <1>3, <2>1, ReachedSame
<1>5. copying' = {} /\ \A g \in Handlers : g # h => handler[g].pc = "idle"
  BY <1>1 DEF Turnwise, Busy
<1>6. handler[h] \in HandlerRow  BY TaskRows
<1>7. RowPlaced(handler[h])  BY DEF Placed
<1>70. \A r \in RequestIds : Walked(r)'  BY <1>2, WalkedSame
<1>8. ASSUME NEW m, handler' = [handler EXCEPT ![h] = m], RowPlaced(m)' PROVE Placed'
  BY <1>4, <1>5, <1>70, <1>8, PlacedRow
<1>9. CASE UpdateTask(h)
  <2>1. PICK m : m = [handler[h] EXCEPT !.pc = "reread"]  OBVIOUS
  <2>2. handler' = [handler EXCEPT ![h] = m]  BY <1>9, <2>1 DEF UpdateTask
  <2>3. m.pc = "reread"  BY <1>6, <2>1 DEF HandlerRow
  <2>4. spreading' = {}  BY <1>7, <1>9 DEF UpdateTask, RowPlaced, Silent
  <2>5. RowPlaced(m)'  BY <2>3, <2>4 DEF RowPlaced, Silent, Works
  <2> QED  BY <1>8, <2>2, <2>5
<1>10. CASE RereadTask(h)
  <2>0. PICK b : b = task[handler[h].task].bound  OBVIOUS
  <2>1. PICK w : w = [handler[h] EXCEPT !.pc = "read", !.bound = b]  OBVIOUS
  <2>2. PICK m \in {Idle, w} : handler' = [handler EXCEPT ![h] = m]
    BY <1>10, <2>0, <2>1 DEF RereadTask
  <2>3. Idle.pc = "idle"  BY DEF Idle
  <2>4. w.pc = "read"  BY <1>6, <2>1 DEF HandlerRow
  <2>5. spreading' = {}  BY <1>7, <1>10 DEF RereadTask, RowPlaced, Silent
  <2>6. RowPlaced(w)'  BY <2>4, <2>5 DEF RowPlaced, Silent, Works
  <2>7. RowPlaced(m)'  BY <2>2, <2>3, <2>6, IdlePlaced
  <2> QED  BY <1>8, <2>2, <2>7
<1>11. CASE ReadRequest(h)
  <2>1. PICK a, e, t : /\ a = place[task[t].request] /\ t = handler[h].task
                       /\ e = (request[task[t].request].state = "ended")
    OBVIOUS
  <2>2. PICK m : m = [handler[h] EXCEPT !.pc = "spread", !.at = a, !.ended = e]  OBVIOUS
  <2>3. handler' = [handler EXCEPT ![h] = m]
    BY <1>11, <2>1, <2>2 DEF ReadRequest, IInv, TypeOK
  <2>4. m.pc = "spread" /\ m.at = a /\ m.ended = e /\ m.task = t  BY <1>6, <2>1, <2>2 DEF HandlerRow
  <2>7. UNCHANGED task  BY <1>11 DEF ReadRequest
  <2>8. m.at = place'[task'[m.task].request]  BY <1>2, <2>1, <2>4, <2>7
  <2>80. m.ended = (request'[task'[m.task].request].state = "ended")  BY <1>2, <2>1, <2>4, <2>7
  <2>9. RowPlaced(m)'  BY <2>4, <2>8, <2>80 DEF RowPlaced, Silent, Works
  <2> QED  BY <1>8, <2>3, <2>9
<1>12. CASE CheckOthers(h)
  <2>1. PICK w : w = [handler[h] EXCEPT !.pc = "advance"]  OBVIOUS
  <2>2. PICK m \in {Idle, w} : handler' = [handler EXCEPT ![h] = m]
    BY <1>12, <2>1 DEF CheckOthers
  <2>3. Idle.pc = "idle"  BY DEF Idle
  <2>4. /\ w.pc = "advance" /\ w.task = handler[h].task /\ w.at = handler[h].at
        /\ w.ended = handler[h].ended
    BY <1>6, <2>1 DEF HandlerRow
  <2>5. UNCHANGED <<task, spreading>> /\ handler[h].pc = "others"  BY <1>12 DEF CheckOthers
  <2>6. RowPlaced(w)'  BY <1>2, <1>7, <2>4, <2>5 DEF RowPlaced, Silent, Works
  <2>7. RowPlaced(m)'  BY <2>2, <2>3, <2>6, IdlePlaced
  <2> QED  BY <1>8, <2>2, <2>7
<1> QED  BY <1>9, <1>10, <1>11, <1>12 DEF Plain

----------------------------------------------------------------------------
(* The first things to do of a place are steps of it.                       *)
LEMMA FirstSteps ==
    ASSUME IInv, NEW r \in RequestIds, NEW S \in SUBSET Names, NEW f \in SetToSeqs(S)
    PROVE  /\ FirstItems(r, f) \in Seq(Item)
           /\ \A i \in 1 .. Len(FirstItems(r, f)) :
                 \E a \in S : FirstItems(r, f)[i] = Create(r, a, Assignee[a], 0, 0)
<1>1. f \in Seq(S)
  <2>1. IsFiniteSet(S)  BY StepAssumption, FS_Subset
  <2> QED  BY <2>1, Ordered
<1>2. DOMAIN f = 1 .. Len(f) /\ Len(f) \in Nat /\ \A i \in 1 .. Len(f) : f[i] \in S  BY <1>1, SMTT(30)
<1>3. PICK n \in Nat : n = Len(f)  BY <1>2
<1>4. FirstItems(r, f) = [i \in 1 .. n |-> Create(r, f[i], Assignee[f[i]], 0, 0)]
  BY <1>2, <1>3 DEF FirstItems
<1>6. FirstItems(r, f) \in Seq(Item)  BY FirstItemsAre
<1>7. Len(FirstItems(r, f)) = n  BY <1>4
<1> QED  BY <1>2, <1>3, <1>4, <1>6, <1>7

(* Things to do of a place, which name no task yet.                         *)
LEMMA FirstPlaced ==
    ASSUME NEW V \in SUBSET Made, NEW items \in Seq(Item), NEW r, NEW S \in SUBSET Names,
           \A i \in 1 .. Len(items) : \E a \in S : items[i] = Create(r, a, Assignee[a], 0, 0),
           \A a \in S : FirstWalk' => place'[r] = Level[a]
    PROVE  items \in Seq(NewStep(V)')
<1>1. PICK R : R = NewStep(V)'  OBVIOUS
<1>2. ASSUME NEW i \in 1 .. Len(items) PROVE items[i] \in R
  <2>1. PICK a \in S : items[i] = Create(r, a, Assignee[a], 0, 0)  OBVIOUS
  <2>2. items[i] \in Item  OBVIOUS
  <2>3. items[i].request = r /\ items[i].name = a /\ items[i].task = 0 /\ items[i].bound = 0
    BY <2>1 DEF Create
  <2>4. PICK y : y = items[i]  OBVIOUS
  <2>5. 0 \notin V  BY DEF Made
  <2>6. y \in NewStep(V)'  BY <2>2, <2>3, <2>4, <2>5 DEF NewStep
  <2> QED  BY <1>1, <2>4, <2>6
<1>3. items \in Seq(R)  BY <1>2
<1> QED  BY <1>1, <1>3

LEMMA DoingRow ==
    ASSUME NEW me \in HandlerRow, NEW items
    PROVE  LET m == Doing(me, items)
           IN  \/ m = Idle
               \/ m.pc = "create" /\ m.todo = items /\ items # <<>> /\ m.bound = me.bound
BY DEF Doing, HandlerRow

(* All the tasks there are so far.                                          *)
LEMMA AsideMade == ASSUME IInv PROVE Aside(Made)
<1>1. \A t \in Made : task[t].bound \in Made \cup {0}  BY DEF IInv, RowsGood, Free, Kin
<1>2. ASSUME NEW g \in spreading PROVE Stays(Made, g)
  BY DEF IInv, RunsGood, GoodSpread, Free, Kin, Of, Stays
<1> QED  BY <1>1, <1>2 DEF Aside

(* How a request moves on.                                                  *)
LEMMA AdvanceIs ==
    ASSUME IInv, Placed, ~UpdatesMayFail, NEW h \in Handlers, AdvanceRequest(h),
           NEW me, me = handler[h], NEW r, r = task[me.task].request
    PROVE  /\ r \in RequestIds /\ me \in HandlerRow /\ me.task \in Made /\ me.pc = "advance"
           /\ me.at = place[r] /\ me.at \in Int /\ me.ended = (request[r].state = "ended")
           /\ place'[r] = (IF me.ended THEN -1 ELSE me.at + 1)
           /\ \A q \in RequestIds : q # r => place'[q] = place[q] /\ request'[q] = request[q]
           /\ request'[r].state # "none"
           /\ FirstWalk' => /\ FirstWalk
                            /\ me.ended => request'[r].state = "ended"
                            /\ ~me.ended => place[r] # -1 /\ me.at >= 0
<1>1. me \in GoodHandler /\ me.pc = "advance" /\ me \in HandlerRow
  BY DEF IInv, CallsGood, AdvanceRequest, GoodHandler
<1>2. r \in RequestIds /\ me.task \in Made  BY <1>1 DEF GoodHandler, IInv, RowsGood, Made
<1>3. LastLevel \in Nat  BY Sizes
<1>4. place \in [RequestIds -> -1 .. LastLevel + 1] /\ request \in [RequestIds -> RequestRow]
  BY DEF IInv, TypeOK
<1>5. me.at = place[r] /\ me.ended = (request[r].state = "ended")
  BY <1>1 DEF Placed, RowPlaced, Works
<1>6. PICK s : s = StateAt(me.at + 1)  OBVIOUS
<1>7. s \in {"running", "ended"}  BY <1>6 DEF StateAt
<1>8. place' = [place EXCEPT ![r] = IF me.ended THEN -1 ELSE me.at + 1]  BY DEF AdvanceRequest
<1>9. request' = [request EXCEPT ![r].state = s,
                                 ![r].again = @ \/ (me.ended /\ s = "running")]
  BY <1>6 DEF AdvanceRequest
<1>10. place'[r] = (IF me.ended THEN -1 ELSE me.at + 1)  BY <1>2, <1>4, <1>8
<1>11. request'[r].state = s /\ request'[r].again = (request[r].again \/ (me.ended /\ s = "running"))
  BY <1>2, <1>4, <1>9 DEF RequestRow
<1>12. \A q \in RequestIds : q # r => place'[q] = place[q] /\ request'[q] = request[q]
  BY <1>2, <1>4, <1>8, <1>9
<1>13. ASSUME FirstWalk' PROVE FirstWalk
  BY <1>11, <1>12, <1>13 DEF FirstWalk
<1>14. ASSUME FirstWalk', me.ended PROVE request'[r].state = "ended"
  BY <1>2, <1>7, <1>11, <1>14 DEF FirstWalk
<1>15. ASSUME FirstWalk', ~me.ended PROVE place[r] # -1
  BY <1>2, <1>5, <1>13, <1>15 DEF Placed, Walked
<1>16. me.at \in Int /\ me.at >= -1  BY <1>2, <1>3, <1>4, <1>5
<1>17. ASSUME FirstWalk', ~me.ended PROVE me.at >= 0  BY <1>5, <1>15, <1>16, <1>17
<1>18. request'[r].state # "none"  BY <1>7, <1>11
<1> QED  BY <1>1, <1>2, <1>5, <1>10, <1>12, <1>13, <1>14, <1>15, <1>16, <1>17, <1>18

LEMMA PlacedAdvance ==
    ASSUME IInv, Turnwise, Placed, ~UpdatesMayFail, NEW h \in Handlers, AdvanceRequest(h)
    PROVE  Placed'
<1>1. PICK me, r : me = handler[h] /\ r = task[me.task].request  OBVIOUS
<1>2. /\ r \in RequestIds /\ me \in HandlerRow /\ me.task \in Made /\ me.pc = "advance"
      /\ me.at = place[r] /\ me.at \in Int /\ me.ended = (request[r].state = "ended")
      /\ place'[r] = (IF me.ended THEN -1 ELSE me.at + 1)
      /\ \A q \in RequestIds : q # r => place'[q] = place[q] /\ request'[q] = request[q]
      /\ request'[r].state # "none"
      /\ FirstWalk' => /\ FirstWalk
                       /\ me.ended => request'[r].state = "ended"
                       /\ ~me.ended => place[r] # -1 /\ me.at >= 0
  BY <1>1, AdvanceIs
<1>5. PICK S : S = IF me.ended THEN {} ELSE StepsAt(me.at + 1)  OBVIOUS
<1>6. PICK f \in SetToSeqs(S) : handler' = [handler EXCEPT ![h] = Doing(me, FirstItems(r, f))]
  BY <1>1, <1>5 DEF AdvanceRequest
<1>7. PICK items : items = FirstItems(r, f)  OBVIOUS
<1>8. S \subseteq Names /\ \A a \in S : ~me.ended /\ Level[a] = me.at + 1  BY <1>5 DEF StepsAt
<1>9. /\ items \in Seq(Item)
      /\ \A i \in 1 .. Len(items) : \E a \in S : items[i] = Create(r, a, Assignee[a], 0, 0)
  BY <1>2, <1>6, <1>7, <1>8, FirstSteps
<1>12. UNCHANGED <<task, nextTask, copying, spreading>>  BY DEF AdvanceRequest
<1>13. Made' = Made  BY <1>12, MadeSame
<1>16. \A a \in S : FirstWalk' => place'[r] = Level[a]  BY <1>2, <1>8
<1>17. \E V \in SUBSET Made' : Aside(V)' /\ items \in Seq(NewStep(V)')
  <2>1. PICK V : V = Made  OBVIOUS
  <2>2. V \in SUBSET Made /\ V \in SUBSET Made'  BY <1>13, <2>1
  <2>3. items \in Seq(NewStep(V)')  BY <1>8, <1>9, <1>16, <2>2, FirstPlaced
  <2>4. Aside(V)
    BY <2>1, AsideMade
  <2>5. Aside(V)'  BY <1>12, <1>13, <2>4 DEF Aside
  <2> QED  BY <2>2, <2>3, <2>5
<1>18. PICK m : m = Doing(me, items)  OBVIOUS
<1>19. RowPlaced(m)'
  <2>1. m = Idle \/ (m.pc = "create" /\ m.todo = items /\ items # <<>>)  BY <1>2, <1>18, DoingRow
  <2>2. CASE m = Idle  BY <2>2, IdlePlaced DEF Idle
  <2>3. CASE m.pc = "create" /\ m.todo = items
    BY <1>17, <2>3 DEF RowPlaced, Works, Silent
  <2> QED  BY <2>1, <2>2, <2>3
<1>20. ASSUME NEW t \in Made' PROVE Reached(t)'
  <2> SUFFICES ASSUME FirstWalk'
               PROVE  place'[task'[t].request] = -1 \/ Level[task'[t].name] <= place'[task'[t].request]
    BY DEF Reached
  <2>1. t \in Made  BY <1>13
  <2>2. place[task[t].request] = -1 \/ Level[task[t].name] <= place[task[t].request]
    BY <1>2, <2>1 DEF Placed, Reached
  <2>3. task[t].request \in RequestIds /\ task[t].name \in Names  BY <2>1 DEF IInv, RowsGood
  <2>4. CASE task[t].request # r
    <3>1. place'[task[t].request] = place[task[t].request]  BY <1>2, <2>3, <2>4
    <3> QED  BY <1>12, <2>2, <3>1
  <2>5. CASE task[t].request = r /\ me.ended  BY <1>2, <1>12, <2>5
  <2>6. CASE task[t].request = r /\ ~me.ended
    <3>1. place'[r] = me.at + 1  BY <1>2, <2>6
    <3>2. Level[task[t].name] <= me.at  BY <1>2, <2>2, <2>6
    <3>3. Level[task[t].name] <= me.at + 1  BY <1>2, <2>3, <3>2, Levels
    <3> QED  BY <1>12, <2>6, <3>1, <3>3
  <2> QED  BY <2>4, <2>5, <2>6
<1>21. copying' = {} /\ \A g \in Handlers : g # h => handler[g].pc = "idle"
  BY <1>1, <1>2, <1>12 DEF Turnwise, Busy
<1>22. handler' = [handler EXCEPT ![h] = m]  BY <1>6, <1>7, <1>18
<1>23. ASSUME NEW q \in RequestIds PROVE Walked(q)'
  <2>1. CASE q = r  BY <1>2, <2>1 DEF Walked
  <2>2. CASE q # r
    <3>1. Walked(q)  BY DEF Placed
    <3> QED  BY <1>2, <2>2, <3>1 DEF Walked
  <2> QED  BY <2>1, <2>2
<1> QED  BY <1>19, <1>20, <1>21, <1>22, <1>23, PlacedRow

LEMMA PlacedOpen ==
    ASSUME IInv, Turnwise, Placed, NEW h \in Handlers, NEW u \in Users, NEW r \in RequestIds,
           OpenRequest(h, u, r), AtRest
    PROVE  Placed'
<1>1. PICK me : me = [Idle EXCEPT !.user = u]  OBVIOUS
<1>2. PICK f \in SetToSeqs(StepsAt(1)) : handler' = [handler EXCEPT ![h] = Doing(me, FirstItems(r, f))]
  BY <1>1 DEF OpenRequest
<1>3. PICK items : items = FirstItems(r, f)  OBVIOUS
<1>4. StepsAt(1) \subseteq Names /\ \A a \in StepsAt(1) : Level[a] = 1  BY DEF StepsAt
<1>5. /\ items \in Seq(Item)
      /\ \A i \in 1 .. Len(items) : \E a \in StepsAt(1) : items[i] = Create(r, a, Assignee[a], 0, 0)
  BY <1>2, <1>3, <1>4, FirstSteps
<1>6. /\ place' = [place EXCEPT ![r] = 1] /\ request[r].state = "none"
      /\ request' = [request EXCEPT ![r].state = "running"]
  BY DEF OpenRequest
<1>60. place[r] = 0  BY <1>6 DEF Placed, Walked
<1>7. place \in [RequestIds -> -1 .. LastLevel + 1] /\ request \in [RequestIds -> RequestRow]
  BY DEF IInv, TypeOK
<1>70. /\ \A q \in RequestIds : request'[q].again = request[q].again
       /\ \A q \in RequestIds : q # r => place'[q] = place[q] /\ request'[q] = request[q]
       /\ place'[r] = 1 /\ request'[r].state = "running"
  BY <1>6, <1>7 DEF RequestRow
<1>71. FirstWalk' <=> FirstWalk  BY <1>70 DEF FirstWalk
<1>72. ASSUME NEW q \in RequestIds PROVE Walked(q)'
  <2>1. CASE q = r  BY <1>70, <2>1 DEF Walked
  <2>2. CASE q # r
    <3>1. Walked(q)  BY DEF Placed
    <3> QED  BY <1>70, <1>71, <2>2, <3>1 DEF Walked
  <2> QED  BY <2>1, <2>2
<1>8. UNCHANGED <<task, nextTask, copying, spreading>> /\ copying = {} /\ spreading = {}
  BY DEF OpenRequest, AtRest
<1>9. \E V \in SUBSET Made' : Aside(V)' /\ items \in Seq(NewStep(V)')
  <2>1. PICK V : V = {}  OBVIOUS
  <2>2. V \in SUBSET Made /\ V \in SUBSET Made'  BY <2>1
  <2>3. \A a \in StepsAt(1) : FirstWalk' => place'[r] = Level[a]  BY <1>4, <1>70
  <2>4. items \in Seq(NewStep(V)')  BY <1>4, <1>5, <2>2, <2>3, FirstPlaced
  <2>5. Aside(V)'  BY <1>8, <2>1 DEF Aside
  <2> QED  BY <2>2, <2>4, <2>5
<1>10. PICK m : m = Doing(me, items)  OBVIOUS
<1>11. RowPlaced(m)'
  <2>1. m = Idle \/ (m.pc = "create" /\ m.todo = items)  BY <1>1, <1>10 DEF Doing, Idle
  <2>2. CASE m = Idle  BY <2>2, IdlePlaced DEF Idle
  <2>3. CASE m.pc = "create" /\ m.todo = items
    BY <1>9, <2>3 DEF RowPlaced, Works, Silent
  <2> QED  BY <2>1, <2>2, <2>3
<1>12. ASSUME NEW t \in Made' PROVE Reached(t)'
  <2>1. t \in Made /\ Reached(t)  BY <1>8, MadeSame DEF Placed
  <2>2. task[t].request \in RequestIds /\ task[t].name \in Names  BY <2>1 DEF IInv, RowsGood
  <2>3. FirstWalk => task[t].request # r
    <3>1. Level[task[t].name] >= 1  BY <2>2, Levels, Sizes
    <3> QED  BY <1>60, <2>1, <2>2, <3>1, Levels DEF Reached
  <2>4. task[t].request # r => place'[task[t].request] = place[task[t].request]  BY <1>70, <2>2
  <2> QED  BY <1>8, <1>71, <2>1, <2>3, <2>4 DEF Reached
<1>13. \A g \in Handlers : g # h => handler[g].pc = "idle"  BY DEF AtRest
<1>14. handler' = [handler EXCEPT ![h] = m]  BY <1>2, <1>3, <1>10
<1>15. copying' = {}  BY <1>8
<1> QED  BY <1>11, <1>12, <1>13, <1>14, <1>15, <1>72, PlacedRow

(* The calls that only write rows of delegations and shares, or none.       *)
Light(h) ==
    /\ handler[h].pc \in {"idle", "unshare", "rivals"} /\ (handler[h].pc = "idle" => AtRest)
    /\ UNCHANGED <<place, request, task, nextTask, copying, spreading>>
    /\ \E m : /\ handler' = [handler EXCEPT ![h] = m]
              /\ m.pc \in {"idle", "update", "trigger", "unshare", "rivals", "withdraw"}

LEMMA CallIs ==
    ASSUME IInv, Alone = Calls, NEW h \in Handlers, Call(h)
    PROVE  Light(h) \/ \E u \in Users, r \in RequestIds : OpenRequest(h, u, r) /\ AtRest
<1>0. \A c \in Calls : Accept(h, c) => handler[h].pc = "idle" /\ AtRest  BY DEF Accept
<1>1. ASSUME NEW u \in Users, NEW r \in RequestIds, OpenRequest(h, u, r) PROVE AtRest
  BY <1>0, <1>1 DEF OpenRequest, Calls
<1>2. ASSUME NEW m, handler' = [handler EXCEPT ![h] = m], handler[h].pc = "idle", AtRest,
             UNCHANGED <<place, request, task, nextTask, copying, spreading>>,
             m.pc \in {"idle", "update", "trigger", "unshare", "rivals", "withdraw"}
      PROVE  Light(h)
  BY <1>2 DEF Light
<1>3. ASSUME NEW u \in Users, NEW t \in TaskIds, SubmitTask(h, u, t) PROVE Light(h)
  <2>1. PICK m : m = [Idle EXCEPT !.pc = "update", !.user = u, !.task = t]  OBVIOUS
  <2>2. m.pc = "update"  BY <2>1 DEF Idle
  <2> QED  BY <1>0, <1>2, <1>3, <2>1, <2>2 DEF SubmitTask, Calls
<1>4. ASSUME NEW u, NEW d, Triggers(h, u, d), handler[h].pc = "idle", AtRest,
             UNCHANGED <<place, request, task, nextTask, copying, spreading>>
      PROVE  Light(h)
  <2>1. PICK w : w = [Idle EXCEPT !.pc = "trigger", !.user = u, !.delegation = d]  OBVIOUS
  <2>2. PICK m \in {Idle, w} : handler' = [handler EXCEPT ![h] = m]  BY <1>4, <2>1 DEF Triggers
  <2>3. w.pc = "trigger" /\ Idle.pc = "idle"  BY <2>1 DEF Idle
  <2> QED  BY <1>2, <1>4, <2>2, <2>3
<1>5. ASSUME NEW u \in Users, NEW v \in Users, NEW w \in {"coming", "current"}, NEW t,
             CreateDelegation(h, u, v, t, w)
      PROVE  Light(h)
  BY <1>0, <1>4, <1>5 DEF CreateDelegation, Calls
<1>6. ASSUME NEW u \in Users, NEW d \in DelegationIds, UpdateDelegation(h, u, d) PROVE Light(h)
  BY <1>0, <1>4, <1>6 DEF UpdateDelegation, Calls
<1>7. ASSUME NEW u, NEW d, DeletesRow(h, u, d) PROVE Light(h)
  <2>1. PICK m : m = [Idle EXCEPT !.pc = "unshare", !.user = u, !.delegation = d]  OBVIOUS
  <2>2. m.pc = "unshare"  BY <2>1 DEF Idle
  <2> QED  BY <1>0, <1>2, <1>7, <2>1, <2>2 DEF DeletesRow, Calls
<1>8. ASSUME NEW d \in DelegationIds, TriggerDaily(h, d) PROVE Light(h)
  <2>1. PICK m : m = [Idle EXCEPT !.pc = "trigger", !.delegation = d]  OBVIOUS
  <2>2. m.pc = "trigger"  BY <2>1 DEF Idle
  <2> QED  BY <1>0, <1>2, <1>8, <2>1, <2>2 DEF TriggerDaily, Calls
<1> QED
  BY <1>1, <1>3, <1>5, <1>6, <1>7, <1>8 DEF Call, DeleteDelegation, ExpireDaily

LEMMA EndIs ==
    ASSUME IInv, NEW h \in Handlers, DeleteShares(h) \/ FindRivals(h)
    PROVE  Light(h)
<1>0. handler[h] \in HandlerRow  BY TaskRows
<1>1. CASE DeleteShares(h)
  <2>1. PICK m : m = [handler[h] EXCEPT !.pc = "rivals"]  OBVIOUS
  <2>2. m.pc = "rivals"  BY <1>0, <2>1 DEF HandlerRow
  <2>3. handler' = [handler EXCEPT ![h] = m] /\ handler[h].pc = "unshare"
    BY <1>1, <2>1 DEF DeleteShares
  <2> QED  BY <1>1, <2>2, <2>3 DEF Light, DeleteShares
<1>2. CASE FindRivals(h)
  <2>1. PICK w : w = [handler[h] EXCEPT !.pc = "withdraw"]  OBVIOUS
  <2>2. PICK m \in {Idle, w} : handler' = [handler EXCEPT ![h] = m]  BY <1>2, <2>1 DEF FindRivals, IInv, TypeOK
  <2>3. w.pc = "withdraw"  BY <1>0, <2>1 DEF HandlerRow
  <2>4. Idle.pc = "idle"  BY DEF Idle
  <2> QED  BY <1>2, <2>2, <2>3, <2>4 DEF Light, FindRivals
<1> QED  BY <1>1, <1>2

LEMMA LightRest ==
    ASSUME Turnwise, Placed, NEW h \in Handlers, Light(h)
    PROVE  /\ spreading = {} /\ copying = {}
           /\ \A g \in Handlers : g # h => handler[g].pc = "idle"
<1>1. CASE AtRest  BY <1>1 DEF AtRest
<1>2. CASE handler[h].pc \in {"unshare", "rivals"}
  BY <1>2 DEF Placed, RowPlaced, Silent, Turnwise, Busy
<1> QED  BY <1>1, <1>2 DEF Light

LEMMA PlacedLight ==
    ASSUME IInv, Turnwise, Placed, NEW h \in Handlers, Light(h)
    PROVE  Placed'
<1>1. /\ spreading = {} /\ copying = {}
      /\ \A g \in Handlers : g # h => handler[g].pc = "idle"
  BY LightRest
<1>2. UNCHANGED <<place, request, task, nextTask, copying, spreading>>  BY DEF Light
<1>3. PICK m : /\ handler' = [handler EXCEPT ![h] = m]
               /\ m.pc \in {"idle", "update", "trigger", "unshare", "rivals", "withdraw"}
  BY DEF Light
<1>4. RowPlaced(m)'  BY <1>1, <1>2, <1>3 DEF RowPlaced, Works, Silent
<1>5. \A t \in Made' : Reached(t)'  BY <1>2, MadeSame, ReachedSame
<1>6. copying' = {}  BY <1>1, <1>2
<1>7. \A r \in RequestIds : Walked(r)'  BY <1>2, WalkedSame
<1> QED  BY <1>1, <1>3, <1>4, <1>5, <1>6, <1>7, PlacedRow

(* The steps that write or read for all of a delegation, and answer.        *)
LEMMA PlacedAnswer ==
    ASSUME IInv, Turnwise, Placed, NEW h \in Handlers, Trigger(h) \/ WithdrawCopies(h)
    PROVE  Placed'
<1>1. /\ handler' = [handler EXCEPT ![h] = Idle] /\ handler[h].pc \in {"trigger", "withdraw"}
      /\ UNCHANGED <<place, request, nextTask, spreading>>
  BY DEF Trigger, WithdrawCopies
<1>2. \A t \in TaskIds : task'[t].request = task[t].request /\ task'[t].name = task[t].name
  <2>1. CASE Trigger(h)  BY <2>1 DEF Trigger
  <2>2. CASE WithdrawCopies(h)
    <3>1. \A t \in TaskIds : task'[t] = task[t] \/ task'[t] = [task[t] EXCEPT !.state = "none"]
      BY <2>2 DEF WithdrawCopies
    <3> QED  BY <3>1, TaskRows DEF TaskRow
  <2> QED  BY <2>1, <2>2
<1>3. \A t \in Made' : Reached(t)'
  <2>1. Made' = Made /\ Made \subseteq TaskIds  BY <1>1, MadeSame DEF Made
  <2> QED  BY <1>1, <1>2, <2>1, ReachedSame
<1>4. spreading' = {}  BY <1>1 DEF Placed, RowPlaced, Silent
<1>5. \A g \in Handlers : g # h => handler[g].pc = "idle"  BY <1>1 DEF Turnwise, Busy
<1>6. PICK m : m = Idle  OBVIOUS
<1>7. RowPlaced(m)'  BY <1>6, IdlePlaced DEF Idle
<1>8. handler' = [handler EXCEPT ![h] = m]  BY <1>1, <1>6
<1>9. \A r \in RequestIds : Walked(r)'  BY <1>1, WalkedSame
<1> QED  BY <1>3, <1>4, <1>5, <1>7, <1>8, <1>9, PlacedRow

(* The goroutines of UpdateDelegated go on among the same tasks.            *)
LEMMA AsideSpread ==
    ASSUME IInv, SpreadStep, NEW V \in SUBSET Made, Aside(V)
    PROVE  Aside(V)'
<1>1. PICK p \in spreading : \/ FindAbove(p) \/ WriteAbove(p) \/ FindBelow(p)
                             \/ \E t \in p.rows : WriteBelow(p, t)
  BY DEF SpreadStep
<1>2. p \in Spread /\ (p.pc = "upWrite" => p.bound # 0) /\ Stays(V, p)
  BY DEF IInv, RunsGood, GoodSpread, Aside
<1>3. 0 \notin V /\ V \subseteq TaskIds  BY DEF Made
<1>4. UNCHANGED nextTask /\ Made' = Made
  BY <1>1, MadeSame DEF FindAbove, WriteAbove, FindBelow, WriteBelow
<1>5. ASSUME NEW t \in V, NEW o \in V \cup {0}, Writes(t, p, o)
      PROVE  /\ \A v \in V : task'[v].bound \in V \cup {0}
             /\ \A v \in Made \ V : task'[v].bound \notin V
  <2>0. t \in TaskIds /\ task[t] \in TaskRow  BY <1>3, TaskRows
  <2>1. \A v \in TaskIds : task'[v].bound = task[v].bound \/ (v = t /\ task'[v].bound = o)
    <3>1. CASE UNCHANGED task  BY <3>1
    <3>2. CASE task' = [task EXCEPT ![t] = Written(@, p, o)]
      <4>1. PICK row : row = Written(task[t], p, o)  OBVIOUS
      <4>2. row.bound = o  BY <2>0, <4>1 DEF Written, TaskRow
      <4>3. \A v \in TaskIds : task'[v] = IF v = t THEN row ELSE task[v]
        BY <2>0, <3>2, <4>1, TaskTable
      <4> QED  BY <4>2, <4>3
    <3> QED  BY <1>5, <3>1, <3>2 DEF Writes
  <2> QED  BY <1>3, <1>5, <2>1 DEF Aside, Made
<1>6. ASSUME UNCHANGED task
      PROVE  /\ \A v \in V : task'[v].bound \in V \cup {0}
             /\ \A v \in Made \ V : task'[v].bound \notin V
  BY <1>6 DEF Aside
<1>7. ASSUME NEW q \in spreading', q \notin spreading => Stays(V, q) PROVE Stays(V, q)
  BY <1>7 DEF Aside
<1>8. CASE FindAbove(p)
  <2>1. UNCHANGED task  BY <1>8 DEF FindAbove
  <2>2. ASSUME NEW q \in spreading', q \notin spreading PROVE Stays(V, q)
    <3>1. PICK a : a = task[p.bound].bound  OBVIOUS
    <3>2. \/ q = [p EXCEPT !.pc = "upWrite", !.above = a] /\ p.bound # 0
          \/ q = [p EXCEPT !.pc = "down"]
      BY <1>8, <2>2, <3>1 DEF FindAbove, Becomes
    <3>3. p.bound # 0 => a \in V \cup {0}  BY <1>2, <3>1 DEF Stays, Aside
    <3> QED  BY <1>2, <3>2, <3>3 DEF Stays, Spread
  <2> QED  BY <1>4, <1>6, <1>7, <2>1, <2>2 DEF Aside
<1>9. CASE WriteAbove(p)
  <2>1. p.bound \in V /\ p.above \in V \cup {0}  BY <1>2, <1>9 DEF WriteAbove, Stays
  <2>2. Writes(p.bound, p, p.bound)  BY <1>9 DEF WriteAbove
  <2>3. ASSUME NEW q \in spreading', q \notin spreading PROVE Stays(V, q)
    <3>1. q = [p EXCEPT !.pc = "down"] \/ q = Run(p.bound, p.above, FALSE, NoHandler)
      BY <1>9, <2>3 DEF WriteAbove
    <3>2. CASE q = [p EXCEPT !.pc = "down"]  BY <1>2, <3>2 DEF Stays, Spread
    <3>3. CASE q = Run(p.bound, p.above, FALSE, NoHandler)  BY <2>1, <3>3 DEF Stays, Run
    <3> QED  BY <3>1, <3>2, <3>3
  <2> QED  BY <1>4, <1>5, <1>7, <2>1, <2>2, <2>3 DEF Aside
<1>10. CASE FindBelow(p)
  <2>1. UNCHANGED task  BY <1>10 DEF FindBelow
  <2>2. Below(p) \subseteq V
    <3> SUFFICES ASSUME NEW t \in Below(p) PROVE t \in V  OBVIOUS
    <3>1. t \in TaskIds /\ Exists(t) /\ task[t].bound \in V
      BY <1>2 DEF Below, IsOpen, Exists, Stays
    <3>2. t \in Made  BY <3>1, ExistsMade
    <3> QED  BY <3>1, <3>2 DEF Aside
  <2>3. ASSUME NEW q \in spreading', q \notin spreading PROVE Stays(V, q)
    <3>1. q = [p EXCEPT !.pc = "downWrite", !.rows = Below(p)]
      BY <1>10, <2>3 DEF FindBelow, Becomes, Ends
    <3> QED  BY <1>2, <2>2, <3>1 DEF Stays, Spread
  <2> QED  BY <1>4, <1>6, <1>7, <2>1, <2>3 DEF Aside
<1>11. ASSUME NEW t \in p.rows, WriteBelow(p, t) PROVE Aside(V)'
  <2>1. t \in V /\ p.task \in V /\ Writes(t, p, p.task)
    BY <1>2, <1>11 DEF WriteBelow, Stays
  <2>2. ASSUME NEW q \in spreading', q \notin spreading PROVE Stays(V, q)
    <3>1. q = [p EXCEPT !.rows = @ \ {t}] \/ q = Run(t, p.task, FALSE, NoHandler)
      BY <1>11, <2>2 DEF WriteBelow
    <3>2. CASE q = [p EXCEPT !.rows = @ \ {t}]  BY <1>2, <1>11, <3>2 DEF Stays, Spread, WriteBelow
    <3>3. CASE q = Run(t, p.task, FALSE, NoHandler)  BY <2>1, <3>3 DEF Stays, Run
    <3> QED  BY <3>1, <3>2, <3>3
  <2> QED  BY <1>4, <1>5, <1>7, <2>1, <2>2 DEF Aside
<1> QED  BY <1>1, <1>8, <1>9, <1>10, <1>11

LEMMA PlacedSpread ==
    ASSUME IInv, Placed, SpreadStep
    PROVE  Placed'
<1>1. /\ \A g \in Handlers : \/ handler'[g] = handler[g]
                             \/ /\ handler[g].pc = "spread"
                                 /\ handler'[g] = [handler[g] EXCEPT !.pc = "others"]
      /\ UNCHANGED <<place, delegation, share, nextTask, nextDelegation, copying>>
  BY SpreadEffect
<1>10. UNCHANGED request
  BY DEF SpreadStep, FindAbove, WriteAbove, FindBelow, WriteBelow
<1>2. Thin /\ spreading # {}  BY SpreadThin DEF SpreadStep
<1>4. Made' = Made /\ Made \subseteq TaskIds  BY <1>1, MadeSame DEF Made
<1>5. \A t \in Made' : Reached(t)'  BY <1>1, <1>10, <1>2, <1>4, ReachedSame DEF Thin
<1>6. \A r \in RequestIds : Walked(r)'  BY <1>1, <1>10, WalkedSame
<1>7. ASSUME NEW m \in GoodHandler, RowPlaced(m) PROVE RowPlaced(m)'
  <2>1. m.pc \notin Silent  BY <1>2, <1>7 DEF RowPlaced
  <2>2. CASE m.pc \in Works
    <3>1. m.task \in TaskIds  BY <2>2 DEF GoodHandler, Works, Made
    <3>2. task'[m.task].request = task[m.task].request  BY <1>2, <3>1 DEF Thin
    <3>3. /\ m.at = place[task[m.task].request]
          /\ m.ended = (request[task[m.task].request].state = "ended")
      BY <1>7, <2>2 DEF RowPlaced
    <3>4. m.at = place'[task'[m.task].request]  BY <1>1, <3>2, <3>3
    <3>5. m.ended = (request'[task'[m.task].request].state = "ended")  BY <1>10, <3>2, <3>3
    <3>6. m.pc # "create"  BY <2>2 DEF Works
    <3> QED  BY <2>1, <3>4, <3>5, <3>6 DEF RowPlaced
  <2>3. CASE m.pc = "create"
    <3>1. PICK V \in SUBSET Made : Aside(V) /\ m.todo \in Seq(NewStep(V))
      BY <1>7, <2>3 DEF RowPlaced
    <3>2. Aside(V)'  BY <3>1, AsideSpread
    <3>3. PICK S : S = NewStep(V)  OBVIOUS
    <3>4. NewStep(V)' = S  BY <1>1, <1>10, <3>3, NewSame
    <3>5. m.todo \in Seq(S)  BY <3>1, <3>3
    <3>6. m.todo \in Seq(NewStep(V)')  BY <3>4, <3>5
    <3> QED  BY <1>4, <2>3, <3>2, <3>6 DEF RowPlaced, Works, Silent
  <2>4. CASE m.pc \notin Works /\ m.pc # "create"  BY <2>1, <2>4 DEF RowPlaced
  <2> QED  BY <2>2, <2>3, <2>4
<1>8. ASSUME NEW g \in Handlers PROVE RowPlaced(handler[g])'
  <2>1. PICK m : m = handler[g]  OBVIOUS
  <2>2. m \in GoodHandler /\ RowPlaced(m) /\ m \in HandlerRow
    BY <2>1 DEF Placed, IInv, CallsGood, GoodHandler
  <2>3. RowPlaced(m)'  BY <1>7, <2>2
  <2>4. CASE handler'[g] = handler[g]  BY <2>1, <2>3, <2>4
  <2>5. CASE m.pc = "spread" /\ handler'[g] = [m EXCEPT !.pc = "others"]
    <3>1. PICK q : q = [m EXCEPT !.pc = "others"]  OBVIOUS
    <3>2. q.pc = "others" /\ q.task = m.task /\ q.at = m.at /\ q.ended = m.ended
      BY <2>2, <3>1 DEF HandlerRow
    <3>3. RowPlaced(q)'  BY <2>3, <2>5, <3>2 DEF RowPlaced, Works, Silent
    <3> QED  BY <2>5, <3>1, <3>3
  <2> QED  BY <1>1, <2>1, <2>4, <2>5
<1>9. copying' = {}  BY <1>1, <1>2 DEF Placed
<1> QED  BY <1>5, <1>6, <1>8, <1>9 DEF Placed

(* The goroutines of Trigger: no call and no run is at work beside them.    *)
LEMMA CopyRest ==
    ASSUME Turnwise, Placed, CopyStep
    PROVE  /\ spreading = {} /\ UNCHANGED <<place, request, handler, spreading, delegation>>
           /\ \A g \in Handlers : handler[g].pc = "idle"
BY DEF CopyStep, FindCopyShare, AddCopyShare, FindCopy, AddCopy, Placed, Turnwise, Busy

(* A copy is a new row, alike to its original but open and bound to it.     *)
LEMMA CopyIs ==
    ASSUME IInv, CopyStep
    PROVE  \/ UNCHANGED <<task, nextTask>>
           \/ \E c \in copying, n \in TaskIds :
                 /\ n = nextTask /\ nextTask' = nextTask + 1 /\ ~Exists(n) /\ n \notin Made
                 /\ c.task \in Made
                 /\ \A t \in TaskIds : t # n => task'[t] = task[t]
                 /\ task'[n].state = "open" /\ task'[n].bound = c.task
                 /\ task'[n].request = task[c.task].request /\ task'[n].name = task[c.task].name
<1>1. CASE UNCHANGED <<task, nextTask>>  BY <1>1
<1>2. CASE ~UNCHANGED <<task, nextTask>>
  <2>1. PICK c \in copying : AddCopy(c)
    BY <1>2 DEF CopyStep, FindCopyShare, AddCopyShare, FindCopy
  <2>2. c \in Copy /\ c.task \in Made /\ c.task \in TaskIds
    BY DEF IInv, RunsGood, GoodCopy, Copy
  <2>3. PICK row : row = [task[c.task] EXCEPT !.state = "open", !.bound = c.task,
                                              !.entity = NoEntity,
                                              !.user = delegation[c.delegation].to]
    OBVIOUS
  <2>4. AddTask(row)  BY <1>2, <2>1, <2>3 DEF AddCopy
  <2>5. PICK n \in TaskIds : /\ n = nextTask /\ ~Exists(n) /\ n \notin Made
                             /\ \A t \in TaskIds : task'[t] = IF t = n THEN row ELSE task[t]
    BY <2>4, AddedRow
  <2>6. task[c.task] \in TaskRow  BY <2>2, TaskRows
  <2>7. /\ row.state = "open" /\ row.bound = c.task
        /\ row.request = task[c.task].request /\ row.name = task[c.task].name
    BY <2>3, <2>6 DEF TaskRow
  <2>8. nextTask' = nextTask + 1  BY <2>4 DEF AddTask
  <2> QED  BY <2>2, <2>5, <2>7, <2>8
<1> QED  BY <1>1, <1>2

LEMMA MadeMore == ASSUME IInv, nextTask' = nextTask + 1 PROVE \A t \in Made' : t \in Made \/ t = nextTask
BY TaskTable DEF Made

LEMMA PlacedCopy ==
    ASSUME IInv, Turnwise, Placed, CopyStep
    PROVE  Placed'
<1>1. /\ spreading = {} /\ UNCHANGED <<place, request, handler, spreading>>
      /\ \A g \in Handlers : handler[g].pc = "idle"
  BY CopyRest
<1>0. FirstWalk' <=> FirstWalk  BY <1>1 DEF FirstWalk
<1>00. \A r \in RequestIds : Walked(r)'  BY <1>1, WalkedSame
<1>2. \A t \in Made' : Reached(t)'
  <2>1. CASE UNCHANGED <<task, nextTask>>  BY <1>1, <2>1, MadeSame, ReachedSame
  <2>2. ASSUME NEW c \in copying, NEW n \in TaskIds,
                 n = nextTask, nextTask' = nextTask + 1, n \notin Made, c.task \in Made,
                 \A t \in TaskIds : t # n => task'[t] = task[t],
                 task'[n].request = task[c.task].request, task'[n].name = task[c.task].name
        PROVE  \A t \in Made' : Reached(t)'
    <3> SUFFICES ASSUME NEW t \in Made' PROVE Reached(t)'  OBVIOUS
    <3>1. t \in Made \/ t = n  BY <2>2, MadeMore
    <3>2. CASE t \in Made
      <4>1. task'[t] = task[t]  BY <2>2, <3>2 DEF Made
      <4> QED  BY <1>0, <1>1, <3>2, <4>1 DEF Placed, Reached
    <3>3. CASE t = n
      <4>1. Reached(c.task)  BY <2>2 DEF Placed
      <4> QED  BY <1>0, <1>1, <2>2, <3>3, <4>1 DEF Reached
    <3> QED  BY <3>1, <3>2, <3>3
  <2> QED  BY <2>1, <2>2, CopyIs
<1>3. \A g \in Handlers : RowPlaced(handler[g])'
  <2> SUFFICES ASSUME NEW g \in Handlers PROVE RowPlaced(handler[g])'  OBVIOUS
  <2>1. PICK m : m = handler[g]  OBVIOUS
  <2>2. m.pc = "idle" /\ handler'[g] = m  BY <1>1, <2>1
  <2>3. RowPlaced(m)'  BY <2>2, IdlePlaced
  <2> QED  BY <2>2, <2>3
<1> QED  BY <1>00, <1>1, <1>2, <1>3 DEF Placed

LEMMA PlacedToday ==
    ASSUME IInv, Turnwise, Placed, Alone = Calls, NEW d \in DelegationIds, NEW w, Today(d, w)
    PROVE  Placed'
<1>1. AtRest /\ UNCHANGED <<place, request, task, nextTask, handler, copying, spreading>>
  BY DEF Today, Calls
<1>2. \A t \in Made' : Reached(t)'  BY <1>1, MadeSame, ReachedSame
<1>3. \A g \in Handlers : handler'[g].pc = "idle"  BY <1>1 DEF AtRest
<1>4. \A g \in Handlers : RowPlaced(handler[g])'  BY <1>3 DEF RowPlaced, Works, Silent
<1>5. copying' = {}  BY <1>1 DEF AtRest
<1>6. \A r \in RequestIds : Walked(r)'  BY <1>1, WalkedSame
<1> QED  BY <1>2, <1>4, <1>5, <1>6 DEF Placed

LEMMA NextPlaced ==
    ASSUME IInv, IInv', Turnwise, Placed, Alone = Calls, ~UpdatesMayFail, [Next]_vars
    PROVE  Placed'
<1>1. ASSUME NEW h \in Handlers, Call(h) PROVE Placed'
  BY <1>1, CallIs, PlacedLight, PlacedOpen
<1>2. ASSUME NEW h \in Handlers, Proceed(h) PROVE Placed'
  BY <1>2, PlacedItems, PlacedInsert, PlacedRebind, PlacedPlain, PlacedAdvance, PlacedAnswer, EndIs,
     PlacedLight DEF Proceed, Plain
<1>3. ASSUME NEW d \in DelegationIds, NEW w, Today(d, w) PROVE Placed'
  BY <1>3, PlacedToday
<1>4. CASE UNCHANGED vars
  <2>1. UNCHANGED <<place, request, task, nextTask, handler, copying, spreading>>  BY <1>4 DEF vars
  <2>2. Made' = Made  BY <2>1, MadeSame
  <2>3. \A r \in RequestIds : Walked(r)'  BY <2>1, WalkedSame
  <2>4. \A t \in Made' : Reached(t)'  BY <2>1, <2>2, ReachedSame
  <2>5. ASSUME NEW h \in Handlers PROVE RowPlaced(handler[h])'
    <3>1. PICK m : m = handler[h]  OBVIOUS
    <3>2. RowPlaced(m)  BY <3>1 DEF Placed
    <3>3. m.pc = "create" => \E V \in SUBSET Made' : Aside(V)' /\ m.todo \in Seq(NewStep(V)')
      <4> SUFFICES ASSUME m.pc = "create"
                   PROVE  \E V \in SUBSET Made' : Aside(V)' /\ m.todo \in Seq(NewStep(V)')
        OBVIOUS
      <4>1. PICK V \in SUBSET Made : Aside(V) /\ m.todo \in Seq(NewStep(V))  BY <3>2 DEF RowPlaced
      <4>2. Aside(V)'  BY <2>1, <2>2, <4>1 DEF Aside
      <4>3. NewStep(V)' = NewStep(V)  BY <2>1, NewSame
      <4> QED  BY <2>2, <4>1, <4>2, <4>3
    <3>4. RowPlaced(m)'  BY <2>1, <3>2, <3>3 DEF RowPlaced
    <3> QED  BY <2>1, <3>1, <3>4
  <2>6. copying' # {} => spreading' = {}  BY <2>1 DEF Placed
  <2> QED  BY <2>3, <2>4, <2>5, <2>6 DEF Placed
<1> QED  BY <1>1, <1>2, <1>3, <1>4, PlacedSpread, PlacedCopy DEF Next

----------------------------------------------------------------------------
(***************************************************************************)
(* Which rows the goroutines may reach.  A task that a newer one may be    *)
(* bound to is old; one that an older task is or will be bound to (UpInto) *)
(* is bound to no other.  From the original that a call's run closes, the  *)
(* runs it starts can therefore go up and down without coming back to the  *)
(* tasks bound to the one the call closed: U is where they may be.  Hence  *)
(* no two goroutines write "closed" and "open" on one row.                 *)
(*                                                                         *)
(* Meanwhile the call may be creating the next step and bind a delegate's  *)
(* task to the one of the owner it has just created, once.                 *)
(***************************************************************************)
UpInto(z) == \/ \E t \in TaskIds : t < z /\ task[t].bound = z
             \/ \E g \in spreading : g.task = z /\ \E t \in g.rows : t < z
Tree == /\ \A z \in TaskIds : UpInto(z) => Root(z)
        /\ \A p \in spreading : \A z \in p.rows : z # p.task => ~UpInto(z)

RowShut(m) ==
    /\ m.pc \in {"read"} \cup Works => IsClosed(m.task) /\ m.bound = task[m.task].bound
    /\ m.pc = "reread" => IsClosed(m.task) \/ ~Exists(m.task)

RunOpen(p) == /\ p.closes <=> p.by # NoHandler
              /\ p.pc = "upWrite" => IsOpen(p.bound)
              /\ \A z \in p.rows : IsOpen(z)
              /\ p.pc # "downWrite" => p.rows = {}
OwnRun(p) == p.closes =>
    /\ p.task = handler[p.by].task /\ p.bound = handler[p.by].bound
    /\ \A z \in p.rows : task[z].bound = p.task
    /\ p.pc = "downWrite" => \A z \in TaskIds : IsOpen(z) /\ task[z].bound = p.task => z \in p.rows
    /\ p.pc \in {"up", "upWrite"} => spreading = {p}
Away(U, x) == /\ \A w \in U : IsOpen(w) => task[w].bound \in U \cup {0} /\ task[w].bound # x
              /\ \A g \in spreading : ~g.closes => Stays(U, g) /\ g.task # x
Apart(p) == p.closes =>
    \E U \in SUBSET TaskIds : /\ Away(U, p.task)
                              /\ p.pc = "upWrite" => p.bound \in U /\ p.above \in U \cup {0}

(* The owner of the original b of what the call has closed; he gets the     *)
(* next step too.                                                           *)
Mate(b) == IF b = 0 THEN NoUser ELSE task[b].user
Fits(x, B) ==
    /\ x.kind \in {"create", "insert"} /\ x.bound # 0 => IsOpen(x.bound)
    /\ x.kind \in {"create", "insert"} /\ x.task # 0 =>
          /\ IsOpen(x.task) /\ x.bound = 0 /\ x.user = B
          /\ ~UpInto(x.task) \/ (x.kind = "create" /\ task[x.task].user = B)
          /\ x.kind = "insert" => task[x.task].user # B
    /\ x.kind \in {"owner", "delegates", "rebind"} => IsOpen(x.task)
    /\ x.kind = "owner" => task[x.task].user = B \/ ~UpInto(x.task)
    /\ x.kind = "rebind" => /\ IsOpen(x.bound) /\ Root(x.bound) /\ task[x.bound].user = B
                            /\ task[x.task].user # B /\ ~UpInto(x.task)
FitItem(b) == {x \in Item : Fits(x, Mate(b))}
RowFits(m) == m.pc = "create" => m.bound \in Made \cup {0} /\ m.todo \in Seq(FitItem(m.bound))

Sorted == /\ Tree
          /\ \A p \in spreading : RunOpen(p) /\ OwnRun(p) /\ Apart(p)
          /\ \A h \in Handlers : RowShut(handler[h]) /\ RowFits(handler[h])
          /\ \A c \in copying : IsOpen(c.task)

LEMMA InitSorted == ASSUME Init PROVE Sorted
<1>1. \A t \in TaskIds : task[t].bound = 0  BY DEF Init, NoTask
<1>2. \A h \in Handlers : handler[h].pc = "idle"  BY DEF Init, Idle
<1>3. copying = {} /\ spreading = {}  BY DEF Init
<1>4. Tree  BY <1>1, <1>3 DEF Tree, Root
<1> QED  BY <1>2, <1>3, <1>4 DEF Sorted, RowShut, RowFits, Works

LEMMA RowOther ==
    ASSUME NEW m, m.pc \in {"idle", "update", "trigger", "unshare", "rivals", "withdraw"}
    PROVE  RowShut(m)' /\ RowFits(m)'
BY DEF RowShut, RowFits, Works

LEMMA Echo == ASSUME NEW p, ~p.closes PROVE OwnRun(p)' /\ Apart(p)' /\ OwnRun(p) /\ Apart(p)
BY DEF OwnRun, Apart

(* The runs beside a call that waits for none are nobody's.                 *)
LEMMA NoOwn ==
    ASSUME IInv, Turnwise, Sorted, \A g \in Handlers : handler[g].pc # "spread"
    PROVE  \A p \in spreading : ~p.closes
<1> SUFFICES ASSUME NEW p \in spreading, p.closes PROVE FALSE  OBVIOUS
<1>1. p.by # NoHandler  BY DEF Sorted, RunOpen
<1>2. p.by \in Handlers  BY <1>1 DEF IInv, TypeOK, Spread
<1> QED  BY <1>1, <1>2 DEF IInv, RunsGood

LEMMA SortedRow ==
    ASSUME IInv, NEW h \in Handlers, NEW m, handler' = [handler EXCEPT ![h] = m],
           \A g \in Handlers : g # h => handler[g].pc = "idle",
           RowShut(m)', RowFits(m)', Tree',
           \A p \in spreading' : RunOpen(p)' /\ OwnRun(p)' /\ Apart(p)',
           \A c \in copying' : IsOpen(c.task)'
    PROVE  Sorted'
<1>0. handler' = [handler EXCEPT ![h] = m]  OBVIOUS
<1>1. \A g \in Handlers : handler'[g] = IF g = h THEN m ELSE handler[g]
  BY ONLY IInv, <1>0, OneRow
<1>2. ASSUME NEW g \in Handlers PROVE RowShut(handler[g])' /\ RowFits(handler[g])'
  <2>1. CASE g = h
    <3>1. handler'[g] = m  BY <1>1, <2>1
    <3> QED  BY <3>1
  <2>2. CASE g # h
    <3>1. PICK q : q = handler'[g]  OBVIOUS
    <3>2. q.pc = "idle"  BY <1>1, <2>2, <3>1
    <3>3. RowShut(q)' /\ RowFits(q)'  BY <3>2, RowOther
    <3> QED  BY <3>1, <3>3
  <2> QED  BY <2>1, <2>2
<1> QED  BY <1>2 DEF Sorted

(* Nothing is written in dbtask and no run goes on.                         *)
LEMMA SortedSame ==
    ASSUME IInv, Turnwise, Sorted, NEW h \in Handlers, NEW m, handler' = [handler EXCEPT ![h] = m],
           \A g \in Handlers : g # h => handler[g].pc = "idle", handler[h].pc # "spread",
           UNCHANGED <<task, spreading>>, RowShut(m)', RowFits(m)',
           \A c \in copying' : IsOpen(c.task)'
    PROVE  Sorted'
<1>1. Tree'  BY DEF Sorted, Tree, UpInto, Root
<1>2. \A p \in spreading : ~p.closes  BY NoOwn
<1>3. ASSUME NEW p \in spreading' PROVE RunOpen(p)' /\ OwnRun(p)' /\ Apart(p)'
  <2>1. p \in spreading /\ ~p.closes  BY <1>2
  <2>2. RunOpen(p)'  BY <2>1 DEF Sorted, RunOpen, IsOpen
  <2> QED  BY <2>1, <2>2, Echo
<1> QED  BY <1>1, <1>3, SortedRow

LEMMA SortedLight ==
    ASSUME IInv, Turnwise, Placed, Sorted, NEW h \in Handlers, Light(h)
    PROVE  Sorted'
<1>1. /\ spreading = {} /\ copying = {}
      /\ \A g \in Handlers : g # h => handler[g].pc = "idle"
  BY LightRest
<1>2. UNCHANGED <<place, request, task, nextTask, copying, spreading>> /\ handler[h].pc # "spread"  BY DEF Light
<1>3. PICK m : /\ handler' = [handler EXCEPT ![h] = m]
               /\ m.pc \in {"idle", "update", "trigger", "unshare", "rivals", "withdraw"}
  BY DEF Light
<1>4. RowShut(m)' /\ RowFits(m)'  BY <1>3, RowOther
<1>5. copying' = {}  BY <1>1, <1>2
<1> QED  BY <1>1, <1>2, <1>3, <1>4, <1>5, SortedSame

(* A call that replaces the first thing to do, when what follows stays fit. *)
LEMMA SortedStack ==
    ASSUME IInv, Turnwise, Placed, Sorted, NEW h \in Handlers, handler[h].pc = "create",
           NEW b, b = handler[h].bound, NEW items \in Seq(Item), Replace(h, items),
           \A i \in 1 .. Len(items) : items[i] \in FitItem(b)',
           \A y \in FitItem(b) : y \in GoodItem => y \in FitItem(b)',
           Tree', \A p \in spreading : RunOpen(p)', UNCHANGED <<copying, spreading>>, Made \subseteq Made'
    PROVE  Sorted'
<1>1. PICK m : /\ handler' = [handler EXCEPT ![h] = m]
               /\ \/ m = Idle
                  \/ /\ m.pc = "create" /\ m.todo = items \o Tail(handler[h].todo)
                     /\ m.todo # <<>> /\ m.bound = handler[h].bound
  BY StackRow
<1>2. \A g \in Handlers : g # h => handler[g].pc = "idle"  BY DEF Turnwise, Busy
<1>3. copying' = {}  BY DEF Turnwise, Busy
<1>4. \A p \in spreading : ~p.closes
  <2>1. \A g \in Handlers : handler[g].pc # "spread"  BY <1>2
  <2> QED  BY <2>1, NoOwn
<1>5. ASSUME NEW p \in spreading' PROVE RunOpen(p)' /\ OwnRun(p)' /\ Apart(p)'
  <2>1. p \in spreading /\ ~p.closes /\ RunOpen(p)'  BY <1>4
  <2> QED  BY <2>1, Echo
<1>6. PICK S, T : S = FitItem(b)' /\ T = Tail(handler[h].todo)  OBVIOUS
<1>7. T \in Seq(S)
  <2>1. handler[h].todo \in Seq(GoodItem) /\ handler[h].todo # <<>>
    BY DEF IInv, CallsGood, GoodHandler
  <2>3. handler[h].todo \in Seq(FitItem(b))  BY DEF Sorted, RowFits
  <2>4. PICK G, F, Q : G = GoodItem /\ F = FitItem(b) /\ Q = handler[h].todo  OBVIOUS
  <2>40. Q \in Seq(G) /\ Q \in Seq(F) /\ Q # <<>>  BY <2>1, <2>3, <2>4
  <2>41. T = Tail(Q)  BY <1>6, <2>4
  <2>5. T \in Seq(G) /\ T \in Seq(F)  BY <2>40, <2>41
  <2>6. \A i \in 1 .. Len(T) : T[i] \in G /\ T[i] \in F  BY <2>5
  <2>7. \A i \in 1 .. Len(T) : T[i] \in S  BY <1>6, <2>4, <2>6
  <2> QED  BY <2>5, <2>7
<1>8. items \in Seq(S)
  <2>1. \A i \in 1 .. Len(items) : items[i] \in S  BY <1>6
  <2> QED  BY <2>1
<1>9. items \o T \in Seq(S)  BY <1>7, <1>8
<1>10. b \in Made' \cup {0}  BY DEF Sorted, RowFits
<1>11. RowShut(m)' /\ RowFits(m)'
  <2>1. CASE m = Idle  BY <2>1, RowOther DEF Idle
  <2>2. CASE m.pc = "create" /\ m.todo = items \o Tail(handler[h].todo) /\ m.bound = handler[h].bound
    <3>1. m.bound = b /\ m.todo = items \o T  BY <1>6, <2>2
    <3>2. m.todo \in Seq(FitItem(m.bound)')  BY <1>6, <1>9, <3>1
    <3>3. m.bound \in (Made \cup {0})'  BY <1>10, <3>1
    <3>4. RowFits(m)'  BY <3>2, <3>3 DEF RowFits
    <3>5. RowShut(m)'  BY <2>2 DEF RowShut, Works
    <3> QED  BY <3>4, <3>5
  <2> QED  BY <1>1, <2>1, <2>2
<1>12. \A c \in copying' : IsOpen(c.task)'  BY <1>3
<1>13. handler' = [handler EXCEPT ![h] = m]  BY <1>1
<1> QED  BY <1>2, <1>5, <1>11, <1>12, <1>13, SortedRow

LEMMA HeadFits ==
    ASSUME IInv, Sorted, NEW h \in Handlers, handler[h].pc = "create", NEW b, b = handler[h].bound,
           NEW x, x = Head(handler[h].todo)
    PROVE  /\ x \in Item /\ x \in GoodItem /\ Fits(x, Mate(b)) /\ b \in Made \cup {0}
<1>1. handler[h].todo \in Seq(FitItem(b)) /\ b \in Made \cup {0}  BY DEF Sorted, RowFits
<1>2. handler[h].todo # <<>> /\ x \in GoodItem  BY Stack
<1>3. x \in FitItem(b)  BY <1>1, <1>2
<1> QED  BY <1>1, <1>2, <1>3 DEF FitItem

(* Things to do that say nothing of a task.                                 *)
LEMMA SharesFit == ASSUME NEW x, x.kind \in {"share", "addShare"}, NEW B PROVE Fits(x, B)
BY DEF Fits

LEMMA SortedItems ==
    ASSUME IInv, Turnwise, Placed, Sorted, NEW h \in Handlers,
           FindTask(h) \/ InsertFails(h) \/ GiveOwner(h) \/ GiveDelegates(h) \/ FindShare(h) \/ AddShare(h)
    PROVE  Sorted'
<1>0. UNCHANGED <<task, nextTask, copying, spreading>> /\ handler[h].pc = "create"
  BY DEF FindTask, InsertFails, GiveOwner, GiveDelegates, FindShare, AddShare, Does
<1>01. PICK x, b : x = Head(handler[h].todo) /\ b = handler[h].bound  OBVIOUS
<1>02. x \in Item /\ x \in GoodItem /\ Fits(x, Mate(b)) /\ b \in Made \cup {0}  BY <1>0, <1>01, HeadFits
<1>03. FitItem(b)' = FitItem(b)
  BY <1>0 DEF FitItem, Fits, Mate, IsOpen, UpInto, Root
<1>04. Tree'  BY <1>0 DEF Sorted, Tree, UpInto, Root
<1>05. \A p \in spreading : RunOpen(p)'  BY <1>0 DEF Sorted, RunOpen, IsOpen
<1>06. ASSUME NEW items \in Seq(Item), \A i \in 1 .. Len(items) : Fits(items[i], Mate(b)), Replace(h, items)
       PROVE  Sorted'
  <2>1. \A i \in 1 .. Len(items) : items[i] \in FitItem(b)'  BY <1>03, <1>06 DEF FitItem
  <2>2. \A y \in FitItem(b) : y \in GoodItem => y \in FitItem(b)'  BY <1>03
  <2>3. Made \subseteq Made'  BY <1>0, MadeSame
  <2> QED  BY <1>0, <1>01, <1>04, <1>05, <1>06, <2>1, <2>2, <2>3, SortedStack
<1>07. ASSUME Replace(h, <<>>) PROVE Sorted'
  <2>1. <<>> \in Seq(Item) /\ \A i \in 1 .. Len(<<>>) : Fits(<<>>[i], Mate(b))  OBVIOUS
  <2> QED  BY <1>06, <1>07, <2>1
<1>08. ASSUME NEW y \in Item, Fits(y, Mate(b)), Replace(h, <<y>>) PROVE Sorted'
  <2>1. <<y>> \in Seq(Item) /\ \A i \in 1 .. Len(<<y>>) : <<y>>[i] = y  OBVIOUS
  <2>2. \A i \in 1 .. Len(<<y>>) : Fits(<<y>>[i], Mate(b))  BY <1>08, <2>1
  <2> QED  BY <1>06, <1>08, <2>1, <2>2
<1>1. CASE FindTask(h)
  <2>1. PICK y, items : /\ x.kind = "create" /\ y = [x EXCEPT !.kind = "insert"] /\ y \in Item
                        /\ \/ items = <<>>
                           \/ /\ items = <<y>>
                              /\ ~\E t \in TasksOf(x.request) : task[t].name = x.name /\ task[t].user = x.user
                        /\ Replace(h, items)
    BY <1>1, <1>01, FindTaskEffect
  <2>2. CASE items = <<>>  BY <1>07, <2>1, <2>2
  <2>3. CASE /\ items = <<y>>
             /\ ~\E t \in TasksOf(x.request) : task[t].name = x.name /\ task[t].user = x.user
    <3>1. y.kind = "insert" /\ y.task = x.task /\ y.bound = x.bound /\ y.user = x.user
      BY <1>02, <2>1 DEF Item
    <3>2. ASSUME x.task # 0 PROVE task[x.task].user # x.user
      <4>1. Of(x.task, x.request, x.name)  BY <1>02, <2>1, <3>2 DEF GoodItem
      <4>2. IsOpen(x.task)  BY <1>02, <2>1, <3>2 DEF Fits
      <4>3. x.task \in TasksOf(x.request) /\ task[x.task].name = x.name
        BY <4>1, <4>2 DEF Of, Made, TasksOf, IsOpen, Exists
      <4> QED  BY <2>3, <4>3
    <3>3. Fits(y, Mate(b))  BY <1>02, <2>1, <3>1, <3>2 DEF Fits
    <3> QED  BY <1>08, <2>1, <2>3, <3>3
  <2> QED  BY <2>1, <2>2, <2>3
<1>2. CASE InsertFails(h) \/ AddShare(h)
  <2>1. Replace(h, <<>>)  BY <1>2 DEF InsertFails, AddShare
  <2> QED  BY <1>07, <2>1
<1>3. CASE GiveOwner(h)
  <2>1. PICK y, items :
             /\ x.kind = "owner" /\ y = Create(x.request, x.name, task[b].user, 0, x.task)
             /\ items = <<>> \/ (items = <<y>> /\ b # 0 /\ y \in Item)
             /\ Replace(h, items)
    BY <1>3, <1>01, GiveOwnerEffect
  <2>2. CASE items = <<>>  BY <1>07, <2>1, <2>2
  <2>3. CASE items = <<y>> /\ b # 0 /\ y \in Item
    <3>1. y.kind = "create" /\ y.bound = 0 /\ y.task = x.task /\ y.user = Mate(b)
      BY <2>1, <2>3 DEF Create, Mate
    <3>2. IsOpen(x.task) /\ (task[x.task].user = Mate(b) \/ ~UpInto(x.task))  BY <1>02, <2>1 DEF Fits
    <3>3. Fits(y, Mate(b))  BY <3>1, <3>2 DEF Fits
    <3> QED  BY <1>08, <2>1, <2>3, <3>3
  <2> QED  BY <2>1, <2>2, <2>3
<1>4. CASE GiveDelegates(h)
  <2>1. PICK items : /\ x.kind = "delegates" /\ items \in Seq(Item) /\ Replace(h, items)
                     /\ \A i \in 1 .. Len(items) : FromDelegation(x, items[i])
    BY <1>4, <1>01, GiveDelegatesEffect
  <2>2. IsOpen(x.task)  BY <1>02, <2>1 DEF Fits
  <2>3. ASSUME NEW i \in 1 .. Len(items) PROVE Fits(items[i], Mate(b))
    <3>1. PICK y, d : /\ y = items[i]
                      /\ \/ y = Create(x.request, x.name, delegation[d].to, x.task, 0)
                         \/ y = [x EXCEPT !.kind = "share", !.delegation = d]
      BY <2>1 DEF FromDelegation
    <3>2. CASE y = Create(x.request, x.name, delegation[d].to, x.task, 0)
      <4>1. y.kind = "create" /\ y.bound = x.task /\ y.task = 0  BY <3>2 DEF Create
      <4> QED  BY <2>2, <3>1, <4>1 DEF Fits
    <3>3. CASE y = [x EXCEPT !.kind = "share", !.delegation = d]
      <4>1. y.kind = "share"  BY <1>02, <3>3 DEF Item
      <4> QED  BY <3>1, <4>1, SharesFit
    <3> QED  BY <3>1, <3>2, <3>3
  <2> QED  BY <1>06, <2>1, <2>3
<1>5. CASE FindShare(h)
  <2>1. PICK y : y = [x EXCEPT !.kind = "addShare"]  OBVIOUS
  <2>2. y \in Item /\ y.kind = "addShare"  BY <1>02, <2>1 DEF Item
  <2>3. Replace(h, <<>>) \/ Replace(h, <<y>>)  BY <1>5, <1>01, <2>1 DEF FindShare
  <2> QED  BY <1>07, <1>08, <2>2, <2>3, SharesFit
<1> QED  BY <1>1, <1>2, <1>3, <1>4, <1>5

(* A new row, to which nothing is bound yet.                                *)
LEMMA NewRow ==
    ASSUME IInv, NEW n \in TaskIds, n \notin Made, NEW row,
           \A t \in TaskIds : task'[t] = IF t = n THEN row ELSE task[t],
           row.bound = 0 \/ row.bound \in Made, n = nextTask, UNCHANGED spreading, Tree
    PROVE  /\ \A z \in TaskIds : UpInto(z)' => UpInto(z)
           /\ ~UpInto(n)' /\ Tree'
<1>1. \A t \in TaskIds : task[t].bound = 0 \/ task[t].bound \in Made
  <2>1. \A t \in Made : task[t].bound = 0 \/ task[t].bound \in Made  BY DEF IInv, RowsGood, Free, Kin
  <2>2. \A t \in TaskIds \ Made : task[t].bound = 0  BY DEF IInv, RowsGood, NoTask
  <2> QED  BY <2>1, <2>2
<1>2. \A o \in Made : o < n /\ o \in TaskIds  BY DEF Made
<1>3. n # 0 /\ n \in Int  BY Sizes
<1>4. \A g \in spreading : g.task \in Made /\ \A t \in g.rows : t \in Made
  BY DEF IInv, RunsGood, GoodSpread, Kin, Of
<1>5. ASSUME NEW z \in TaskIds, UpInto(z)' PROVE UpInto(z) /\ z # n
  <2>1. CASE \E t \in TaskIds : t < z /\ task'[t].bound = z
    <3>1. PICK t \in TaskIds : t < z /\ task'[t].bound = z  BY <2>1
    <3>2. z # 0 /\ z \in Int  BY Sizes
    <3>3. CASE t = n
      <4>1. row.bound = z  BY <3>1, <3>3
      <4>2. z < n  BY <1>2, <3>2, <4>1
      <4> QED  BY <1>3, <3>1, <3>2, <3>3, <4>2
    <3>4. CASE t # n
      <4>1. task[t].bound = z  BY <3>1, <3>4
      <4>2. z \in Made  BY <1>1, <3>2, <4>1
      <4> QED  BY <3>1, <4>1, <4>2 DEF UpInto
    <3> QED  BY <3>3, <3>4
  <2>2. CASE \E g \in spreading : g.task = z /\ \E t \in g.rows : t < z
    BY <1>4, <2>2 DEF UpInto
  <2> QED  BY <1>5, <2>1, <2>2 DEF UpInto
<1>6. ASSUME NEW z \in TaskIds, UpInto(z)' PROVE Root(z)'
  <2>1. UpInto(z) /\ z # n  BY <1>5, <1>6
  <2>2. task'[z] = task[z]  BY <2>1
  <2> QED  BY <2>1, <2>2 DEF Tree, Root
<1>7. ASSUME NEW p \in spreading', NEW z \in p.rows, z # p.task PROVE ~UpInto(z)'
  BY <1>2, <1>4, <1>5, <1>7 DEF Tree
<1>8. ~UpInto(n)'  BY <1>5
<1> QED  BY <1>5, <1>6, <1>7, <1>8 DEF Tree

(* What fits goes on to fit when a row is added.                            *)
LEMMA FitMore ==
    ASSUME IInv, NEW n \in TaskIds, n \notin Made, \A t \in TaskIds : t # n => task'[t] = task[t],
           \A z \in TaskIds : UpInto(z)' => UpInto(z),
           NEW b \in Made \cup {0}, NEW y \in FitItem(b), y \in GoodItem
    PROVE  y \in FitItem(b)' /\ Mate(b)' = Mate(b)
<1>1. \A t \in Made : t \in TaskIds /\ t # n /\ task'[t] = task[t]  BY DEF Made
<1>2. Mate(b)' = Mate(b)  BY <1>1 DEF Mate
<1>3. y \in Item /\ Fits(y, Mate(b))  BY DEF FitItem
<1>4. PICK B : B = Mate(b)  OBVIOUS
<1>5. /\ y.kind \in {"create", "insert"} => /\ y.bound = 0 \/ y.bound \in Made
                                            /\ y.task = 0 \/ y.task \in Made
      /\ y.kind \in {"owner", "delegates", "rebind"} => y.task \in Made
      /\ y.kind = "rebind" => y.bound \in Made
  BY DEF GoodItem, Of
<1>6. Fits(y, B)'  BY <1>1, <1>3, <1>4, <1>5 DEF Fits, IsOpen, Root
<1> QED  BY <1>2, <1>3, <1>4, <1>6 DEF FitItem

LEMMA RunsMore ==
    ASSUME IInv, Sorted, NEW n \in TaskIds, n \notin Made,
           \A t \in TaskIds : t # n => task'[t] = task[t], NEW p \in spreading
    PROVE  RunOpen(p)'
<1>1. /\ \A t \in p.rows : t \in Made
      /\ p.pc = "upWrite" => p.bound \in Made
  BY DEF IInv, RunsGood, GoodSpread, Free, Kin, Of
<1>2. \A t \in Made : task'[t] = task[t]  BY DEF Made
<1> QED  BY <1>1, <1>2 DEF Sorted, RunOpen, IsOpen

LEMMA SortedInsert ==
    ASSUME IInv, Turnwise, Placed, Sorted, NEW h \in Handlers, InsertTask(h)
    PROVE  Sorted'
<1>1. PICK x, n, row, y, z, w, items :
              /\ x = Head(handler[h].todo) /\ x \in Item /\ x.kind = "insert"
              /\ handler[h].pc = "create"
              /\ n \in TaskIds /\ ~Exists(n) /\ n \notin Made
              /\ row = [state |-> "open", request |-> x.request, name |-> x.name,
                        user |-> x.user, bound |-> x.bound, entity |-> Entity[x.name]]
              /\ \A t \in TaskIds : task'[t] = IF t = n THEN row ELSE task[t]
              /\ y = [x EXCEPT !.kind = "owner", !.task = n] /\ y \in Item
              /\ z = [x EXCEPT !.kind = "delegates", !.task = n] /\ z \in Item
              /\ w = [x EXCEPT !.kind = "rebind", !.bound = n] /\ w \in Item
              /\ (x.task = 0 /\ items = <<y, z>>) \/ (x.task # 0 /\ items = <<y, z>> \o <<w>>)
              /\ items \in Seq(Item) /\ Replace(h, items)
  BY InsertEffect
<1>2. PICK b : b = handler[h].bound  OBVIOUS
<1>3. x \in GoodItem /\ Fits(x, Mate(b)) /\ b \in Made \cup {0}  BY <1>1, <1>2, HeadFits
<1>4. UNCHANGED <<copying, spreading>>  BY DEF InsertTask
<1>5. n = nextTask /\ Made \subseteq Made'
  <2>1. task'[n].state # "none"  BY <1>1
  <2>2. n = nextTask /\ nextTask' = nextTask + 1  BY <1>1, <2>1, NextIs, SMTT(30)
  <2> QED  BY <2>2, TaskTable DEF Made
<1>6. row.bound = 0 \/ row.bound \in Made  BY <1>1, <1>3 DEF GoodItem, Of
<1>7. Tree  BY DEF Sorted
<1>8. /\ \A t \in TaskIds : UpInto(t)' => UpInto(t)
      /\ ~UpInto(n)' /\ Tree'
  BY <1>1, <1>4, <1>5, <1>6, <1>7, NewRow
<1>9. \A t \in TaskIds : t # n => task'[t] = task[t]  BY <1>1
<1>10. \A p \in spreading : RunOpen(p)'  BY <1>1, <1>9, RunsMore
<1>11. \A v \in FitItem(b) : v \in GoodItem => v \in FitItem(b)'
  BY <1>1, <1>3, <1>8, <1>9, FitMore
<1>12. PICK B : B = Mate(b)  OBVIOUS
<1>13. Mate(b)' = B
  <2>1. b # 0 => b # n /\ b \in TaskIds  BY <1>1, <1>3 DEF Made
  <2> QED  BY <1>9, <1>12, <2>1 DEF Mate
<1>14. IsOpen(n)' /\ task'[n].user = x.user /\ task'[n].bound = x.bound  BY <1>1 DEF IsOpen
<1>15. y.kind = "owner" /\ y.task = n
  <2>1. /\ x \in Item /\ y = [x EXCEPT !.kind = "owner", !.task = n]
        /\ z = [x EXCEPT !.kind = "delegates", !.task = n]
        /\ w = [x EXCEPT !.kind = "rebind", !.bound = n]
    BY <1>1
  <2> QED  BY <2>1 DEF Item
<1>16. z.kind = "delegates" /\ z.task = n
  <2>1. /\ x \in Item /\ y = [x EXCEPT !.kind = "owner", !.task = n]
        /\ z = [x EXCEPT !.kind = "delegates", !.task = n]
        /\ w = [x EXCEPT !.kind = "rebind", !.bound = n]
    BY <1>1
  <2> QED  BY <2>1 DEF Item
<1>17. w.kind = "rebind" /\ w.bound = n /\ w.task = x.task
  <2>1. /\ x \in Item /\ y = [x EXCEPT !.kind = "owner", !.task = n]
        /\ z = [x EXCEPT !.kind = "delegates", !.task = n]
        /\ w = [x EXCEPT !.kind = "rebind", !.bound = n]
    BY <1>1
  <2> QED  BY <2>1 DEF Item
<1>18. Fits(y, B)'  BY <1>8, <1>14, <1>15 DEF Fits
<1>19. Fits(z, B)'  BY <1>14, <1>16 DEF Fits
<1>20. ASSUME x.task # 0 PROVE Fits(w, B)'
  <2>1. /\ IsOpen(x.task) /\ x.bound = 0 /\ x.user = B /\ ~UpInto(x.task) /\ task[x.task].user # B
    <3>1. Fits(x, B) /\ x.kind = "insert"  BY <1>1, <1>3, <1>12
    <3> QED  BY <1>20, <3>1 DEF Fits
  <2>2. x.task \in Made  BY <1>1, <1>3, <1>20 DEF GoodItem, Of
  <2>3. x.task \in TaskIds /\ x.task # n  BY <1>1, <2>2 DEF Made
  <2>4. IsOpen(x.task)' /\ ~UpInto(x.task)' /\ task'[x.task].user # B
    BY <1>8, <1>9, <2>1, <2>3 DEF IsOpen
  <2>5. Root(n)'  BY <1>14, <2>1 DEF Root
  <2> QED  BY <1>14, <1>17, <2>1, <2>4, <2>5, SMTT(30) DEF Fits
<1>21. y \in FitItem(b)' /\ z \in FitItem(b)' /\ (x.task # 0 => w \in FitItem(b)')
  BY <1>1, <1>13, <1>18, <1>19, <1>20 DEF FitItem
<1>22. PICK S : S = FitItem(b)'  OBVIOUS
<1>23. \A i \in 1 .. Len(items) : items[i] \in S
  <2>1. CASE x.task = 0
    <3>1. items = <<y, z>> /\ y \in S /\ z \in S  BY <1>1, <1>21, <1>22, <2>1
    <3> QED  BY <3>1
  <2>2. CASE x.task # 0
    <3>1. y \in S /\ z \in S /\ w \in S  BY <1>21, <1>22, <2>2
    <3>2. items = <<y, z>> \o <<w>>  BY <1>1, <2>2
    <3> QED  BY <3>1, <3>2, TwoOrThree
  <2> QED  BY <2>1, <2>2
<1>24. \A i \in 1 .. Len(items) : items[i] \in FitItem(b)'  BY <1>22, <1>23
<1>25. items \in Seq(Item) /\ Replace(h, items) /\ handler[h].pc = "create"  BY <1>1
<1>26. Tree'  BY <1>8
<1> QED  BY <1>2, <1>4, <1>5, <1>10, <1>11, <1>24, <1>25, <1>26, SortedStack

(* A delegate's new task is bound to the one of the owner, once: nothing is *)
(* bound to it.                                                             *)
LEMMA SortedRebind ==
    ASSUME IInv, Turnwise, Placed, Sorted, NEW h \in Handlers, Rebind(h)
    PROVE  Sorted'
<1>1. PICK x, b : x = Head(handler[h].todo) /\ b = handler[h].bound  OBVIOUS
<1>2. handler[h].pc = "create" /\ x.kind = "rebind" /\ Replace(h, <<>>)  BY <1>1 DEF Rebind, Does
<1>3. x \in GoodItem /\ Fits(x, Mate(b)) /\ b \in Made \cup {0}  BY <1>1, <1>2, HeadFits
<1>30. PICK V \in SUBSET Made : Aside(V) /\ x \in NewStep(V)  BY <1>1, <1>2, HeadPlaced
<1>4. PICK z, w, B : z = x.task /\ w = x.bound /\ B = Mate(b)  OBVIOUS
<1>5. /\ IsOpen(z) /\ IsOpen(w) /\ Root(w) /\ task[w].user = B
      /\ task[z].user # B /\ ~UpInto(z)
  BY <1>2, <1>3, <1>4 DEF Fits
<1>6. Of(z, x.request, x.name) /\ Of(w, x.request, x.name)  BY <1>2, <1>3, <1>4 DEF GoodItem
<1>7. z \in TaskIds /\ w \in TaskIds /\ z # w  BY <1>5, <1>6 DEF Of, Made
<1>8. task' = [task EXCEPT ![z].bound = w]  BY <1>1, <1>4, <1>5 DEF Rebind, Exists, IsOpen
<1>9. /\ \A t \in TaskIds : task'[t].state = task[t].state /\ task'[t].user = task[t].user
      /\ \A t \in TaskIds : t # z => task'[t] = task[t]
      /\ task'[z].bound = w
  BY <1>7, <1>8, TaskTable, TaskRows DEF TaskRow
<1>10. UNCHANGED <<nextTask, copying, spreading>>  BY DEF Rebind
<1>11. ASSUME NEW v \in TaskIds, UpInto(v)' PROVE UpInto(v) \/ v = w
  <2>1. CASE \E t \in TaskIds : t < v /\ task'[t].bound = v  BY <1>9, <2>1 DEF UpInto
  <2>2. CASE \E g \in spreading : g.task = v /\ \E t \in g.rows : t < v  BY <2>2 DEF UpInto
  <2> QED  BY <1>10, <1>11, <2>1, <2>2 DEF UpInto
<1>12. Tree'
  <2>1. ASSUME NEW v \in TaskIds, UpInto(v)' PROVE Root(v)'
    <3>1. v # z  BY <1>5, <1>7, <1>11, <2>1
    <3>2. Root(v)  BY <1>5, <1>11, <2>1 DEF Sorted, Tree
    <3> QED  BY <1>9, <3>1, <3>2 DEF Root
  <2>2. ASSUME NEW p \in spreading', NEW v \in p.rows, v # p.task PROVE ~UpInto(v)'
    <3>1. p \in spreading /\ Kin(v, p.task)  BY <1>10 DEF IInv, RunsGood, GoodSpread
    <3>2. ~UpInto(v) /\ v \in TaskIds  BY <2>2, <3>1 DEF Sorted, Tree, Kin, Of, Made
    <3>3. v \in V  BY <1>30, <2>2, <3>1 DEF Aside, Stays
    <3>4. v # w  BY <1>4, <1>30, <3>3 DEF NewStep
    <3> QED  BY <1>11, <3>2, <3>4
  <2> QED  BY <2>1, <2>2 DEF Tree
<1>13. \A t \in TaskIds : IsOpen(t)' <=> IsOpen(t)  BY <1>9 DEF IsOpen
<1>14. ASSUME NEW p \in spreading PROVE RunOpen(p)'
  <2>1. RunOpen(p)  BY DEF Sorted
  <2>2. /\ p.pc = "upWrite" => p.bound \in TaskIds
        /\ \A t \in p.rows : t \in TaskIds
    BY DEF IInv, RunsGood, GoodSpread, Free, Kin, Of, Made
  <2> QED  BY <1>13, <2>1, <2>2 DEF RunOpen
<1>15. Mate(b)' = B
  <2>1. b # 0 => b \in TaskIds  BY <1>3 DEF Made
  <2> QED  BY <1>4, <1>9, <2>1 DEF Mate
<1>16. ASSUME NEW y \in FitItem(b), y \in GoodItem PROVE y \in FitItem(b)'
  <2>1. y \in Item /\ Fits(y, B)  BY <1>4, <1>16 DEF FitItem
  <2>2. /\ y.kind \in {"create", "insert"} => /\ y.bound = 0 \/ y.bound \in TaskIds
                                              /\ y.task = 0 \/ y.task \in TaskIds
        /\ y.kind \in {"owner", "delegates", "rebind"} => y.task \in TaskIds
        /\ y.kind = "rebind" => y.bound \in TaskIds
    BY <1>16 DEF GoodItem, Of, Made
  <2>3. ASSUME y.kind \in {"create", "insert"}, y.task # 0
        PROVE  /\ IsOpen(y.task)' /\ y.bound = 0 /\ y.user = B
               /\ ~UpInto(y.task)' \/ (y.kind = "create" /\ task'[y.task].user = B)
               /\ y.kind = "insert" => task'[y.task].user # B
    BY <1>5, <1>9, <1>11, <1>13, <2>1, <2>2, <2>3 DEF Fits
  <2>4. ASSUME y.kind = "owner" PROVE task'[y.task].user = B \/ ~UpInto(y.task)'
    BY <1>5, <1>9, <1>11, <2>1, <2>2, <2>4 DEF Fits
  <2>5. ASSUME y.kind = "rebind"
        PROVE  /\ IsOpen(y.bound)' /\ Root(y.bound)' /\ task'[y.bound].user = B
               /\ task'[y.task].user # B /\ ~UpInto(y.task)'
    <3>1. y.bound # z /\ y.task # w  BY <1>5, <2>1, <2>5 DEF Fits
    <3> QED  BY <1>9, <1>11, <1>13, <2>1, <2>2, <2>5, <3>1 DEF Fits, Root
  <2>6. /\ y.kind \in {"create", "insert"} /\ y.bound # 0 => IsOpen(y.bound)'
        /\ y.kind \in {"owner", "delegates", "rebind"} => IsOpen(y.task)'
    BY <1>13, <2>1, <2>2 DEF Fits
  <2>7. Fits(y, B)'  BY <2>3, <2>4, <2>5, <2>6 DEF Fits
  <2> QED  BY <1>15, <2>1, <2>7 DEF FitItem
<1>17. Made \subseteq Made'  BY <1>10, MadeSame
<1>18. <<>> \in Seq(Item) /\ \A i \in 1 .. Len(<<>>) : <<>>[i] \in FitItem(b)'  OBVIOUS
<1> QED  BY <1>1, <1>2, <1>10, <1>12, <1>14, <1>16, <1>17, <1>18, SortedStack

LEMMA SortedPlain ==
    ASSUME IInv, Turnwise, Placed, Sorted, NEW h \in Handlers, Plain(h)
    PROVE  Sorted'
<1>1. /\ \A g \in Handlers : g # h => handler'[g] = handler[g]
      /\ handler[h].pc \in {"update", "reread", "read", "others"}
      /\ UNCHANGED <<delegation, share, nextTask, copying>>
  BY PlainEffect
<1>2. copying' = {} /\ \A g \in Handlers : g # h => handler[g].pc = "idle"
  BY <1>1 DEF Turnwise, Busy
<1>3. handler[h] \in HandlerRow /\ handler[h] \in GoodHandler  BY TaskRows DEF IInv, CallsGood
<1>4. RowPlaced(handler[h]) /\ RowShut(handler[h]) /\ Tree  BY DEF Placed, Sorted
<1>5. PICK t, b : t = handler[h].task /\ b = handler[h].bound  OBVIOUS
<1>6. t \in Made /\ t \in TaskIds  BY <1>1, <1>3, <1>5 DEF GoodHandler, Made
<1>7. ASSUME NEW m, handler' = [handler EXCEPT ![h] = m], RowShut(m)', RowFits(m)', UNCHANGED <<task, spreading>>
      PROVE  Sorted'
  BY <1>1, <1>2, <1>7, SortedSame
<1>8. CASE UpdateTask(h)
  <2>1. PICK m : m = [handler[h] EXCEPT !.pc = "reread"]  OBVIOUS
  <2>2. handler' = [handler EXCEPT ![h] = m] /\ UNCHANGED spreading /\ handler[h].pc = "update"
    BY <1>8, <2>1 DEF UpdateTask
  <2>3. m.pc = "reread" /\ m.task = t  BY <1>3, <1>5, <2>1 DEF HandlerRow
  <2>4. spreading = {}  BY <1>4, <2>2 DEF RowPlaced, Silent
  <2>5. task' = IF Exists(t) THEN [task EXCEPT ![t].state = "closed"] ELSE task
    BY <1>5, <1>8 DEF UpdateTask
  <2>6. \A v \in TaskIds : task'[v].bound = task[v].bound  BY <2>5, TaskTable, TaskRows DEF TaskRow
  <2>7. Tree'  BY <1>4, <2>2, <2>4, <2>6 DEF Tree, UpInto, Root
  <2>8. IsClosed(t)' \/ ~Exists(t)'
    BY <1>6, <2>5, TaskTable, TaskRows DEF TaskRow, IsClosed, Exists
  <2>9. RowShut(m)' /\ RowFits(m)'  BY <2>3, <2>8 DEF RowShut, RowFits, Works
  <2> QED  BY <1>2, <2>2, <2>4, <2>7, <2>9, SortedRow
<1>9. CASE RereadTask(h)
  <2>0. PICK o : o = task[t].bound  OBVIOUS
  <2>1. PICK w : w = [handler[h] EXCEPT !.pc = "read", !.bound = o]  OBVIOUS
  <2>2. handler' = [handler EXCEPT ![h] = IF IsOpen(t) \/ ~Exists(t) THEN Idle ELSE w]
    BY <1>5, <1>9, <2>0, <2>1 DEF RereadTask
  <2>3. UNCHANGED <<task, spreading>>  BY <1>9 DEF RereadTask
  <2>4. CASE IsOpen(t) \/ ~Exists(t)
    <3>1. PICK m : m = Idle  OBVIOUS
    <3>2. RowShut(m)' /\ RowFits(m)'  BY <3>1, RowOther DEF Idle
    <3> QED  BY <1>7, <2>2, <2>3, <2>4, <3>1, <3>2
  <2>5. CASE ~(IsOpen(t) \/ ~Exists(t))
    <3>1. w.pc = "read" /\ w.task = t /\ w.bound = o  BY <1>3, <1>5, <2>1 DEF HandlerRow
    <3>2. IsClosed(t)  BY <1>6, <2>5, TaskRows DEF IsOpen, Exists, IsClosed, TaskRow
    <3>3. RowShut(w)' /\ RowFits(w)'
      BY <2>0, <2>3, <3>1, <3>2 DEF RowShut, RowFits, Works, IsClosed
    <3> QED  BY <1>7, <2>2, <2>3, <2>5, <3>3
  <2> QED  BY <2>4, <2>5
<1>10. CASE ReadRequest(h)
  <2>1. PICK a, d : /\ a = place[task[t].request]
                    /\ d = (request[task[t].request].state = "ended")
    OBVIOUS
  <2>2. PICK m : m = [handler[h] EXCEPT !.pc = "spread", !.at = a, !.ended = d]  OBVIOUS
  <2>3. handler' = [handler EXCEPT ![h] = m]
    BY <1>5, <1>10, <2>1, <2>2 DEF ReadRequest, IInv, TypeOK
  <2>4. m.pc = "spread" /\ m.task = t /\ m.bound = b  BY <1>3, <1>5, <2>2 DEF HandlerRow
  <2>5. spreading = {}  BY <1>4, <1>10 DEF ReadRequest, RowPlaced, Silent
  <2>6. PICK q : q = Run(t, b, TRUE, h)  OBVIOUS
  <2>7. spreading' = {q} /\ UNCHANGED task  BY <1>5, <1>10, <2>5, <2>6 DEF ReadRequest
  <2>8. /\ q.task = t /\ q.bound = b /\ q.closes = TRUE /\ q.by = h /\ q.pc = "up" /\ q.rows = {}
    BY <2>6 DEF Run
  <2>9. Tree'  BY <1>4, <2>5, <2>7, <2>8 DEF Tree, UpInto, Root
  <2>10. h # NoHandler  BY StepAssumption
  <2>11. RunOpen(q)'  BY <2>8, <2>10 DEF RunOpen
  <2>12. handler'[h] = m  BY <2>3 DEF IInv, TypeOK
  <2>13. OwnRun(q)'  BY <2>4, <2>7, <2>8, <2>12 DEF OwnRun
  <2>14. Apart(q)'
    <3>1. Away({}, t)'  BY <2>7, <2>8 DEF Away
    <3> QED  BY <2>8, <3>1 DEF Apart
  <2>15. RowShut(m)' /\ RowFits(m)'
    BY <1>4, <1>5, <1>10, <2>4, <2>7 DEF RowShut, RowFits, Works, IsClosed, ReadRequest
  <2> QED  BY <1>2, <2>3, <2>7, <2>9, <2>11, <2>13, <2>14, <2>15, SortedRow
<1>11. CASE CheckOthers(h)
  <2>1. PICK w : w = [handler[h] EXCEPT !.pc = "advance"]  OBVIOUS
  <2>2. PICK m \in {Idle, w} : handler' = [handler EXCEPT ![h] = m]
    BY <1>11, <2>1 DEF CheckOthers
  <2>3. UNCHANGED <<task, spreading>> /\ handler[h].pc = "others"  BY <1>11 DEF CheckOthers
  <2>4. w.pc = "advance" /\ w.task = t /\ w.bound = b  BY <1>3, <1>5, <2>1 DEF HandlerRow
  <2>5. RowShut(w)' /\ RowFits(w)'
    BY <1>4, <1>5, <2>3, <2>4 DEF RowShut, RowFits, Works, IsClosed
  <2>6. PICK i : i = Idle  OBVIOUS
  <2>7. RowShut(i)' /\ RowFits(i)'  BY <2>6, RowOther DEF Idle
  <2>8. RowShut(m)' /\ RowFits(m)'  BY <2>2, <2>5, <2>6, <2>7
  <2> QED  BY <1>7, <2>2, <2>3, <2>8
<1> QED  BY <1>8, <1>9, <1>10, <1>11 DEF Plain

(* The first things to do of a place are bound to nothing.                  *)
LEMMA FirstFit ==
    ASSUME NEW items \in Seq(Item), NEW r, NEW S, NEW b,
           \A i \in 1 .. Len(items) : \E a \in S : items[i] = Create(r, a, Assignee[a], 0, 0)
    PROVE  items \in Seq(FitItem(b)')
<1>1. PICK R : R = FitItem(b)'  OBVIOUS
<1>2. ASSUME NEW i \in 1 .. Len(items) PROVE items[i] \in R
  <2>1. PICK a \in S : items[i] = Create(r, a, Assignee[a], 0, 0)  OBVIOUS
  <2>2. PICK y : y = items[i]  OBVIOUS
  <2>3. y \in Item  BY <2>2
  <2>4. y.kind = "create" /\ y.bound = 0 /\ y.task = 0  BY <2>1, <2>2 DEF Create
  <2>5. y \in FitItem(b)'  BY <2>3, <2>4 DEF FitItem, Fits
  <2> QED  BY <1>1, <2>2, <2>5
<1>3. items \in Seq(R)  BY <1>2
<1> QED  BY <1>1, <1>3

LEMMA SortedAdvance ==
    ASSUME IInv, Turnwise, Placed, Sorted, ~UpdatesMayFail, NEW h \in Handlers, AdvanceRequest(h)
    PROVE  Sorted'
<1>1. PICK m, items, r :
              /\ handler' = [handler EXCEPT ![h] = m] /\ handler[h].pc = "advance"
              /\ items \in Seq(Item) /\ r \in RequestIds
              /\ \A i \in 1 .. Len(items) : \E a \in Names : items[i] = Create(r, a, Assignee[a], 0, 0)
              /\ m = Idle \/ (m.pc = "create" /\ m.todo = items /\ items # <<>>
                              /\ m.bound = handler[h].bound)
  BY AdvanceEffect
<1>2. UNCHANGED <<task, nextTask, copying, spreading>>  BY DEF AdvanceRequest
<1>3. copying' = {} /\ \A g \in Handlers : g # h => handler[g].pc = "idle"
  BY <1>1, <1>2 DEF Turnwise, Busy
<1>4. handler[h].task \in Made  BY <1>1 DEF IInv, CallsGood, GoodHandler
<1>5. handler[h].bound \in Made \cup {0}
  <2>1. handler[h].bound = task[handler[h].task].bound  BY <1>1 DEF Sorted, RowShut, Works
  <2>2. Free(handler[h].task, task[handler[h].task].bound)  BY <1>4 DEF IInv, RowsGood
  <2> QED  BY <2>1, <2>2 DEF Free, Kin
<1>6. RowShut(m)' /\ RowFits(m)'
  <2>1. CASE m = Idle
    <3>1. PICK i : i = Idle  OBVIOUS
    <3>2. RowShut(i)' /\ RowFits(i)'  BY <3>1, RowOther DEF Idle
    <3> QED  BY <2>1, <3>1, <3>2
  <2>2. CASE m.pc = "create" /\ m.todo = items /\ m.bound = handler[h].bound
    <3>1. PICK b : b = m.bound  OBVIOUS
    <3>2. items \in Seq(FitItem(b)')  BY <1>1, FirstFit
    <3>3. Made' = Made  BY <1>2, MadeSame
    <3>4. RowFits(m)'  BY <1>5, <2>2, <3>1, <3>2, <3>3 DEF RowFits
    <3> QED  BY <2>2, <3>4 DEF RowShut, Works
  <2> QED  BY <1>1, <2>1, <2>2
<1> QED  BY <1>1, <1>2, <1>3, <1>6, SortedSame

LEMMA SortedOpen ==
    ASSUME IInv, Turnwise, Placed, Sorted, NEW h \in Handlers, NEW u \in Users, NEW r \in RequestIds,
           OpenRequest(h, u, r), AtRest
    PROVE  Sorted'
<1>1. PICK m, items :
              /\ handler' = [handler EXCEPT ![h] = m] /\ handler[h].pc = "idle"
              /\ items \in Seq(Item)
              /\ \A i \in 1 .. Len(items) : \E a \in Names : items[i] = Create(r, a, Assignee[a], 0, 0)
              /\ m = Idle \/ (m.pc = "create" /\ m.todo = items /\ items # <<>> /\ m.bound = 0)
  BY OpenEffect
<1>2. UNCHANGED <<task, nextTask, copying, spreading>>  BY DEF OpenRequest
<1>3. copying' = {} /\ \A g \in Handlers : g # h => handler[g].pc = "idle"
  BY <1>2 DEF AtRest
<1>6. RowShut(m)' /\ RowFits(m)'
  <2>1. CASE m = Idle
    <3>1. PICK i : i = Idle  OBVIOUS
    <3>2. RowShut(i)' /\ RowFits(i)'  BY <3>1, RowOther DEF Idle
    <3> QED  BY <2>1, <3>1, <3>2
  <2>2. CASE m.pc = "create" /\ m.todo = items /\ m.bound = 0
    <3>1. PICK b : b = m.bound  OBVIOUS
    <3>2. items \in Seq(FitItem(b)')  BY <1>1, FirstFit
    <3>4. RowFits(m)'  BY <2>2, <3>1, <3>2 DEF RowFits
    <3> QED  BY <2>2, <3>4 DEF RowShut, Works
  <2> QED  BY <1>1, <2>1, <2>2
<1> QED  BY <1>1, <1>2, <1>3, <1>6, SortedSame

(* Trigger starts a goroutine for each open task; what is withdrawn keeps   *)
(* its binding.                                                             *)
LEMMA SortedAnswer ==
    ASSUME IInv, Turnwise, Placed, Sorted, NEW h \in Handlers, Trigger(h) \/ WithdrawCopies(h)
    PROVE  Sorted'
<1>1. PICK m : m = Idle  OBVIOUS
<1>2. /\ handler' = [handler EXCEPT ![h] = m] /\ handler[h].pc \in {"trigger", "withdraw"}
      /\ UNCHANGED spreading
  BY <1>1 DEF Trigger, WithdrawCopies
<1>3. copying = {} /\ \A g \in Handlers : g # h => handler[g].pc = "idle"
  BY <1>2 DEF Turnwise, Busy
<1>4. spreading = {}
  <2>1. RowPlaced(handler[h])  BY DEF Placed
  <2> QED  BY <1>2, <2>1 DEF RowPlaced, Silent
<1>5. RowShut(m)' /\ RowFits(m)'  BY <1>1, RowOther DEF Idle
<1>6. \A t \in TaskIds : task'[t].bound = task[t].bound
  <2>1. CASE Trigger(h)  BY <2>1 DEF Trigger
  <2>2. CASE WithdrawCopies(h)
    <3>1. \A t \in TaskIds : task'[t] = task[t] \/ task'[t] = [task[t] EXCEPT !.state = "none"]
      BY <2>2 DEF WithdrawCopies
    <3> QED  BY <3>1, TaskRows DEF TaskRow
  <2> QED  BY <2>1, <2>2
<1>7. Tree'  BY <1>2, <1>4, <1>6 DEF Sorted, Tree, UpInto, Root
<1>8. \A c \in copying' : IsOpen(c.task)'
  BY <1>3 DEF Trigger, WithdrawCopies, IsOpen
<1> QED  BY <1>2, <1>3, <1>4, <1>5, <1>7, <1>8, SortedRow

LEMMA SortedCopy ==
    ASSUME IInv, Turnwise, Placed, Sorted, CopyStep
    PROVE  Sorted'
<1>1. /\ spreading = {} /\ UNCHANGED <<place, request, handler, spreading>>
      /\ \A g \in Handlers : handler[g].pc = "idle"
  BY CopyRest
<1>2. \A g \in Handlers : RowShut(handler[g])' /\ RowFits(handler[g])'
  <2> SUFFICES ASSUME NEW g \in Handlers PROVE RowShut(handler[g])' /\ RowFits(handler[g])'  OBVIOUS
  <2>1. PICK m : m = handler[g]  OBVIOUS
  <2>2. m.pc = "idle" /\ handler'[g] = m  BY <1>1, <2>1
  <2>3. RowShut(m)' /\ RowFits(m)'  BY <2>2, RowOther
  <2> QED  BY <2>2, <2>3
<1>3. ASSUME NEW e \in copying' PROVE \E c \in copying : c.task = e.task
  <2>1. PICK c \in copying : FindCopyShare(c) \/ AddCopyShare(c) \/ FindCopy(c) \/ AddCopy(c)
    BY DEF CopyStep
  <2>2. e \in copying \/ \E pc : e = [c EXCEPT !.pc = pc]
    BY <1>3, <2>1 DEF FindCopyShare, AddCopyShare, FindCopy, AddCopy, Goes
  <2>3. c \in Copy  BY DEF IInv, TypeOK
  <2> QED  BY <2>2, <2>3 DEF Copy
<1>4. Tree  BY DEF Sorted
<1>5. CASE UNCHANGED <<task, nextTask>>
  <2>1. Tree'  BY <1>1, <1>4, <1>5 DEF Tree, UpInto, Root
  <2>2. \A c \in copying' : IsOpen(c.task)'  BY <1>3, <1>5 DEF Sorted, IsOpen
  <2> QED  BY <1>1, <1>2, <2>1, <2>2 DEF Sorted
<1>6. ASSUME NEW c \in copying, NEW n \in TaskIds,
             n = nextTask, n \notin Made, c.task \in Made,
             \A t \in TaskIds : t # n => task'[t] = task[t], task'[n].bound = c.task
      PROVE  Sorted'
  <2>1. PICK row : row = task'[n]  OBVIOUS
  <2>2. \A t \in TaskIds : task'[t] = IF t = n THEN row ELSE task[t]  BY <1>6, <2>1
  <2>3. Tree'  BY <1>1, <1>4, <1>6, <2>1, <2>2, NewRow
  <2>4. ASSUME NEW e \in copying' PROVE IsOpen(e.task)'
    <3>1. PICK f \in copying : f.task = e.task  BY <1>3
    <3>2. f.task \in Made /\ IsOpen(f.task)  BY DEF IInv, RunsGood, GoodCopy, Sorted
    <3>3. e.task \in TaskIds /\ e.task # n  BY <1>6, <3>1, <3>2 DEF Made
    <3> QED  BY <1>6, <3>1, <3>2, <3>3 DEF IsOpen
  <2> QED  BY <1>1, <1>2, <2>3, <2>4 DEF Sorted
<1> QED  BY <1>5, <1>6, CopyIs

LEMMA SortedToday ==
    ASSUME IInv, Sorted, Alone = Calls, NEW d \in DelegationIds, NEW w, Today(d, w)
    PROVE  Sorted'
<1>1. AtRest /\ UNCHANGED <<task, handler, copying, spreading>>  BY DEF Today, Calls
<1>2. copying' = {} /\ spreading' = {} /\ spreading = {}  BY <1>1 DEF AtRest
<1>3. \A g \in Handlers : handler'[g].pc = "idle"  BY <1>1 DEF AtRest
<1>4. \A g \in Handlers : RowShut(handler[g])' /\ RowFits(handler[g])'
  BY <1>3 DEF RowShut, RowFits, Works
<1>5. Tree'  BY <1>1 DEF Sorted, Tree, UpInto, Root
<1> QED  BY <1>2, <1>4, <1>5 DEF Sorted

(* The run that a call waits for: there is one at most, and the task it is  *)
(* for is closed.                                                           *)
LEMMA Own ==
    ASSUME IInv, Turnwise, Sorted, NEW p \in spreading, p.closes
    PROVE  /\ p.by \in Handlers /\ p.by # NoHandler /\ handler[p.by].pc = "spread"
           /\ p.task = handler[p.by].task
           /\ IsClosed(p.task) /\ p.bound = task[p.task].bound
           /\ \A q \in spreading : q.closes => q = p
<1>1. ASSUME NEW q \in spreading, q.closes
      PROVE  q.by \in Handlers /\ q.by # NoHandler /\ handler[q.by].pc = "spread"
  <2>1. q.by # NoHandler  BY <1>1 DEF Sorted, RunOpen
  <2>2. q.by \in Handlers  BY <2>1 DEF IInv, TypeOK, Spread
  <2> QED  BY <2>1, <2>2 DEF IInv, RunsGood
<1>2. p.task = handler[p.by].task /\ p.bound = handler[p.by].bound  BY DEF Sorted, OwnRun
<1>3. RowShut(handler[p.by])  BY <1>1 DEF Sorted
<1>4. IsClosed(p.task) /\ p.bound = task[p.task].bound  BY <1>1, <1>2, <1>3 DEF RowShut, Works
<1>5. \A q \in spreading : q.closes => q = p
  <2> SUFFICES ASSUME NEW q \in spreading, q.closes PROVE q = p  OBVIOUS
  <2>1. q.by = p.by  BY <1>1 DEF Turnwise, Busy
  <2> QED  BY <1>1, <2>1 DEF IInv, RunsGood
<1> QED  BY <1>1, <1>2, <1>4, <1>5

(* The rows that the runs touch.                                            *)
LEMMA RunRows ==
    ASSUME IInv, NEW p \in spreading
    PROVE  /\ p \in Spread /\ p.task \in TaskIds /\ p.task \in Made
           /\ p.bound = 0 \/ p.bound \in TaskIds
           /\ p.bound # 0 => Kin(p.task, p.bound)
           /\ \A t \in p.rows : t \in TaskIds /\ Kin(t, p.task)
BY DEF IInv, RunsGood, GoodSpread, TypeOK, Free, Kin, Of, Made

(* An UPDATE of an open row.                                                *)
LEMMA WriteIs ==
    ASSUME IInv, ~UpdatesMayFail, NEW z \in TaskIds, IsOpen(z), NEW p, NEW v, Writes(z, p, v)
    PROVE  /\ \A t \in TaskIds : t # z => task'[t] = task[t]
           /\ task'[z].bound = v /\ task'[z].state = (IF p.closes THEN "closed" ELSE "open")
<1>1. PICK row : row = Written(task[z], p, v)  OBVIOUS
<1>2. task' = [task EXCEPT ![z] = row]  BY <1>1 DEF Writes, IsOpen, Exists
<1>3. task[z] \in TaskRow  BY TaskRows
<1>4. row.bound = v /\ row.state = (IF p.closes THEN "closed" ELSE "open")
  BY <1>1, <1>3 DEF Written, TaskRow
<1> QED  BY <1>2, <1>4, TaskTable

(* What a step of a run leaves to the calls.                                *)
LEMMA SortedRun ==
    ASSUME IInv, Turnwise, Placed, Sorted, SpreadStep, Tree',
           \A q \in spreading' : RunOpen(q)' /\ OwnRun(q)' /\ Apart(q)',
           \A t \in TaskIds : IsClosed(t) => task'[t] = task[t],
           \A t \in TaskIds : UpInto(t)' => UpInto(t),
           \A t \in TaskIds : IsOpen(t) => IsOpen(t)' \/ \E p \in spreading : p.closes,
           \A t \in TaskIds : Root(t) => Root(t)' \/ \E p \in spreading : t \in p.rows
    PROVE  Sorted'
<1>1. /\ \A g \in Handlers : \/ handler'[g] = handler[g]
                             \/ /\ handler[g].pc = "spread"
                                /\ handler'[g] = [handler[g] EXCEPT !.pc = "others"]
      /\ UNCHANGED <<nextTask, copying>>
  BY SpreadEffect
<1>2. spreading # {}  BY DEF SpreadStep
<1>3. copying' = {}  BY <1>1, <1>2 DEF Placed
<1>4. Thin  BY SpreadThin
<1>5. Made' = Made /\ Made \subseteq TaskIds  BY <1>1, MadeSame DEF Made
<1>6. ASSUME NEW m \in GoodHandler, RowPlaced(m), RowShut(m) PROVE RowShut(m)'
  <2>1. m.pc \notin {"reread", "read"}  BY <1>2, <1>6 DEF RowPlaced, Silent
  <2>2. ASSUME m.pc \in Works PROVE IsClosed(m.task)' /\ m.bound = task'[m.task].bound
    <3>1. m.task \in TaskIds  BY <1>5, <2>2 DEF GoodHandler, Works
    <3>2. IsClosed(m.task) /\ m.bound = task[m.task].bound  BY <1>6, <2>2 DEF RowShut
    <3> QED  BY <3>1, <3>2 DEF IsClosed
  <2> QED  BY <2>1, <2>2 DEF RowShut
<1>7. ASSUME NEW g \in Handlers, handler[g].pc = "create" PROVE RowFits(handler[g])'
  <2>1. \A f \in Handlers : handler[f].pc # "spread"  BY <1>7 DEF Turnwise, Busy
  <2>2. \A p \in spreading : ~p.closes  BY <2>1, NoOwn
  <2>3. handler'[g] = handler[g]  BY <1>1, <2>1
  <2>4. PICK b, Q : b = handler[g].bound /\ Q = handler[g].todo  OBVIOUS
  <2>5. b \in Made \cup {0} /\ Q \in Seq(FitItem(b))  BY <1>7, <2>4 DEF Sorted, RowFits
  <2>6. Q \in Seq(GoodItem)  BY <2>4 DEF IInv, CallsGood, GoodHandler
  <2>7. PICK V \in SUBSET Made : Aside(V) /\ Q \in Seq(NewStep(V))
    BY <1>7, <2>4 DEF Placed, RowPlaced
  <2>8. PICK B : B = Mate(b)  OBVIOUS
  <2>9. Mate(b)' = B  BY <1>4, <1>5, <2>5, <2>8 DEF Mate, Thin
  <2>10. ASSUME NEW y \in FitItem(b), y \in GoodItem, y \in NewStep(V) PROVE y \in FitItem(b)'
    <3>1. y \in Item /\ Fits(y, B)  BY <2>8, <2>10 DEF FitItem
    <3>2. /\ y.kind \in {"create", "insert"} => /\ y.bound = 0 \/ y.bound \in TaskIds
                                                /\ y.task = 0 \/ y.task \in TaskIds
          /\ y.kind \in {"owner", "delegates", "rebind"} => y.task \in TaskIds
          /\ y.kind = "rebind" => /\ y.bound \in TaskIds
                                  /\ task[y.bound].request = y.request /\ task[y.bound].name = y.name
      BY <2>10 DEF GoodItem, Of, Made
    <3>3. \A t \in TaskIds : IsOpen(t) => IsOpen(t)'  BY <2>2
    <3>40. y.bound \notin V /\ \A p \in spreading : p.rows \subseteq V
      BY <2>7, <2>10 DEF NewStep, Aside, Stays
    <3>4. y.kind = "rebind" => Root(y.bound)'  BY <3>1, <3>2, <3>40 DEF Fits
    <3>5. \A t \in TaskIds : task'[t].user = task[t].user  BY <1>4 DEF Thin
    <3>6. Fits(y, B)'  BY <3>1, <3>2, <3>3, <3>4, <3>5 DEF Fits
    <3> QED  BY <2>9, <3>1, <3>6 DEF FitItem
  <2>11. PICK S, F, G, N : S = FitItem(b)' /\ F = FitItem(b) /\ G = GoodItem /\ N = NewStep(V)
    OBVIOUS
  <2>12. Q \in Seq(F) /\ Q \in Seq(G) /\ Q \in Seq(N)  BY <2>5, <2>6, <2>7, <2>11
  <2>13. \A i \in 1 .. Len(Q) : Q[i] \in F /\ Q[i] \in G /\ Q[i] \in N  BY <2>12
  <2>14. \A i \in 1 .. Len(Q) : Q[i] \in S  BY <2>10, <2>11, <2>13
  <2>15. Q \in Seq(S)  BY <2>12, <2>14
  <2>16. PICK m : m = handler[g]  OBVIOUS
  <2>17. m.todo \in Seq(FitItem(m.bound)') /\ m.bound \in (Made \cup {0})'
    BY <1>5, <2>4, <2>5, <2>11, <2>15, <2>16
  <2>18. RowFits(m)'  BY <2>17 DEF RowFits
  <2> QED  BY <2>3, <2>16, <2>18
<1>8. ASSUME NEW g \in Handlers PROVE RowShut(handler[g])' /\ RowFits(handler[g])'
  <2>1. PICK m : m = handler[g]  OBVIOUS
  <2>2. m \in GoodHandler /\ m \in HandlerRow /\ RowPlaced(m) /\ RowShut(m)
    BY <2>1 DEF Placed, Sorted, IInv, CallsGood, GoodHandler
  <2>3. RowShut(m)'  BY <1>6, <2>2
  <2>4. CASE handler'[g] = handler[g]
    <3>1. RowShut(handler[g])'  BY <2>1, <2>3, <2>4
    <3>2. RowFits(handler[g])'
      <4>1. CASE m.pc = "create"  BY <1>7, <2>1, <4>1
      <4>2. CASE m.pc # "create"
        <5>1. RowFits(m)'  BY <4>2 DEF RowFits
        <5> QED  BY <2>1, <2>4, <5>1
      <4> QED  BY <4>1, <4>2
    <3> QED  BY <3>1, <3>2
  <2>5. CASE m.pc = "spread" /\ handler'[g] = [m EXCEPT !.pc = "others"]
    <3>1. PICK q : q = [m EXCEPT !.pc = "others"]  OBVIOUS
    <3>2. q.pc = "others" /\ q.task = m.task /\ q.bound = m.bound  BY <2>2, <3>1 DEF HandlerRow
    <3>3. RowShut(q)' /\ RowFits(q)'  BY <2>3, <2>5, <3>2 DEF RowShut, RowFits, Works
    <3> QED  BY <2>5, <3>1, <3>3
  <2> QED  BY <1>1, <2>1, <2>4, <2>5
<1> QED  BY <1>3, <1>8 DEF Sorted

(* Beside a goroutine's run, the run of a call has gone down already.       *)
LEMMA OwnBeside ==
    ASSUME IInv, Turnwise, Sorted, NEW p \in spreading, ~p.closes, NEW r \in spreading, r.closes
    PROVE  /\ r.pc \in {"down", "downWrite"}
           /\ \E U \in SUBSET TaskIds : Away(U, r.task) /\ Stays(U, p) /\ p.task # r.task
<1>1. OwnRun(r) /\ Apart(r)  BY DEF Sorted
<1>2. r.pc \in {"up", "upWrite", "down", "downWrite"}  BY RunRows DEF Spread
<1> QED  BY <1>1, <1>2 DEF OwnRun, Apart, Away

LEMMA SortedFindAbove ==
    ASSUME IInv, Turnwise, Placed, Sorted, NEW p \in spreading, FindAbove(p)
    PROVE  Sorted'
<1>1. PICK a, b, x : a = task[p.bound].bound /\ b = p.bound /\ x = p.task  OBVIOUS
<1>2. PICK q : /\ spreading' = (spreading \ {p}) \cup {q}
               /\ \/ b # 0 /\ IsOpen(b) /\ q = [p EXCEPT !.pc = "upWrite", !.above = a]
                  \/ q = [p EXCEPT !.pc = "down"]
  BY <1>1 DEF FindAbove, Becomes
<1>3. UNCHANGED <<task, handler>> /\ p.pc = "up"  BY DEF FindAbove, Becomes
<1>4. /\ p \in Spread /\ x \in TaskIds /\ (b = 0 \/ b \in TaskIds) /\ (b # 0 => Kin(x, b))
  BY <1>1, RunRows
<1>5. RunOpen(p) /\ p.rows = {} /\ OwnRun(p) /\ Apart(p) /\ Tree  BY <1>3 DEF Sorted, RunOpen
<1>6. /\ q.task = x /\ q.bound = b /\ q.closes = p.closes /\ q.by = p.by /\ q.rows = {}
      /\ \/ q.pc = "upWrite" /\ q.above = a /\ b # 0 /\ IsOpen(b)
         \/ q.pc = "down"
  BY <1>1, <1>2, <1>4, <1>5 DEF Spread
<1>7. \A t \in TaskIds : UpInto(t)' => UpInto(t)  BY <1>2, <1>3, <1>6 DEF UpInto
<1>8. Tree'
  <2>1. \A t \in TaskIds : UpInto(t)' => Root(t)'  BY <1>3, <1>5, <1>7 DEF Tree, Root
  <2>2. ASSUME NEW r \in spreading', NEW t \in r.rows, t # r.task PROVE ~UpInto(t)'
    <3>1. r \in spreading  BY <1>2, <1>6, <2>2
    <3>2. t \in TaskIds  BY <2>2, <3>1, RunRows
    <3> QED  BY <1>5, <1>7, <2>2, <3>1, <3>2 DEF Tree
  <2> QED  BY <2>1, <2>2 DEF Tree
<1>9. \A r \in spreading' : RunOpen(r)'
  <2>1. RunOpen(q)'  BY <1>3, <1>5, <1>6 DEF RunOpen, IsOpen
  <2>2. \A r \in spreading : RunOpen(r)'  BY <1>3 DEF Sorted, RunOpen, IsOpen
  <2> QED  BY <1>2, <2>1, <2>2
<1>10. ASSUME ~p.closes, NEW r \in spreading' PROVE OwnRun(r)' /\ Apart(r)'
  <2>1. CASE ~r.closes  BY <2>1, Echo
  <2>2. CASE r.closes
    <3>1. r \in spreading /\ r # p  BY <1>2, <1>6, <1>10, <2>2
    <3>2. PICK U \in SUBSET TaskIds :
             /\ r.pc \in {"down", "downWrite"} /\ Away(U, r.task) /\ Stays(U, p) /\ x # r.task
      BY <1>1, <1>10, <2>2, <3>1, OwnBeside
    <3>3. OwnRun(r)  BY <3>1 DEF Sorted
    <3>4. OwnRun(r)'  BY <1>3, <3>2, <3>3 DEF OwnRun, IsOpen
    <3>5. Stays(U, q)
      <4>1. p.task \in U /\ p.bound \in U \cup {0}  BY <3>2 DEF Stays
      <4>10. x \in U /\ b \in U \cup {0}  BY <1>1, <4>1
      <4>2. b # 0 /\ IsOpen(b) => a \in U \cup {0}  BY <1>1, <3>2, <4>10 DEF Away
      <4> QED  BY <1>6, <4>10, <4>2 DEF Stays
    <3>6. Away(U, r.task)'  BY <1>2, <1>3, <1>6, <3>2, <3>5 DEF Away, Stays, IsOpen
    <3> QED  BY <3>2, <3>4, <3>6 DEF Apart
  <2> QED  BY <2>1, <2>2
<1>11. ASSUME p.closes PROVE OwnRun(q)' /\ Apart(q)' /\ spreading' = {q}
  <2>1. spreading = {p} /\ x = handler[p.by].task /\ b = handler[p.by].bound
    BY <1>1, <1>3, <1>5, <1>11 DEF OwnRun
  <2>2. spreading' = {q}  BY <1>2, <2>1
  <2>3. OwnRun(q)'  BY <1>3, <1>6, <2>1, <2>2 DEF OwnRun
  <2>4. CASE q.pc = "down"
    <3>1. Away({}, x)'  BY <1>6, <1>11, <2>2 DEF Away
    <3> QED  BY <1>6, <2>2, <2>3, <2>4, <3>1 DEF Apart
  <2>5. CASE q.pc = "upWrite" /\ q.above = a /\ b # 0 /\ IsOpen(b)
    <3>1. IsClosed(x) /\ b = task[x].bound  BY <1>1, <1>11, Own
    <3>2. b \in TaskIds /\ b # x  BY <1>4, <2>5, <3>1 DEF IsOpen, IsClosed
    <3>3. ~Root(x) /\ ~UpInto(x)  BY <1>4, <1>5, <2>5, <3>1, <3>2 DEF Root, Tree
    <3>4. PICK U \in SUBSET TaskIds : U = {w \in TaskIds : w < x \/ Root(w)}  OBVIOUS
    <3>5. ASSUME NEW w \in U PROVE task[w].bound \in U \cup {0} /\ task[w].bound # x
      <4>1. w \in TaskIds /\ (w < x \/ Root(w))  BY <3>4
      <4>2. task[w].bound \in 0 .. MaxTasks  BY <4>1, TaskRows DEF TaskRow
      <4>3. PICK v : v = task[w].bound  OBVIOUS
      <4>4. CASE Root(w)  
        <5>1. w # x /\ x # 0  BY <1>4, <3>3, <4>4, Sizes
        <5> QED  BY <3>5, <4>4, <5>1 DEF Root
      <4>5. CASE w < x
        <5>1. v # x  BY <3>3, <4>1, <4>3, <4>5, <1>4 DEF UpInto
        <5>2. CASE v = 0 \/ v < x  BY <3>4, <4>2, <4>3, <5>1, <5>2, Sizes
        <5>3. CASE v > x
          <6>1. v \in TaskIds /\ w < v  BY <1>4, <4>1, <4>2, <4>3, <4>5, <5>3, Sizes
          <6>2. UpInto(v)  BY <4>1, <4>3, <6>1 DEF UpInto
          <6> QED  BY <1>5, <3>4, <4>3, <5>1, <6>1, <6>2 DEF Tree
        <5> QED  BY <1>4, <4>2, <4>3, <5>1, <5>2, <5>3, Sizes
      <4> QED  BY <4>1, <4>4, <4>5
    <3>6. b \in U
      <4>1. CASE b < x  BY <3>2, <3>4, <4>1
      <4>2. CASE x < b
        <5>1. UpInto(b)  BY <1>4, <3>1, <3>2, <4>2 DEF UpInto
        <5> QED  BY <1>5, <3>2, <3>4, <5>1 DEF Tree
      <4> QED  BY <1>4, <3>2, <4>1, <4>2, Sizes
    <3>7. a \in U \cup {0}  BY <1>1, <3>5, <3>6
    <3>8. Away(U, x)'  BY <1>3, <1>6, <1>11, <2>2, <3>5 DEF Away
    <3>9. q.bound \in U /\ q.above \in U \cup {0}  BY <1>6, <2>5, <3>6, <3>7
    <3>10. Apart(q)'  BY <1>6, <3>8, <3>9 DEF Apart
    <3> QED  BY <2>2, <2>3, <3>10
  <2> QED  BY <1>6, <2>4, <2>5
<1>12. \A r \in spreading' : OwnRun(r)' /\ Apart(r)'  BY <1>10, <1>11
<1>13. \A t \in TaskIds : IsOpen(t) => IsOpen(t)'  BY <1>3 DEF IsOpen
<1>14. \A t \in TaskIds : Root(t) => Root(t)'  BY <1>3 DEF Root
<1>15. SpreadStep  BY DEF SpreadStep
<1> QED  BY <1>3, <1>7, <1>8, <1>9, <1>12, <1>13, <1>14, <1>15, SortedRun

LEMMA SortedWriteAbove ==
    ASSUME IInv, Turnwise, Placed, Sorted, ~UpdatesMayFail, NEW p \in spreading, WriteAbove(p)
    PROVE  Sorted'
<1>1. PICK a, b, x : a = p.above /\ b = p.bound /\ x = p.task  OBVIOUS
<1>2. PICK q, e : /\ spreading' = (spreading \ {p}) \cup {q, e}
                  /\ q = [p EXCEPT !.pc = "down"] /\ e = Run(b, a, FALSE, NoHandler)
  BY <1>1 DEF WriteAbove
<1>3. UNCHANGED handler /\ p.pc = "upWrite"  BY DEF WriteAbove
<1>4. RunOpen(p) /\ p.rows = {} /\ IsOpen(b) /\ OwnRun(p) /\ Apart(p) /\ Tree
  BY <1>1, <1>3 DEF Sorted, RunOpen
<1>5. p \in Spread /\ x \in TaskIds /\ b \in TaskIds /\ Kin(x, b)
  BY <1>1, <1>3, RunRows DEF IInv, RunsGood, GoodSpread
<1>6. /\ \A t \in TaskIds : t # b => task'[t] = task[t]
      /\ task'[b].bound = b /\ task'[b].state = (IF p.closes THEN "closed" ELSE "open")
  BY <1>1, <1>4, <1>5, WriteIs DEF WriteAbove
<1>7. /\ q.task = x /\ q.bound = b /\ q.closes = p.closes /\ q.by = p.by /\ q.rows = {} /\ q.pc = "down"
      /\ e.task = b /\ e.bound = a /\ e.closes = FALSE /\ e.by = NoHandler /\ e.rows = {} /\ e.pc = "up"
  BY <1>1, <1>2, <1>4, <1>5 DEF Spread, Run
<1>8. ASSUME NEW t \in TaskIds, UpInto(t)' PROVE UpInto(t)
  <2>1. CASE \E u \in TaskIds : u < t /\ task'[u].bound = t
    <3>1. PICK u \in TaskIds : u < t /\ task'[u].bound = t  BY <2>1
    <3>2. u # b  BY <1>6, <3>1, Sizes
    <3> QED  BY <1>6, <3>1, <3>2 DEF UpInto
  <2>2. CASE \E g \in spreading' : g.task = t /\ \E u \in g.rows : u < t
    BY <1>2, <1>7, <2>2 DEF UpInto
  <2> QED  BY <1>8, <2>1, <2>2 DEF UpInto
<1>9. Tree'
  <2>1. \A t \in TaskIds : UpInto(t)' => Root(t)'  BY <1>4, <1>6, <1>8 DEF Tree, Root
  <2>2. ASSUME NEW r \in spreading', NEW t \in r.rows, t # r.task PROVE ~UpInto(t)'
    <3>1. r \in spreading  BY <1>2, <1>7, <2>2
    <3>2. t \in TaskIds  BY <2>2, <3>1, RunRows
    <3> QED  BY <1>4, <1>8, <2>2, <3>1, <3>2 DEF Tree
  <2> QED  BY <2>1, <2>2 DEF Tree
<1>10. \A t \in TaskIds : IsClosed(t) => t # b /\ task'[t] = task[t]
  BY <1>4, <1>6 DEF IsClosed, IsOpen
<1>11. RunOpen(q)' /\ RunOpen(e)'  BY <1>4, <1>7 DEF RunOpen
<1>12. ASSUME ~p.closes, NEW r \in spreading' PROVE RunOpen(r)' /\ OwnRun(r)' /\ Apart(r)'
  <2>1. \A t \in TaskIds : IsOpen(t)' <=> IsOpen(t)  BY <1>4, <1>6, <1>12 DEF IsOpen
  <2>2. RunOpen(r)'
    <3>1. CASE r \in spreading  BY <2>1, <3>1, RunRows DEF Sorted, RunOpen, IInv, RunsGood, GoodSpread
    <3> QED  BY <1>2, <1>11, <3>1
  <2>3. CASE ~r.closes  BY <2>2, <2>3, Echo
  <2>4. CASE r.closes
    <3>1. r \in spreading /\ r # p  BY <1>2, <1>7, <1>12, <2>4
    <3>2. PICK U \in SUBSET TaskIds :
             /\ r.pc \in {"down", "downWrite"} /\ Away(U, r.task) /\ Stays(U, p) /\ p.task # r.task
      BY <1>12, <2>4, <3>1, OwnBeside
    <3>3. x \in U /\ b \in U /\ a \in U \cup {0} /\ x # r.task
      <4>1. p.task \in U /\ p.bound \in U \cup {0} /\ p.above \in U \cup {0}  BY <1>3, <3>2 DEF Stays
      <4>2. b # 0  BY <1>5, Sizes
      <4> QED  BY <1>1, <3>2, <4>1, <4>2
    <3>4. IsClosed(r.task) /\ r.task # b /\ r.task \in TaskIds
      <4>1. IsClosed(r.task)  BY <2>4, <3>1, Own
      <4> QED  BY <1>10, <3>1, <4>1, RunRows
    <3>5. task[b].bound # r.task  BY <1>4, <3>2, <3>3 DEF Away
    <3>6. OwnRun(r)'
      <4>1. OwnRun(r)  BY <3>1 DEF Sorted
      <4>2. \A z \in r.rows : z \in TaskIds  BY <3>1, RunRows
      <4>3. \A z \in r.rows : task'[z].bound = r.task  BY <1>6, <2>4, <3>5, <4>1, <4>2 DEF OwnRun
      <4>4. r.pc = "downWrite" =>
               \A z \in TaskIds : IsOpen(z)' /\ task'[z].bound = r.task => z \in r.rows
        BY <1>6, <2>1, <2>4, <3>4, <4>1 DEF OwnRun
      <4> QED  BY <1>3, <2>4, <3>2, <4>1, <4>3, <4>4 DEF OwnRun
    <3>7. Stays(U, q) /\ Stays(U, e)  BY <1>7, <3>3 DEF Stays
    <3>8. Away(U, r.task)'
      <4>1. \A w \in U : IsOpen(w)' => task'[w].bound \in U \cup {0} /\ task'[w].bound # r.task
        BY <1>6, <2>1, <3>2, <3>3, <3>4 DEF Away
      <4>2. \A g \in spreading' : ~g.closes => Stays(U, g) /\ g.task # r.task
        BY <1>2, <1>7, <3>2, <3>3, <3>4, <3>7 DEF Away
      <4> QED  BY <4>1, <4>2 DEF Away, Stays
    <3> QED  BY <2>2, <3>2, <3>6, <3>8 DEF Apart
  <2> QED  BY <2>3, <2>4
<1>13. ASSUME p.closes, NEW r \in spreading' PROVE RunOpen(r)' /\ OwnRun(r)' /\ Apart(r)'
  <2>1. spreading = {p} /\ x = handler[p.by].task /\ b = handler[p.by].bound
    BY <1>1, <1>3, <1>4, <1>13 DEF OwnRun
  <2>2. spreading' = {q, e}  BY <1>2, <2>1
  <2>3. OwnRun(q)'  BY <1>3, <1>7, <2>1 DEF OwnRun
  <2>4. b # x
    <3>1. IsClosed(x)  BY <1>1, <1>13, Own
    <3> QED  BY <1>5, <1>10, <3>1
  <2>5. PICK U \in SUBSET TaskIds : Away(U, x) /\ b \in U /\ a \in U \cup {0}
    BY <1>1, <1>3, <1>4, <1>13 DEF Apart
  <2>6. Stays(U, e)  BY <1>7, <2>5 DEF Stays
  <2>7. Away(U, x)'
    <3>1. \A w \in U : IsOpen(w)' => IsOpen(w) /\ task'[w] = task[w]
      BY <1>6, <1>13 DEF IsOpen
    <3>2. \A w \in U : IsOpen(w)' => task'[w].bound \in U \cup {0} /\ task'[w].bound # x
      BY <2>5, <3>1 DEF Away
    <3>3. \A g \in spreading' : ~g.closes => Stays(U, g) /\ g.task # x
      BY <1>7, <1>13, <2>2, <2>4, <2>6
    <3> QED  BY <3>2, <3>3 DEF Away, Stays
  <2>8. Apart(q)'  BY <1>7, <2>7 DEF Apart
  <2>9. OwnRun(e)' /\ Apart(e)'  BY <1>7, Echo
  <2> QED  BY <1>11, <2>2, <2>3, <2>8, <2>9
<1>14. \A t \in TaskIds : IsOpen(t) => IsOpen(t)' \/ \E r \in spreading : r.closes
  BY <1>6 DEF IsOpen
<1>15. \A t \in TaskIds : Root(t) => Root(t)'  BY <1>6 DEF Root
<1>16. SpreadStep  BY DEF SpreadStep
<1> QED  BY <1>8, <1>9, <1>10, <1>12, <1>13, <1>14, <1>15, <1>16, SortedRun

LEMMA SortedFindBelow ==
    ASSUME IInv, Turnwise, Placed, Sorted, NEW p \in spreading, FindBelow(p)
    PROVE  Sorted'
<1>1. PICK rows, x : rows = Below(p) /\ x = p.task  OBVIOUS
<1>2. PICK q : q = [p EXCEPT !.pc = "downWrite", !.rows = rows]  OBVIOUS
<1>3. \/ spreading' = spreading \ {p}
      \/ spreading' = (spreading \ {p}) \cup {q} /\ UNCHANGED handler
  BY <1>1, <1>2 DEF FindBelow, Becomes, Ends
<1>4. /\ UNCHANGED task /\ p.pc = "down"
      /\ p.by = NoHandler => UNCHANGED handler
  BY DEF FindBelow, Becomes, Ends
<1>5. RunOpen(p) /\ p.rows = {} /\ OwnRun(p) /\ Apart(p) /\ Tree  BY <1>4 DEF Sorted, RunOpen
<1>6. p \in Spread /\ x \in TaskIds  BY <1>1, RunRows
<1>7. /\ q.task = x /\ q.bound = p.bound /\ q.closes = p.closes /\ q.by = p.by /\ q.rows = rows
      /\ q.pc = "downWrite"
  BY <1>1, <1>2, <1>6 DEF Spread
<1>8. rows = {t \in TaskIds : IsOpen(t) /\ task[t].bound = x}  BY <1>1 DEF Below
<1>9. ASSUME NEW t \in TaskIds, UpInto(t)' PROVE UpInto(t)
  <2>1. CASE \E u \in TaskIds : u < t /\ task'[u].bound = t  BY <1>4, <2>1 DEF UpInto
  <2>2. CASE \E g \in spreading' : g.task = t /\ \E u \in g.rows : u < t
    <3>1. PICK g \in spreading' : g.task = t /\ \E u \in g.rows : u < t  BY <2>2
    <3>2. CASE g \in spreading  BY <3>1, <3>2 DEF UpInto
    <3>3. CASE g = q  BY <1>7, <1>8, <3>1, <3>3 DEF UpInto
    <3> QED  BY <1>3, <3>2, <3>3
  <2> QED  BY <1>9, <2>1, <2>2 DEF UpInto
<1>10. Tree'
  <2>1. \A t \in TaskIds : UpInto(t)' => Root(t)'  BY <1>4, <1>5, <1>9 DEF Tree, Root
  <2>2. ASSUME NEW r \in spreading', NEW t \in r.rows, t # r.task PROVE ~UpInto(t)'
    <3>1. CASE r \in spreading
      <4>1. t \in TaskIds  BY <2>2, <3>1, RunRows
      <4> QED  BY <1>5, <1>9, <2>2, <3>1, <4>1 DEF Tree
    <3>2. CASE r = q
      <4>1. t \in TaskIds /\ task[t].bound = x /\ t # x  BY <1>7, <1>8, <2>2, <3>2
      <4>2. ~Root(t)  BY <1>6, <4>1, Sizes DEF Root
      <4> QED  BY <1>5, <1>9, <4>1, <4>2 DEF Tree
    <3> QED  BY <1>3, <3>1, <3>2
  <2> QED  BY <2>1, <2>2 DEF Tree
<1>11. \A r \in spreading' : RunOpen(r)'
  <2>1. RunOpen(q)'  BY <1>4, <1>5, <1>7, <1>8 DEF RunOpen, IsOpen
  <2>2. \A r \in spreading : RunOpen(r)'  BY <1>4 DEF Sorted, RunOpen, IsOpen
  <2> QED  BY <1>3, <2>1, <2>2
<1>12. ASSUME ~p.closes, NEW r \in spreading' PROVE OwnRun(r)' /\ Apart(r)'
  <2>1. CASE ~r.closes  BY <2>1, Echo
  <2>2. CASE r.closes
    <3>1. r \in spreading /\ r # p  BY <1>3, <1>7, <1>12, <2>2
    <3>2. PICK U \in SUBSET TaskIds :
             /\ r.pc \in {"down", "downWrite"} /\ Away(U, r.task) /\ Stays(U, p) /\ p.task # r.task
      BY <1>12, <2>2, <3>1, OwnBeside
    <3>3. UNCHANGED handler  BY <1>4, <1>5, <1>12 DEF RunOpen
    <3>4. OwnRun(r)'
      <4>1. OwnRun(r)  BY <3>1 DEF Sorted
      <4> QED  BY <1>4, <3>2, <3>3, <4>1 DEF OwnRun, IsOpen
    <3>5. PICK V \in SUBSET TaskIds : V = U \cup rows  BY <1>8
    <3>6. p.task \in U /\ p.bound \in U \cup {0}  BY <3>2 DEF Stays
    <3>7. Stays(V, q)  BY <1>1, <1>7, <3>5, <3>6 DEF Stays
    <3>8. \A g : Stays(U, g) => Stays(V, g)  BY <3>5 DEF Stays
    <3>9. Away(V, r.task)'
      <4>1. \A w \in V : IsOpen(w) => task[w].bound \in V \cup {0} /\ task[w].bound # r.task
        BY <1>1, <1>8, <3>2, <3>5, <3>6 DEF Away
      <4>2. \A g \in spreading' : ~g.closes => Stays(V, g) /\ g.task # r.task
        BY <1>1, <1>3, <1>7, <3>2, <3>7, <3>8 DEF Away
      <4> QED  BY <1>4, <4>1, <4>2 DEF Away, Stays, IsOpen
    <3> QED  BY <3>2, <3>4, <3>9 DEF Apart
  <2> QED  BY <2>1, <2>2
<1>13. ASSUME p.closes, NEW r \in spreading' PROVE OwnRun(r)' /\ Apart(r)'
  <2>1. CASE ~r.closes  BY <2>1, Echo
  <2>2. CASE r.closes
    <3>1. \A g \in spreading : g.closes => g = p  BY <1>13, Own
    <3>2. r = q /\ UNCHANGED handler /\ spreading' = (spreading \ {p}) \cup {q}
      BY <1>3, <2>2, <3>1
    <3>3. x = handler[p.by].task /\ p.bound = handler[p.by].bound  BY <1>1, <1>5, <1>13 DEF OwnRun
    <3>4. OwnRun(q)'  BY <1>4, <1>7, <1>8, <3>2, <3>3 DEF OwnRun, IsOpen
    <3>5. PICK U \in SUBSET TaskIds : Away(U, x)  BY <1>1, <1>5, <1>13 DEF Apart
    <3>6. \A g \in spreading' : ~g.closes => Stays(U, g) /\ g.task # x
      BY <1>7, <1>13, <3>2, <3>5 DEF Away
    <3>7. Away(U, x)'  BY <1>4, <3>5, <3>6 DEF Away, Stays, IsOpen
    <3>8. Apart(q)'  BY <1>7, <3>7 DEF Apart
    <3> QED  BY <3>2, <3>4, <3>8
  <2> QED  BY <2>1, <2>2
<1>14. \A r \in spreading' : OwnRun(r)' /\ Apart(r)'  BY <1>12, <1>13
<1>15. \A t \in TaskIds : IsOpen(t) => IsOpen(t)'  BY <1>4 DEF IsOpen
<1>16. \A t \in TaskIds : Root(t) => Root(t)'  BY <1>4 DEF Root
<1>17. SpreadStep  BY DEF SpreadStep
<1> QED  BY <1>4, <1>9, <1>10, <1>11, <1>14, <1>15, <1>16, <1>17, SortedRun

LEMMA SortedWriteBelow ==
    ASSUME IInv, Turnwise, Placed, Sorted, ~UpdatesMayFail, NEW p \in spreading, NEW z \in p.rows,
           WriteBelow(p, z)
    PROVE  Sorted'
<1>1. PICK rows, x : rows = p.rows \ {z} /\ x = p.task  OBVIOUS
<1>2. PICK q, e : q = [p EXCEPT !.rows = rows] /\ e = Run(z, x, FALSE, NoHandler)  OBVIOUS
<1>3. \/ spreading' = (spreading \ {p}) \cup {e}
      \/ spreading' = (spreading \ {p}) \cup {q, e} /\ UNCHANGED handler
  BY <1>1, <1>2 DEF WriteBelow
<1>4. /\ Writes(z, p, x) /\ p.pc = "downWrite"
      /\ p.by = NoHandler => UNCHANGED handler
  BY <1>1 DEF WriteBelow
<1>5. RunOpen(p) /\ IsOpen(z) /\ OwnRun(p) /\ Apart(p) /\ Tree  BY DEF Sorted, RunOpen
<1>6. p \in Spread /\ x \in TaskIds /\ z \in TaskIds /\ Kin(z, x)  BY <1>1, RunRows
<1>7. /\ \A t \in TaskIds : t # z => task'[t] = task[t]
      /\ task'[z].bound = x /\ task'[z].state = (IF p.closes THEN "closed" ELSE "open")
  BY <1>4, <1>5, <1>6, WriteIs
<1>8. /\ q.task = x /\ q.bound = p.bound /\ q.closes = p.closes /\ q.by = p.by /\ q.rows = rows
      /\ q.pc = "downWrite"
      /\ e.task = z /\ e.bound = x /\ e.closes = FALSE /\ e.by = NoHandler /\ e.rows = {} /\ e.pc = "up"
  BY <1>1, <1>2, <1>4, <1>6 DEF Spread, Run
<1>9. ASSUME NEW t \in TaskIds, UpInto(t)' PROVE UpInto(t)
  <2>1. CASE \E u \in TaskIds : u < t /\ task'[u].bound = t
    <3>1. PICK u \in TaskIds : u < t /\ task'[u].bound = t  BY <2>1
    <3>2. CASE u = z  BY <1>1, <1>7, <3>1, <3>2 DEF UpInto
    <3>3. CASE u # z  BY <1>7, <3>1, <3>3 DEF UpInto
    <3> QED  BY <3>2, <3>3
  <2>2. CASE \E g \in spreading' : g.task = t /\ \E u \in g.rows : u < t
    <3>1. PICK g \in spreading' : g.task = t /\ \E u \in g.rows : u < t  BY <2>2
    <3>2. CASE g \in spreading  BY <3>1, <3>2 DEF UpInto
    <3>3. CASE g = q  BY <1>1, <1>8, <3>1, <3>3 DEF UpInto
    <3>4. CASE g = e  BY <1>8, <3>1, <3>4
    <3> QED  BY <1>3, <3>2, <3>3, <3>4
  <2> QED  BY <1>9, <2>1, <2>2 DEF UpInto
<1>10. Tree'
  <2>1. ASSUME NEW t \in TaskIds, UpInto(t)' PROVE Root(t)'
    <3>1. UpInto(t) /\ Root(t)  BY <1>5, <1>9, <2>1 DEF Tree
    <3>2. CASE t # z  BY <1>7, <3>1, <3>2 DEF Root
    <3>3. CASE t = z
      <4>1. t = x  BY <1>1, <1>5, <3>1, <3>3 DEF Tree
      <4> QED  BY <1>7, <3>3, <4>1 DEF Root
    <3> QED  BY <3>2, <3>3
  <2>2. ASSUME NEW r \in spreading', NEW t \in r.rows, t # r.task PROVE ~UpInto(t)'
    <3>1. CASE r \in spreading
      <4>1. t \in TaskIds  BY <2>2, <3>1, RunRows
      <4> QED  BY <1>5, <1>9, <2>2, <3>1, <4>1 DEF Tree
    <3>2. CASE r = q
      <4>1. t \in p.rows /\ t \in TaskIds /\ t # p.task  BY <1>1, <1>8, <2>2, <3>2, RunRows
      <4> QED  BY <1>5, <1>9, <4>1 DEF Tree
    <3>3. CASE r = e  BY <1>8, <2>2, <3>3
    <3> QED  BY <1>3, <3>1, <3>2, <3>3
  <2> QED  BY <2>1, <2>2 DEF Tree
<1>11. \A t \in TaskIds : IsClosed(t) => t # z /\ task'[t] = task[t]
  BY <1>5, <1>7 DEF IsClosed, IsOpen
<1>12. ASSUME ~p.closes, NEW r \in spreading' PROVE RunOpen(r)' /\ OwnRun(r)' /\ Apart(r)'
  <2>1. \A t \in TaskIds : IsOpen(t)' <=> IsOpen(t)  BY <1>5, <1>7, <1>12 DEF IsOpen
  <2>2. RunOpen(r)'
    <3>1. CASE r \in spreading  BY <2>1, <3>1, RunRows DEF Sorted, RunOpen, IInv, RunsGood, GoodSpread
    <3>2. CASE r = q
      <4>1. \A t \in rows : t \in TaskIds /\ IsOpen(t)  BY <1>1, <1>5, RunRows DEF RunOpen
      <4> QED  BY <1>5, <1>8, <2>1, <3>2, <4>1 DEF RunOpen
    <3>3. CASE r = e  BY <1>8, <3>3 DEF RunOpen
    <3> QED  BY <1>3, <3>1, <3>2, <3>3
  <2>3. CASE ~r.closes  BY <2>2, <2>3, Echo
  <2>4. CASE r.closes
    <3>1. r \in spreading /\ r # p  BY <1>3, <1>8, <1>12, <2>4
    <3>2. PICK U \in SUBSET TaskIds :
             /\ r.pc \in {"down", "downWrite"} /\ Away(U, r.task) /\ Stays(U, p) /\ p.task # r.task
      BY <1>12, <2>4, <3>1, OwnBeside
    <3>3. /\ x \in U /\ p.bound \in U \cup {0} /\ p.rows \subseteq U /\ z \in U /\ rows \subseteq U
          /\ x # r.task
      BY <1>1, <3>2 DEF Stays
    <3>4. IsClosed(r.task) /\ r.task # z /\ r.task \in TaskIds
      <4>1. IsClosed(r.task)  BY <2>4, <3>1, Own
      <4> QED  BY <1>11, <3>1, <4>1, RunRows
    <3>5. task[z].bound # r.task  BY <1>5, <3>2, <3>3 DEF Away
    <3>50. UNCHANGED handler  BY <1>4, <1>5, <1>12 DEF RunOpen
    <3>6. OwnRun(r)'
      <4>1. OwnRun(r)  BY <3>1 DEF Sorted
      <4>2. \A t \in r.rows : t \in TaskIds  BY <3>1, RunRows
      <4>3. \A t \in r.rows : task'[t].bound = r.task  BY <1>7, <2>4, <3>5, <4>1, <4>2 DEF OwnRun
      <4>4. r.pc = "downWrite" =>
               \A t \in TaskIds : IsOpen(t)' /\ task'[t].bound = r.task => t \in r.rows
        BY <1>7, <2>1, <2>4, <3>3, <4>1 DEF OwnRun
      <4> QED  BY <2>4, <3>2, <3>50, <4>1, <4>3, <4>4 DEF OwnRun
    <3>7. Stays(U, q) /\ Stays(U, e)  BY <1>8, <3>3 DEF Stays
    <3>8. Away(U, r.task)'
      <4>1. \A w \in U : IsOpen(w)' => task'[w].bound \in U \cup {0} /\ task'[w].bound # r.task
        BY <1>7, <2>1, <3>2, <3>3 DEF Away
      <4>2. \A g \in spreading' : ~g.closes => Stays(U, g) /\ g.task # r.task
        BY <1>3, <1>8, <3>2, <3>3, <3>4, <3>7 DEF Away
      <4> QED  BY <4>1, <4>2 DEF Away, Stays
    <3> QED  BY <2>2, <3>2, <3>6, <3>8 DEF Apart
  <2> QED  BY <2>3, <2>4
<1>13. ASSUME p.closes, NEW r \in spreading' PROVE RunOpen(r)' /\ OwnRun(r)' /\ Apart(r)'
  <2>1. IsClosed(x) /\ x # z  BY <1>1, <1>6, <1>11, <1>13, Own
  <2>2. \A g \in spreading : g.closes => g = p  BY <1>13, Own
  <2>3. PICK U \in SUBSET TaskIds : Away(U, x)  BY <1>1, <1>5, <1>13 DEF Apart
  <2>4. task[z].bound = x  BY <1>1, <1>5, <1>13 DEF OwnRun
  <2>5. z \notin U  BY <1>5, <2>3, <2>4 DEF Away
  <2>6. \A t \in TaskIds : IsOpen(t)' => IsOpen(t) /\ t # z  BY <1>7, <1>13 DEF IsOpen
  <2>7. \A t \in TaskIds : IsOpen(t) /\ t # z => IsOpen(t)'  BY <1>7 DEF IsOpen
  <2>8. CASE r \in spreading /\ r # p
    <3>1. ~r.closes /\ Stays(U, r)  BY <2>2, <2>3, <2>8 DEF Away
    <3>2. r.bound \in U \cup {0} /\ r.rows \subseteq U  BY <3>1 DEF Stays
    <3>3. z # 0  BY <1>6, Sizes
    <3>4. RunOpen(r)'
      <4>1. RunOpen(r) /\ (r.pc = "upWrite" => r.bound \in TaskIds)
        BY <2>8 DEF Sorted, IInv, RunsGood, GoodSpread, Free, Kin, Of, Made
      <4>2. r.pc = "upWrite" => r.bound # z  BY <2>5, <3>2, <3>3
      <4>3. \A t \in r.rows : t \in TaskIds /\ t # z  BY <2>5, <3>2
      <4> QED  BY <2>7, <4>1, <4>2, <4>3 DEF RunOpen
    <3> QED  BY <3>1, <3>4, Echo
  <2>9. CASE r = e  BY <1>8, <2>9, Echo DEF RunOpen
  <2>10. CASE r = q /\ UNCHANGED handler /\ spreading' = (spreading \ {p}) \cup {q, e}
    <3>1. \A t \in rows : t \in TaskIds /\ t # z /\ IsOpen(t)  BY <1>1, <1>5, RunRows DEF RunOpen
    <3>2. RunOpen(q)'  BY <1>5, <1>8, <2>7, <3>1 DEF RunOpen
    <3>3. /\ x = handler[p.by].task /\ p.bound = handler[p.by].bound
          /\ \A t \in p.rows : task[t].bound = x
          /\ \A t \in TaskIds : IsOpen(t) /\ task[t].bound = x => t \in p.rows
      BY <1>1, <1>4, <1>5, <1>13 DEF OwnRun
    <3>4. \A t \in rows : task'[t].bound = x  BY <1>1, <1>7, <3>1, <3>3
    <3>5. \A t \in TaskIds : IsOpen(t)' /\ task'[t].bound = x => t \in rows
      BY <1>1, <1>7, <2>6, <3>3
    <3>6. OwnRun(q)'  BY <1>8, <2>10, <3>3, <3>4, <3>5 DEF OwnRun
    <3>7. PICK V \in SUBSET TaskIds : V = U \cup {z, x}  BY <1>6
    <3>8. \A g : Stays(U, g) => Stays(V, g)  BY <3>7 DEF Stays
    <3>9. Stays(V, e)  BY <1>8, <3>7 DEF Stays
    <3>10. Away(V, x)'
      <4>1. ASSUME NEW w \in V, IsOpen(w)' PROVE task'[w].bound \in V \cup {0} /\ task'[w].bound # x
        <5>1. w \in TaskIds /\ w # z /\ IsOpen(w)  BY <2>6, <4>1
        <5>2. w # x  BY <2>1, <5>1 DEF IsClosed, IsOpen
        <5>3. w \in U /\ task'[w] = task[w]  BY <1>7, <3>7, <5>1, <5>2
        <5> QED  BY <2>3, <3>7, <5>1, <5>3 DEF Away
      <4>2. \A g \in spreading' : ~g.closes => Stays(V, g) /\ g.task # x
        BY <1>8, <1>13, <2>1, <2>3, <2>10, <3>8, <3>9 DEF Away
      <4> QED  BY <4>1, <4>2 DEF Away, Stays
    <3>11. Apart(q)'  BY <1>8, <3>10 DEF Apart
    <3> QED  BY <2>10, <3>2, <3>6, <3>11
  <2> QED  BY <1>3, <2>8, <2>9, <2>10
<1>14. \A t \in TaskIds : IsOpen(t) => IsOpen(t)' \/ \E r \in spreading : r.closes
  BY <1>7 DEF IsOpen
<1>15. \A t \in TaskIds : Root(t) => Root(t)' \/ \E r \in spreading : t \in r.rows
  BY <1>7 DEF Root
<1>16. SpreadStep  BY DEF SpreadStep
<1> QED  BY <1>9, <1>10, <1>11, <1>12, <1>13, <1>14, <1>15, <1>16, SortedRun

LEMMA NextSorted ==
    ASSUME IInv, Turnwise, Placed, Sorted, Alone = Calls, ~UpdatesMayFail, [Next]_vars
    PROVE  Sorted'
<1>1. ASSUME NEW h \in Handlers, Call(h) PROVE Sorted'
  BY <1>1, CallIs, SortedLight, SortedOpen
<1>2. ASSUME NEW h \in Handlers, Proceed(h) PROVE Sorted'
  BY <1>2, SortedItems, SortedInsert, SortedRebind, SortedPlain, SortedAdvance, SortedAnswer, EndIs,
     SortedLight DEF Proceed, Plain
<1>3. ASSUME NEW d \in DelegationIds, NEW w, Today(d, w) PROVE Sorted'
  BY <1>3, SortedToday
<1>4. CASE UNCHANGED vars
  <2>1. UNCHANGED <<place, request, task, nextTask, handler, copying, spreading>>  BY <1>4 DEF vars
  <2>2. Tree' /\ \A p \in spreading' : RunOpen(p)' /\ OwnRun(p)' /\ Apart(p)'
    BY <2>1, SMTT(30) DEF Sorted, Tree, UpInto, Root, RunOpen, OwnRun, Apart, Away, Stays, IsOpen
  <2>3. \A h \in Handlers : RowShut(handler[h])'
    <3> SUFFICES ASSUME NEW h \in Handlers PROVE RowShut(handler[h])'  OBVIOUS
    <3>1. RowShut(handler[h])  BY DEF Sorted
    <3> QED  BY <2>1, <3>1 DEF RowShut, IsClosed, Exists
  <2>4. \A h \in Handlers : RowFits(handler[h])'
    <3> SUFFICES ASSUME NEW h \in Handlers PROVE RowFits(handler[h])'  OBVIOUS
    <3>1. RowFits(handler[h])  BY DEF Sorted
    <3>2. Made' = Made  BY <2>1, MadeSame
    <3>3. \A b : FitItem(b)' = FitItem(b)  BY <2>1 DEF FitItem, Fits, Mate, IsOpen, UpInto, Root
    <3> QED  BY <2>1, <3>1, <3>2, <3>3 DEF RowFits
  <2>5. \A c \in copying' : IsOpen(c.task)'  BY <2>1 DEF Sorted, IsOpen
  <2> QED  BY <2>2, <2>3, <2>4, <2>5 DEF Sorted
<1>5. CASE SpreadStep
  <2>1. PICK p \in spreading : \/ FindAbove(p) \/ WriteAbove(p) \/ FindBelow(p)
                               \/ \E t \in p.rows : WriteBelow(p, t)
    BY <1>5 DEF SpreadStep
  <2> QED  BY <2>1, SortedFindAbove, SortedWriteAbove, SortedFindBelow, SortedWriteBelow
<1> QED  BY <1>1, <1>2, <1>3, <1>4, <1>5, SortedCopy DEF Next

(* What a step of a run does: it goes on, and may start another for an open *)
(* task; it writes one open row at most.                                    *)
LEMMA RunStep ==
    ASSUME IInv, Sorted, ~UpdatesMayFail, NEW p \in spreading,
           \/ FindAbove(p) \/ WriteAbove(p) \/ FindBelow(p)
           \/ \E z \in p.rows : WriteBelow(p, z)
    PROVE  /\ spreading \ {p} \subseteq spreading'
           /\ \A q \in spreading' : \/ q \in spreading
                                    \/ q.task = p.task /\ q.closes = p.closes
                                    \/ ~q.closes /\ IsOpen(q.task) /\ q.task \in TaskIds
           /\ \A t \in TaskIds :
                 \/ task'[t] = task[t]
                 \/ /\ IsOpen(t) /\ task'[t].state = (IF p.closes THEN "closed" ELSE "open")
                    /\ \/ task'[t].bound = t /\ t = p.bound /\ p.pc = "upWrite"
                       \/ task'[t].bound = p.task /\ t \in p.rows
           /\ p.by = NoHandler => UNCHANGED handler
<1>1. RunOpen(p) /\ p \in Spread  BY RunRows DEF Sorted
<1>2. CASE FindAbove(p)
  <2>1. PICK a : a = task[p.bound].bound  OBVIOUS
  <2>2. PICK q : /\ spreading' = (spreading \ {p}) \cup {q}
                 /\ q \in {[p EXCEPT !.pc = "upWrite", !.above = a], [p EXCEPT !.pc = "down"]}
    BY <1>2, <2>1 DEF FindAbove, Becomes
  <2>3. q.task = p.task /\ q.closes = p.closes  BY <1>1, <2>2 DEF Spread
  <2> QED  BY <1>2, <2>2, <2>3 DEF FindAbove, Becomes
<1>3. CASE WriteAbove(p)
  <2>1. p.pc = "upWrite" /\ IsOpen(p.bound) /\ p.bound \in TaskIds
    BY <1>1, <1>3, RunRows DEF WriteAbove, RunOpen, IInv, RunsGood, GoodSpread
  <2>2. /\ \A t \in TaskIds : t # p.bound => task'[t] = task[t]
        /\ task'[p.bound].bound = p.bound
        /\ task'[p.bound].state = (IF p.closes THEN "closed" ELSE "open")
    BY <1>3, <2>1, WriteIs DEF WriteAbove
  <2>3. PICK q, e : /\ spreading' = (spreading \ {p}) \cup {q, e}
                    /\ q = [p EXCEPT !.pc = "down"] /\ e = Run(p.bound, p.above, FALSE, NoHandler)
    BY <1>3 DEF WriteAbove
  <2>4. q.task = p.task /\ q.closes = p.closes /\ ~e.closes /\ e.task = p.bound
    BY <1>1, <2>3 DEF Spread, Run
  <2> QED  BY <1>3, <2>1, <2>2, <2>3, <2>4 DEF WriteAbove
<1>4. CASE FindBelow(p)
  <2>1. PICK q : q = [p EXCEPT !.pc = "downWrite", !.rows = Below(p)]  OBVIOUS
  <2>2. q.task = p.task /\ q.closes = p.closes  BY <1>1, <2>1 DEF Spread
  <2> QED  BY <1>4, <2>1, <2>2 DEF FindBelow, Becomes, Ends
<1>5. ASSUME NEW z \in p.rows, WriteBelow(p, z)
      PROVE  /\ spreading \ {p} \subseteq spreading'
             /\ \A q \in spreading' : \/ q \in spreading
                                      \/ q.task = p.task /\ q.closes = p.closes
                                      \/ ~q.closes /\ IsOpen(q.task) /\ q.task \in TaskIds
             /\ \A t \in TaskIds :
                   \/ task'[t] = task[t]
                   \/ /\ IsOpen(t) /\ task'[t].state = (IF p.closes THEN "closed" ELSE "open")
                      /\ task'[t].bound = p.task /\ t \in p.rows
             /\ p.by = NoHandler => UNCHANGED handler
  <2>1. IsOpen(z) /\ z \in TaskIds  BY <1>1, RunRows DEF RunOpen
  <2>2. /\ \A t \in TaskIds : t # z => task'[t] = task[t]
        /\ task'[z].bound = p.task /\ task'[z].state = (IF p.closes THEN "closed" ELSE "open")
    BY <1>5, <2>1, WriteIs DEF WriteBelow
  <2>3. PICK q, e : /\ q = [p EXCEPT !.rows = p.rows \ {z}]
                    /\ e = Run(z, p.task, FALSE, NoHandler)
    OBVIOUS
  <2>4. spreading \ {p} \subseteq spreading' /\ spreading' \subseteq spreading \cup {q, e}
    BY <1>5, <2>3 DEF WriteBelow
  <2>5. q.task = p.task /\ q.closes = p.closes /\ ~e.closes /\ e.task = z
    BY <1>1, <2>3 DEF Spread, Run
  <2>6. p.by = NoHandler => UNCHANGED handler  BY <1>5 DEF WriteBelow
  <2> QED  BY <2>1, <2>2, <2>4, <2>5, <2>6
<1> QED  BY <1>2, <1>3, <1>4, <1>5

(* Only open rows are written, or withdrawn, or bound.                      *)
LEMMA OnlyOpen ==
    ASSUME IInv, Turnwise, Placed, Sorted, Alone = Calls, ~UpdatesMayFail, [Next]_vars,
           NEW t \in Made, ~IsOpen(t)
    PROVE  task'[t] = task[t]
<1>0. t \in TaskIds /\ task[t] \in TaskRow  BY TaskRows DEF Made
<1>1. ASSUME NEW h \in Handlers, Call(h) PROVE UNCHANGED task
  BY <1>1, CallIs, ZenonT(30) DEF Light, OpenRequest
<1>2. ASSUME NEW h \in Handlers, Proceed(h) PROVE task'[t] = task[t]
  <2>1. CASE InsertTask(h)
    <3>1. PICK row : AddTask(row)  BY <2>1 DEF InsertTask
    <3> QED  BY <1>0, <3>1, AddedRow
  <2>2. CASE Rebind(h)
    <3>1. PICK x, b : x = Head(handler[h].todo) /\ b = handler[h].bound  OBVIOUS
    <3>2. handler[h].pc = "create" /\ x.kind = "rebind"  BY <2>2, <3>1 DEF Rebind, Does
    <3>3. Fits(x, Mate(b))  BY <3>1, <3>2, HeadFits
    <3>4. IsOpen(x.task)  BY <3>2, <3>3 DEF Fits
    <3>5. task' = IF Exists(x.task) THEN [task EXCEPT ![x.task].bound = x.bound] ELSE task
      BY <2>2, <3>1 DEF Rebind
    <3> QED  BY <1>0, <3>4, <3>5, TaskTable
  <2>3. CASE Plain(h)
    <3>1. \/ task'[t] = task[t]
          \/ Exists(t) /\ task'[t] = [task[t] EXCEPT !.state = "closed"]
      BY <1>0, <2>3, PlainEffect
    <3>2. Exists(t) => task[t].state = "closed"  BY <1>0 DEF Exists, IsOpen, TaskRow
    <3> QED  BY <1>0, <3>1, <3>2 DEF TaskRow
  <2>4. CASE WithdrawCopies(h)  BY <1>0, <2>4 DEF WithdrawCopies
  <2>5. CASE UNCHANGED task  BY <2>5
  <2> QED
    BY <1>2, <2>1, <2>2, <2>3, <2>4, <2>5, ZenonT(30)
    DEF Proceed, Plain, FindTask, InsertFails, GiveOwner, GiveDelegates, FindShare, AddShare,
        AdvanceRequest, Trigger, DeleteShares, FindRivals
<1>3. CASE SpreadStep
  <2>1. PICK p \in spreading : \/ FindAbove(p) \/ WriteAbove(p) \/ FindBelow(p)
                               \/ \E z \in p.rows : WriteBelow(p, z)
    BY <1>3 DEF SpreadStep
  <2> QED  BY <1>0, <2>1, RunStep
<1>4. CASE CopyStep
  <2>1. \/ UNCHANGED task
        \/ \E n \in TaskIds : n \notin Made /\ \A s \in TaskIds : s # n => task'[s] = task[s]
    BY <1>4, CopyIs
  <2> QED  BY <1>0, <2>1
<1>5. CASE UNCHANGED vars  BY <1>5 DEF vars
<1> QED  BY <1>1, <1>2, <1>3, <1>4, <1>5 DEF Next, Today

(* What is closed is never written again, nor reopened by a goroutine that  *)
(* writes "open" on what it read before (utils.go:283-336): for every       *)
(* workflow, with delegations in chains or circles and the daily loop, when *)
(* every call waits until nobody is at work and no UPDATE is refused.       *)
THEOREM ClosedKeptCorrect ==
    ASSUME Alone = Calls, ~UpdatesMayFail
    PROVE  Spec => ClosedKept
<1>1. Init => IInv /\ Turnwise /\ Single /\ Placed /\ Sorted
  BY Starts, InitSingle, InitPlaced, InitSorted
<1>2. IInv /\ Turnwise /\ Single /\ Placed /\ Sorted /\ [Next]_vars
         => (IInv /\ Turnwise /\ Single /\ Placed /\ Sorted)'
  BY Keeps, NextSingle, NextPlaced, NextSorted
<1>3. IInv /\ Turnwise /\ Placed /\ Sorted /\ [Next]_vars
         => [\A t \in TaskIds : IsClosed(t) => task'[t] = task[t]]_vars
  <2> SUFFICES ASSUME IInv, Turnwise, Placed, Sorted, [Next]_vars, NEW t \in TaskIds, IsClosed(t)
               PROVE  task'[t] = task[t]
    OBVIOUS
  <2>1. t \in Made /\ ~IsOpen(t)  BY ExistsMade DEF IsClosed, IsOpen, Exists
  <2> QED  BY <2>1, OnlyOpen
<1> QED  BY <1>1, <1>2, <1>3, PTL DEF Spec, ClosedKept

----------------------------------------------------------------------------
(***************************************************************************)
(* What is closed together.  What a closed task is bound to is not open,   *)
(* and one that others are bound to is not closed alone, unless the call   *)
(* that closed it has still to go up (Rises) or down (Falls) from it.  A   *)
(* goroutine that writes "open" binds open tasks to the task it goes out   *)
(* from: that one is open, or has a closed task bound to it already.       *)
(***************************************************************************)
HasLeaf(o) == \E s \in TaskIds : Exists(s) /\ Bound(s, o)
ShutBelow(o) == \E s \in TaskIds : IsClosed(s) /\ Bound(s, o)
Awaits(t) == \E h \in Handlers : handler[h].pc \in {"reread", "read"} /\ handler[h].task = t
Rises(t) == Awaits(t) \/ \E p \in spreading : p.closes /\ p.task = t /\ p.pc \in {"up", "upWrite"}
Falls(t) == Awaits(t) \/ \E p \in spreading : p.closes /\ p.task = t
Echoing(t) == \E p \in spreading : ~p.closes /\ p.task = t

UpShut(t) == task[t].bound # 0 => ~IsOpen(task[t].bound) \/ Rises(t)
DownShut(t) == Root(t) /\ HasLeaf(t) => ShutBelow(t) \/ Falls(t)
EchoShut(t) == Root(t) /\ Echoing(t) => ShutBelow(t)
ShutTask(t) == UpShut(t) /\ DownShut(t) /\ EchoShut(t)
Shut == \A t \in TaskIds : IsClosed(t) => ShutTask(t)

LEMMA InitShut == ASSUME Init PROVE Shut
BY DEF Init, Shut, IsClosed, NoTask

(* A task that was closed before the step.                                  *)
LEMMA ShutKept ==
    ASSUME NEW t \in TaskIds, ShutTask(t), task'[t] = task[t],
           \A s \in TaskIds : IsClosed(s) => task'[s] = task[s],
           task[t].bound # 0 /\ task'[task[t].bound].state = "open" => IsOpen(task[t].bound),
           HasLeaf(t)' => HasLeaf(t) \/ Echoing(t) \/ ShutBelow(t)',
           Rises(t) => Rises(t)' \/ task[t].bound = 0 \/ task'[task[t].bound].state # "open",
           Falls(t) => Falls(t)' \/ ~HasLeaf(t)' \/ ShutBelow(t)',
           Echoing(t)' => Echoing(t)
    PROVE  ShutTask(t)'
<1>1. ShutBelow(t) => ShutBelow(t)'  BY DEF ShutBelow, IsClosed, Bound
<1>2. Root(t)' <=> Root(t)  BY DEF Root
<1>3. UpShut(t)'  BY DEF ShutTask, UpShut, IsOpen
<1>4. DownShut(t)'  BY <1>1, <1>2 DEF ShutTask, DownShut, EchoShut
<1>5. EchoShut(t)'  BY <1>1, <1>2 DEF ShutTask, EchoShut
<1> QED  BY <1>3, <1>4, <1>5 DEF ShutTask

----------------------------------------------------------------------------
(* The steps beside the runs open no row again, bind rows to open ones, and *)
(* close the one that a call is about.                                      *)
Quiet == \A s \in TaskIds :
    /\ task'[s].state = "open" => IsOpen(s) \/ s \notin Made
    /\ task'[s].state # "none" => \/ Exists(s) /\ task'[s].bound = task[s].bound
                                  \/ task'[s].bound = 0
                                  \/ IsOpen(task'[s].bound)
    /\ task'[s].state = "closed" => \/ IsClosed(s)
                                    \/ \E h \in Handlers : UpdateTask(h) /\ s = handler[h].task

LEMMA SameQuiet == ASSUME UNCHANGED task PROVE Quiet
BY DEF Quiet, IsOpen, Exists, IsClosed

LEMMA AddedQuiet ==
    ASSUME NEW n \in TaskIds, n \notin Made, \A t \in TaskIds : t # n => task'[t] = task[t],
           task'[n].state = "open", task'[n].bound = 0 \/ IsOpen(task'[n].bound)
    PROVE  Quiet
BY SMTT(30) DEF Quiet, IsOpen, Exists, IsClosed

LEMMA ProceedQuiet ==
    ASSUME IInv, Sorted, NEW h \in Handlers, Proceed(h)
    PROVE  Quiet
<1>1. CASE InsertTask(h)
  <2>1. PICK x : x = Head(handler[h].todo)  OBVIOUS
  <2>2. PICK row : /\ row = [state |-> "open", request |-> x.request, name |-> x.name, user |-> x.user,
                             bound |-> x.bound, entity |-> Entity[x.name]]
                   /\ AddTask(row)
    BY <1>1, <2>1 DEF InsertTask
  <2>3. PICK b : b = handler[h].bound  OBVIOUS
  <2>4. handler[h].pc = "create" /\ x.kind = "insert"  BY <1>1, <2>1 DEF InsertTask, Does
  <2>5. Fits(x, Mate(b))  BY <2>1, <2>3, <2>4, HeadFits
  <2>6. x.bound = 0 \/ IsOpen(x.bound)  BY <2>4, <2>5 DEF Fits
  <2>7. PICK n \in TaskIds : /\ n = nextTask /\ \A t \in TaskIds : task'[t] = IF t = n THEN row ELSE task[t]
    BY <2>2, AddedRow
  <2>8. n \notin Made  BY <2>7, TaskTable DEF Made
  <2>9. row.state = "open" /\ row.bound = x.bound  BY <2>2
  <2> QED  BY <2>6, <2>7, <2>8, <2>9, AddedQuiet
<1>2. CASE Rebind(h)
  <2>1. PICK x, b : x = Head(handler[h].todo) /\ b = handler[h].bound  OBVIOUS
  <2>2. handler[h].pc = "create" /\ x.kind = "rebind"  BY <1>2, <2>1 DEF Rebind, Does
  <2>3. Fits(x, Mate(b))  BY <2>1, <2>2, HeadFits
  <2>4. IsOpen(x.bound)  BY <2>2, <2>3 DEF Fits
  <2>5. task' = IF Exists(x.task) THEN [task EXCEPT ![x.task].bound = x.bound] ELSE task
    BY <1>2, <2>1 DEF Rebind
  <2>6. ASSUME NEW s \in TaskIds
        PROVE  /\ task'[s].state = task[s].state
               /\ task'[s].bound = task[s].bound \/ task'[s].bound = x.bound
    BY <2>5, TaskTable DEF TaskRow
  <2> QED  BY <2>4, <2>6 DEF Quiet, IsOpen, Exists, IsClosed
<1>3. CASE Plain(h)
  <2>1. ASSUME NEW s \in TaskIds, task'[s] # task[s]
        PROVE  /\ Exists(s) /\ task'[s].state = "closed" /\ task'[s].bound = task[s].bound
               /\ UpdateTask(h) /\ s = handler[h].task
    <3>1. Exists(s) /\ task'[s] = [task[s] EXCEPT !.state = "closed"]  BY <1>3, <2>1, PlainEffect
    <3>2. task[s] \in TaskRow  BY TaskRows
    <3>3. UpdateTask(h)  BY <1>3, <2>1 DEF Plain, RereadTask, ReadRequest, CheckOthers
    <3>4. PICK z : z = handler[h].task  OBVIOUS
    <3>5. task' = task \/ task' = [task EXCEPT ![z].state = "closed"]  BY <3>3, <3>4 DEF UpdateTask
    <3>6. s = z  BY <2>1, <3>5, TaskTable
    <3> QED  BY <3>1, <3>2, <3>3, <3>4, <3>6 DEF TaskRow
  <2> QED  BY <2>1 DEF Quiet, IsOpen, Exists, IsClosed
<1>4. CASE WithdrawCopies(h)
  <2>1. ASSUME NEW s \in TaskIds PROVE task'[s] = task[s] \/ task'[s].state = "none"
    <3>1. task[s] \in TaskRow  BY TaskRows
    <3>2. task'[s] = task[s] \/ task'[s] = [task[s] EXCEPT !.state = "none"]
      BY <1>4 DEF WithdrawCopies
    <3> QED  BY <3>1, <3>2 DEF TaskRow
  <2> QED  BY <2>1 DEF Quiet, IsOpen, Exists, IsClosed
<1>5. CASE UNCHANGED task  BY <1>5, SameQuiet
<1> QED
  BY <1>1, <1>2, <1>3, <1>4, <1>5
  DEF Proceed, Plain, FindTask, InsertFails, GiveOwner, GiveDelegates, FindShare, AddShare,
      AdvanceRequest, Trigger, DeleteShares, FindRivals

LEMMA CopyQuiet ==
    ASSUME IInv, Sorted, CopyStep
    PROVE  Quiet
<1>1. CASE UNCHANGED task  BY <1>1, SameQuiet
<1>2. ASSUME NEW c \in copying, NEW n \in TaskIds, n \notin Made,
             \A t \in TaskIds : t # n => task'[t] = task[t],
             task'[n].state = "open", task'[n].bound = c.task
      PROVE  Quiet
  <2>1. IsOpen(c.task)  BY DEF Sorted
  <2> QED  BY <1>2, <2>1, AddedQuiet
<1> QED  BY <1>1, <1>2, CopyIs

LEMMA CallQuiet ==
    ASSUME IInv, Alone = Calls, NEW h \in Handlers, Call(h)
    PROVE  Quiet
<1>1. UNCHANGED task  BY CallIs DEF Light, OpenRequest
<1> QED  BY <1>1, SameQuiet

(* What a task waits for, it waits for until its own run takes over.        *)
Waits == \A t \in TaskIds : IsClosed(t) => /\ Rises(t) => Rises(t)'
                                           /\ Falls(t) => Falls(t)'
                                           /\ Echoing(t)' => Echoing(t)

LEMMA SameWaits ==
    ASSUME spreading' = spreading,
           \A g \in Handlers : handler[g].pc \in {"reread", "read"} =>
              \/ handler'[g].pc \in {"reread", "read"} /\ handler'[g].task = handler[g].task
              \/ handler[g].pc = "reread" /\ ~IsClosed(handler[g].task)
    PROVE  Waits
<1>1. ASSUME NEW t \in TaskIds, IsClosed(t), Awaits(t) PROVE Awaits(t)'
  BY <1>1 DEF Awaits
<1> QED  BY <1>1 DEF Waits, Rises, Falls, Echoing

LEMMA RowWaits ==
    ASSUME IInv, spreading' = spreading, NEW h \in Handlers, handler[h].pc \notin {"reread", "read"},
           NEW m, handler' = [handler EXCEPT ![h] = m]
    PROVE  Waits
<1>0. handler' = [handler EXCEPT ![h] = m]  OBVIOUS
<1>1. \A g \in Handlers : handler'[g] = IF g = h THEN m ELSE handler[g]
  BY ONLY IInv, <1>0, OneRow
<1> QED  BY <1>1, SameWaits

LEMMA PlainWaits ==
    ASSUME IInv, Turnwise, NEW h \in Handlers, Plain(h)
    PROVE  Waits
<1>1. /\ \A g \in Handlers : g # h => handler'[g] = handler[g]
      /\ handler[h].pc \in {"update", "reread", "read", "others"}
  BY PlainEffect
<1>2. handler \in [Handlers -> HandlerRow] /\ handler[h] \in HandlerRow  BY TaskRows DEF IInv, TypeOK
<1>3. CASE ReadRequest(h)
  <2>1. PICK x, b : x = handler[h].task /\ b = handler[h].bound  OBVIOUS
  <2>2. PICK p : p = Run(x, b, TRUE, h) /\ spreading' = spreading \cup {p}
    BY <1>3, <2>1 DEF ReadRequest
  <2>3. p.closes /\ p.task = x /\ p.pc = "up"  BY <2>2 DEF Run
  <2>4. handler[h].pc = "read" /\ \A g \in Handlers : g # h => handler[g].pc = "idle"
    BY <1>3 DEF ReadRequest, Turnwise, Busy
  <2>5. \A t \in TaskIds : Awaits(t) => t = x  BY <2>1, <2>4 DEF Awaits
  <2>6. ASSUME NEW t \in TaskIds, Rises(t) PROVE Rises(t)'
    BY <2>2, <2>3, <2>5, <2>6 DEF Rises
  <2>7. ASSUME NEW t \in TaskIds, Falls(t) PROVE Falls(t)'
    BY <2>2, <2>3, <2>5, <2>7 DEF Falls
  <2>8. ASSUME NEW t \in TaskIds, Echoing(t)' PROVE Echoing(t)
    BY <2>2, <2>3, <2>8 DEF Echoing
  <2> QED  BY <2>6, <2>7, <2>8 DEF Waits
<1>4. CASE RereadTask(h)
  <2>1. PICK x : x = handler[h].task  OBVIOUS
  <2>2. handler[h].pc = "reread" /\ spreading' = spreading  BY <1>4 DEF RereadTask
  <2>3. IsClosed(x) => handler'[h].pc = "read" /\ handler'[h].task = x
    <3>1. PICK b : b = task[x].bound  OBVIOUS
    <3>2. IsClosed(x) => ~IsOpen(x) /\ Exists(x)  BY DEF IsClosed, IsOpen, Exists
    <3>3. IsClosed(x) => handler' = [handler EXCEPT ![h] = [handler[h] EXCEPT !.pc = "read", !.bound = b]]
      BY <1>4, <1>2, <2>1, <3>1, <3>2 DEF RereadTask
    <3> QED  BY <1>2, <2>1, <3>3 DEF HandlerRow
  <2> QED  BY <1>1, <2>1, <2>2, <2>3, SameWaits
<1>5. CASE UpdateTask(h) \/ CheckOthers(h)
  <2>1. spreading' = spreading /\ handler[h].pc \notin {"reread", "read"}
    BY <1>5 DEF UpdateTask, CheckOthers
  <2> QED  BY <1>1, <2>1, SameWaits
<1> QED  BY <1>3, <1>4, <1>5 DEF Plain

LEMMA ProceedWaits ==
    ASSUME IInv, Turnwise, NEW h \in Handlers, Proceed(h)
    PROVE  Waits
<1>0. ASSUME NEW items, handler[h].pc = "create", Replace(h, items), spreading' = spreading PROVE Waits
  <2>1. PICK m : m = Doing(handler[h], items \o Tail(handler[h].todo))  OBVIOUS
  <2>2. handler' = [handler EXCEPT ![h] = m]  BY <1>0, <2>1 DEF Replace
  <2> QED  BY <1>0, <2>2, RowWaits
<1>1. CASE \/ FindTask(h) \/ InsertFails(h) \/ GiveOwner(h) \/ GiveDelegates(h) \/ FindShare(h)
           \/ AddShare(h) \/ InsertTask(h) \/ Rebind(h)
  <2>1. handler[h].pc = "create" /\ spreading' = spreading /\ \E items : Replace(h, items)
    BY <1>1, ZenonT(30) DEF FindTask, InsertFails, GiveOwner, GiveDelegates, FindShare, AddShare, InsertTask,
                Rebind, Does
  <2> QED  BY <1>0, <2>1
<1>2. CASE AdvanceRequest(h) \/ Trigger(h) \/ DeleteShares(h) \/ FindRivals(h) \/ WithdrawCopies(h)
  <2>1. /\ handler[h].pc \notin {"reread", "read"} /\ spreading' = spreading
        /\ \E m : handler' = [handler EXCEPT ![h] = m]
    <3>1. CASE AdvanceRequest(h)  BY <3>1 DEF AdvanceRequest
    <3>2. CASE Trigger(h)  BY <3>2 DEF Trigger
    <3>3. CASE DeleteShares(h)
      <4>1. PICK m : m = [handler[h] EXCEPT !.pc = "rivals"]  OBVIOUS
      <4>2. handler' = [handler EXCEPT ![h] = m]  BY <3>3, <4>1 DEF DeleteShares
      <4> QED  BY <3>3, <4>2 DEF DeleteShares
    <3>4. CASE FindRivals(h)
      <4>1. PICK m : m = IF Rivals(handler[h].delegation) # {} THEN Idle
                         ELSE [handler[h] EXCEPT !.pc = "withdraw"]
        OBVIOUS
      <4>2. handler' = [handler EXCEPT ![h] = m]  BY <3>4, <4>1 DEF FindRivals
      <4> QED  BY <3>4, <4>2 DEF FindRivals
    <3>5. CASE WithdrawCopies(h)  BY <3>5 DEF WithdrawCopies
    <3> QED  BY <1>2, <3>1, <3>2, <3>3, <3>4, <3>5
  <2> QED  BY <2>1, RowWaits
<1> QED  BY <1>1, <1>2, PlainWaits DEF Proceed, Plain

LEMMA CallWaits ==
    ASSUME IInv, Alone = Calls, NEW h \in Handlers, Call(h)
    PROVE  Waits
<1>1. CASE Light(h)
  <2>1. handler[h].pc \notin {"reread", "read"} /\ spreading' = spreading  BY <1>1 DEF Light
  <2> QED  BY <1>1, <2>1, RowWaits DEF Light
<1>2. ASSUME NEW u \in Users, NEW r \in RequestIds, OpenRequest(h, u, r), AtRest PROVE Waits
  <2>1. handler[h].pc \notin {"reread", "read"} /\ spreading' = spreading
    BY <1>2 DEF OpenRequest, AtRest
  <2>2. \E m : handler' = [handler EXCEPT ![h] = m]  BY <1>2 DEF OpenRequest
  <2> QED  BY <2>1, <2>2, RowWaits
<1> QED  BY <1>1, <1>2, CallIs

(* A step beside the runs.                                                  *)
LEMMA ShutBeside ==
    ASSUME IInv, Placed, Shut, Quiet, Waits, spreading' = spreading \/ \A h \in Handlers : ~UpdateTask(h),
           \A h \in Handlers : UpdateTask(h) => handler'[h].pc = "reread" /\ handler'[h].task = handler[h].task,
           \A t \in TaskIds : IsClosed(t) => task'[t] = task[t]
    PROVE  Shut'
<1> SUFFICES ASSUME NEW t \in TaskIds, IsClosed(t)' PROVE ShutTask(t)'
  BY DEF Shut
<1>1. CASE IsClosed(t)
  <2>1. ShutTask(t) /\ task'[t] = task[t]  BY <1>1 DEF Shut
  <2>2. t \in Made  BY <1>1, ExistsMade DEF IsClosed, Exists
  <2>3. task[t].bound # 0 => task[t].bound \in Made /\ task[t].bound \in TaskIds
    BY <2>2 DEF IInv, RowsGood, Free, Kin, Made
  <2>4. task[t].bound # 0 /\ task'[task[t].bound].state = "open" => IsOpen(task[t].bound)
    BY <2>3 DEF Quiet
  <2>5. ASSUME HasLeaf(t)' PROVE HasLeaf(t)
    <3>1. PICK s \in TaskIds : task'[s].state # "none" /\ s # t /\ task'[s].bound = t
      BY <2>5 DEF HasLeaf, Exists, Bound
    <3>2. t # 0 /\ ~IsOpen(t)  BY <1>1 DEF IsClosed, IsOpen
    <3>3. Exists(s) /\ task'[s].bound = task[s].bound  BY <3>1, <3>2 DEF Quiet
    <3> QED  BY <3>1, <3>3 DEF HasLeaf, Bound
  <2>6. (Rises(t) => Rises(t)') /\ (Falls(t) => Falls(t)') /\ (Echoing(t)' => Echoing(t))
    BY <1>1 DEF Waits
  <2> QED  BY <2>1, <2>4, <2>5, <2>6, ShutKept
<1>2. CASE ~IsClosed(t)
  <2>1. PICK h \in Handlers : UpdateTask(h) /\ t = handler[h].task  BY <1>2 DEF Quiet, IsClosed
  <2>2. handler'[h].pc = "reread" /\ handler'[h].task = t  BY <2>1
  <2>3. Rises(t)' /\ Falls(t)'  BY <2>2 DEF Rises, Falls, Awaits
  <2>4. spreading' = {}  BY <2>1 DEF Placed, RowPlaced, Silent, UpdateTask
  <2>5. ~Echoing(t)'  BY <2>4 DEF Echoing
  <2> QED  BY <2>3, <2>5 DEF ShutTask, UpShut, DownShut, EchoShut
<1> QED  BY <1>1, <1>2

----------------------------------------------------------------------------
(* A run that writes "open" closes nothing; it may bind open tasks to its   *)
(* own.                                                                     *)
LEMMA ShutEcho ==
    ASSUME IInv, Sorted, Shut, ~UpdatesMayFail, NEW p \in spreading, ~p.closes,
           \/ FindAbove(p) \/ WriteAbove(p) \/ FindBelow(p)
           \/ \E z \in p.rows : WriteBelow(p, z)
    PROVE  Shut'
<1>1. /\ spreading \ {p} \subseteq spreading'
      /\ \A q \in spreading' : \/ q \in spreading
                               \/ q.task = p.task /\ q.closes = p.closes
                               \/ ~q.closes /\ IsOpen(q.task) /\ q.task \in TaskIds
  BY RunStep
<1>2. \A t \in TaskIds :
         \/ task'[t] = task[t]
         \/ /\ IsOpen(t) /\ task'[t].state = "open"
            /\ task'[t].bound = t \/ task'[t].bound = p.task
  BY RunStep
<1>3. p.by = NoHandler  BY DEF Sorted, RunOpen
<1>4. UNCHANGED handler  BY <1>3, RunStep
<1>5. \A t \in TaskIds : IsClosed(t) => task'[t] = task[t]  BY <1>2 DEF IsClosed, IsOpen
<1> SUFFICES ASSUME NEW t \in TaskIds, IsClosed(t)' PROVE ShutTask(t)'
  BY DEF Shut
<1>6. IsClosed(t)  BY <1>2 DEF IsClosed
<1>7. ShutTask(t) /\ task'[t] = task[t]  BY <1>5, <1>6 DEF Shut
<1>8. t \in Made  BY <1>6, ExistsMade DEF IsClosed, Exists
<1>9. task[t].bound # 0 => task[t].bound \in TaskIds  BY <1>8 DEF IInv, RowsGood, Free, Kin, Made
<1>10. task[t].bound # 0 /\ task'[task[t].bound].state = "open" => IsOpen(task[t].bound)
  BY <1>2, <1>9 DEF IsOpen
<1>11. ASSUME HasLeaf(t)' PROVE HasLeaf(t) \/ Echoing(t)
  <2>1. PICK s \in TaskIds : task'[s].state # "none" /\ s # t /\ task'[s].bound = t
    BY <1>11 DEF HasLeaf, Exists, Bound
  <2>2. CASE task'[s] = task[s]  BY <2>1, <2>2 DEF HasLeaf, Exists, Bound
  <2>3. CASE p.task = t  BY <2>3 DEF Echoing
  <2> QED  BY <1>2, <2>1, <2>2, <2>3
<1>12. Awaits(t)' <=> Awaits(t)  BY <1>4 DEF Awaits
<1>13. (Rises(t) => Rises(t)') /\ (Falls(t) => Falls(t)')  BY <1>1, <1>12 DEF Rises, Falls
<1>14. ASSUME Echoing(t)' PROVE Echoing(t)
  <2>1. PICK q \in spreading' : ~q.closes /\ q.task = t  BY <1>14 DEF Echoing
  <2>2. ~IsOpen(t)  BY <1>6 DEF IsClosed, IsOpen
  <2> QED  BY <1>1, <2>1, <2>2 DEF Echoing
<1> QED  BY <1>7, <1>5, <1>10, <1>11, <1>13, <1>14, ShutKept

(* The call's own run, from the task x just closed.                         *)
LEMMA ShutOwn ==
    ASSUME IInv, Turnwise, Sorted, Shut, ~UpdatesMayFail, NEW p \in spreading, p.closes,
           \/ FindAbove(p) \/ WriteAbove(p) \/ FindBelow(p)
           \/ \E z \in p.rows : WriteBelow(p, z)
    PROVE  Shut'
<1>1. /\ spreading \ {p} \subseteq spreading'
      /\ \A q \in spreading' : \/ q \in spreading
                               \/ q.task = p.task /\ q.closes = p.closes
                               \/ ~q.closes /\ IsOpen(q.task) /\ q.task \in TaskIds
  BY RunStep
<1>2. \A t \in TaskIds :
         \/ task'[t] = task[t]
         \/ /\ IsOpen(t) /\ task'[t].state = "closed"
            /\ \/ task'[t].bound = t /\ t = p.bound /\ p.pc = "upWrite"
               \/ task'[t].bound = p.task /\ t \in p.rows
  BY RunStep
<1>3. PICK x : x = p.task  OBVIOUS
<1>4. /\ p.by \in Handlers /\ handler[p.by].pc = "spread"
      /\ IsClosed(x) /\ p.bound = task[x].bound
      /\ \A q \in spreading : q.closes => q = p
  BY <1>3, Own
<1>5. x \in TaskIds /\ p \in Spread  BY <1>3, RunRows
<1>6. \A t \in TaskIds : IsClosed(t) => task'[t] = task[t]  BY <1>2 DEF IsClosed, IsOpen
<1>7. \A t : ~Awaits(t)  BY <1>4 DEF Awaits, Turnwise, Busy
<1>8. OwnRun(p)  BY DEF Sorted
<1> SUFFICES ASSUME NEW t \in TaskIds, IsClosed(t)' PROVE ShutTask(t)'
  BY DEF Shut
<1>9. CASE ~IsClosed(t)
  <2>1. /\ IsOpen(t) /\ \/ task'[t].bound = t /\ t = p.bound
                        \/ task'[t].bound = x /\ t \in p.rows
    BY <1>2, <1>3, <1>9 DEF IsClosed
  <2>2. x # t  BY <1>4, <1>9
  <2>3. task'[x] = task[x] /\ task'[x].state = "closed"  BY <1>4, <1>5, <1>6 DEF IsClosed
  <2>4. UpShut(t)'  BY <1>9, <2>1, <2>3 DEF UpShut, IsOpen, IsClosed
  <2>5. CASE task'[t].bound = x
    <3>1. t \in TaskIds /\ x # 0 /\ ~Root(t)'  BY <2>2, <2>5, <1>5 DEF Root
    <3> QED  BY <2>4, <3>1 DEF ShutTask, DownShut, EchoShut
  <2>6. CASE t = p.bound
    <3>1. task'[x].bound = t  BY <1>4, <2>3, <2>6
    <3>2. ShutBelow(t)'  BY <1>5, <2>2, <2>3, <3>1 DEF ShutBelow, IsClosed, Bound
    <3> QED  BY <2>4, <3>2 DEF ShutTask, DownShut, EchoShut
  <2> QED  BY <2>1, <2>5, <2>6
<1>10. CASE IsClosed(t)
  <2>1. ShutTask(t) /\ task'[t] = task[t]  BY <1>6, <1>10 DEF Shut
  <2>2. t \in Made  BY <1>10, ExistsMade DEF IsClosed, Exists
  <2>3. task[t].bound # 0 => task[t].bound \in TaskIds  BY <2>2 DEF IInv, RowsGood, Free, Kin, Made
  <2>4. task[t].bound # 0 /\ task'[task[t].bound].state = "open" => IsOpen(task[t].bound)
    BY <1>2, <2>3 DEF IsOpen
  <2>5. ASSUME HasLeaf(t)' PROVE HasLeaf(t)
    <3>1. PICK s \in TaskIds : task'[s].state # "none" /\ s # t /\ task'[s].bound = t
      BY <2>5 DEF HasLeaf, Exists, Bound
    <3>2. CASE task'[s] = task[s]  BY <3>1, <3>2 DEF HasLeaf, Exists, Bound
    <3>3. CASE task'[s].bound = x /\ s \in p.rows /\ IsOpen(s)
      <4>1. task[s].bound = x /\ x = t  BY <1>3, <1>8, <3>1, <3>3 DEF OwnRun
      <4> QED  BY <3>1, <3>3, <4>1 DEF HasLeaf, Exists, Bound, IsOpen
    <3> QED  BY <1>2, <1>3, <3>1, <3>2, <3>3
  <2>6. ASSUME Echoing(t)' PROVE Echoing(t)
    <3>1. PICK q \in spreading' : ~q.closes /\ q.task = t  BY <2>6 DEF Echoing
    <3>2. ~IsOpen(t)  BY <1>10 DEF IsClosed, IsOpen
    <3> QED  BY <1>1, <3>1, <3>2 DEF Echoing
  <2>7. ASSUME Rises(t) PROVE Rises(t)' \/ task[t].bound = 0 \/ task'[task[t].bound].state # "open"
    <3>1. t = x /\ p.pc \in {"up", "upWrite"} /\ task[t].bound = p.bound
      BY <1>3, <1>4, <1>7, <2>7 DEF Rises
    <3>2. CASE FindAbove(p)
      <4>1. PICK a : a = task[p.bound].bound  OBVIOUS
      <4>2. CASE p.bound # 0 /\ IsOpen(p.bound)
        <5>1. PICK q : q = [p EXCEPT !.pc = "upWrite", !.above = a]  OBVIOUS
        <5>2. q \in spreading'  BY <3>2, <4>1, <4>2, <5>1 DEF FindAbove, Becomes
        <5>3. q.closes /\ q.task = x /\ q.pc = "upWrite"  BY <1>3, <1>5, <5>1 DEF Spread
        <5> QED  BY <3>1, <5>2, <5>3 DEF Rises
      <4>3. CASE ~(p.bound # 0 /\ IsOpen(p.bound))
        BY <2>4, <3>1, <4>3
      <4> QED  BY <4>2, <4>3
    <3>3. CASE WriteAbove(p)
      <4>1. IsOpen(p.bound) /\ p.bound \in TaskIds
        BY <3>3, RunRows DEF WriteAbove, Sorted, RunOpen, IInv, RunsGood, GoodSpread
      <4>2. task'[p.bound].state = "closed"  BY <3>3, <4>1, WriteIs DEF WriteAbove
      <4> QED  BY <3>1, <4>2
    <3> QED  BY <3>1, <3>2, <3>3 DEF FindBelow, WriteBelow
  <2>8. ASSUME Falls(t) PROVE Falls(t)' \/ ~HasLeaf(t)' \/ ShutBelow(t)'
    <3>1. t = x  BY <1>3, <1>4, <1>7, <2>8 DEF Falls
    <3>2. ASSUME NEW q \in spreading', q.closes, q.task = p.task PROVE Falls(t)'
      BY <1>3, <3>1, <3>2 DEF Falls
    <3>3. CASE FindAbove(p)
      <4>1. PICK a : a = task[p.bound].bound  OBVIOUS
      <4>2. PICK q \in {[p EXCEPT !.pc = "upWrite", !.above = a], [p EXCEPT !.pc = "down"]} : q \in spreading'
        BY <3>3, <4>1 DEF FindAbove, Becomes
      <4>3. q.closes /\ q.task = p.task  BY <1>5, <4>2 DEF Spread
      <4> QED  BY <3>2, <4>2, <4>3
    <3>4. CASE WriteAbove(p)
      <4>1. PICK q : q = [p EXCEPT !.pc = "down"]  OBVIOUS
      <4>2. q \in spreading'  BY <3>4, <4>1 DEF WriteAbove
      <4>3. q.closes /\ q.task = p.task  BY <1>5, <4>1 DEF Spread
      <4> QED  BY <3>2, <4>2, <4>3
    <3>5. CASE FindBelow(p)
      <4>1. CASE Below(p) = {}
        <5>1. ASSUME HasLeaf(t) PROVE ShutBelow(t)
          <6>1. PICK s \in TaskIds : Exists(s) /\ s # t /\ task[s].bound = t
            BY <5>1 DEF HasLeaf, Bound
          <6>2. ~IsOpen(s)  BY <1>3, <3>1, <4>1, <6>1 DEF Below
          <6>3. task[s] \in TaskRow  BY TaskRows
          <6>4. IsClosed(s)  BY <6>1, <6>2, <6>3 DEF IsClosed, IsOpen, Exists, TaskRow
          <6> QED  BY <6>1, <6>4 DEF ShutBelow, Bound
        <5>2. ShutBelow(t) => ShutBelow(t)'  BY <1>6 DEF ShutBelow, IsClosed, Bound
        <5> QED  BY <2>5, <5>1, <5>2
      <4>2. CASE Below(p) # {}
        <5>1. PICK q : q = [p EXCEPT !.pc = "downWrite", !.rows = Below(p)]  OBVIOUS
        <5>2. q \in spreading'  BY <3>5, <4>2, <5>1 DEF FindBelow, Becomes
        <5>3. q.closes /\ q.task = p.task  BY <1>5, <5>1 DEF Spread
        <5> QED  BY <3>2, <5>2, <5>3
      <4> QED  BY <4>1, <4>2
    <3>6. ASSUME NEW z \in p.rows, WriteBelow(p, z) PROVE ShutBelow(t)'
      <4>1. IsOpen(z) /\ z \in TaskIds  BY RunRows DEF Sorted, RunOpen
      <4>2. task'[z].bound = p.task /\ task'[z].state = "closed"
        BY <3>6, <4>1, WriteIs DEF WriteBelow
      <4>3. z # t  BY <1>10, <4>1 DEF IsOpen, IsClosed
      <4> QED  BY <1>3, <3>1, <4>1, <4>2, <4>3 DEF ShutBelow, IsClosed, Bound
    <3> QED  BY <3>3, <3>4, <3>5, <3>6
  <2> QED  BY <1>6, <2>1, <2>4, <2>5, <2>6, <2>7, <2>8, ShutKept
<1> QED  BY <1>9, <1>10

LEMMA NextShut ==
    ASSUME IInv, Turnwise, Placed, Sorted, Shut, Alone = Calls, ~UpdatesMayFail, [Next]_vars
    PROVE  Shut'
<1>0. \A t \in TaskIds : IsClosed(t) => task'[t] = task[t]
  <2> SUFFICES ASSUME NEW t \in TaskIds, IsClosed(t) PROVE task'[t] = task[t]  OBVIOUS
  <2>1. t \in Made /\ ~IsOpen(t)  BY ExistsMade DEF IsClosed, IsOpen, Exists
  <2> QED  BY <2>1, OnlyOpen
<1>1. CASE SpreadStep
  <2>1. PICK p \in spreading : \/ FindAbove(p) \/ WriteAbove(p) \/ FindBelow(p)
                               \/ \E t \in p.rows : WriteBelow(p, t)
    BY <1>1 DEF SpreadStep
  <2> QED  BY <2>1, ShutEcho, ShutOwn
<1>2. ASSUME NEW h \in Handlers, UpdateTask(h)
      PROVE  /\ handler'[h].pc = "reread" /\ handler'[h].task = handler[h].task
             /\ spreading' = spreading
  <2>1. handler[h] \in HandlerRow /\ handler \in [Handlers -> HandlerRow]
    BY TaskRows DEF IInv, TypeOK
  <2> QED  BY <1>2, <2>1 DEF UpdateTask, HandlerRow
<1>3. ASSUME Quiet, Waits PROVE Shut'
  BY <1>0, <1>2, <1>3, ShutBeside
<1>4. ASSUME UNCHANGED <<task, handler, spreading>> PROVE Quiet /\ Waits
  BY <1>4, SameQuiet, SameWaits
<1>5. ASSUME NEW h \in Handlers, Call(h) \/ Proceed(h) PROVE Shut'
  BY <1>3, <1>5, CallQuiet, CallWaits, ProceedQuiet, ProceedWaits
<1>6. CASE CopyStep
  <2>1. UNCHANGED <<handler, spreading>>  BY <1>6, CopyRest
  <2> QED  BY <1>3, <1>6, <2>1, CopyQuiet, SameWaits
<1>7. ASSUME NEW d \in DelegationIds, NEW w, Today(d, w) PROVE Shut'
  BY <1>3, <1>4, <1>7 DEF Today
<1>8. CASE UNCHANGED vars  BY <1>3, <1>4, <1>8 DEF vars
<1> QED  BY <1>1, <1>5, <1>6, <1>7, <1>8 DEF Next

(* When nobody is at work, what a closed task is bound to is not open, and  *)
(* a task that is bound to no other is never closed alone, without one of   *)
(* those bound to it (UpdateDelegated, utils.go:283-336): for every         *)
(* workflow and whoever delegates to whom, when every call waits until      *)
(* nobody is at work and no UPDATE is refused.                              *)
THEOREM ClosingSpreadsCorrect ==
    ASSUME Alone = Calls, ~UpdatesMayFail
    PROVE  Spec => []ClosingSpreads
<1>1. Init => IInv /\ Turnwise /\ Single /\ Placed /\ Sorted /\ Shut
  BY Starts, InitSingle, InitPlaced, InitSorted, InitShut
<1>2. IInv /\ Turnwise /\ Single /\ Placed /\ Sorted /\ Shut /\ [Next]_vars
         => (IInv /\ Turnwise /\ Single /\ Placed /\ Sorted /\ Shut)'
  BY Keeps, NextSingle, NextPlaced, NextSorted, NextShut
<1>3. Shut => ClosingSpreads
  <2> SUFFICES ASSUME Shut, AtRest, NEW t \in TaskIds, IsClosed(t)
               PROVE  /\ task[t].bound # 0 => ~IsOpen(task[t].bound)
                      /\ Root(t) /\ HasLeaf(t) => ShutBelow(t)
    BY DEF ClosingSpreads, HasLeaf, ShutBelow
  <2>1. ~Rises(t) /\ ~Falls(t)  BY DEF AtRest, Rises, Falls, Awaits
  <2> QED  BY <2>1 DEF Shut, ShutTask, UpShut, DownShut
<1> QED  BY <1>1, <1>2, <1>3, PTL DEF Spec

----------------------------------------------------------------------------
(***************************************************************************)
(* What is left behind.  When a call moves its request on, what it closed  *)
(* has nothing open bound to it and is bound to nothing open, and all that *)
(* is open belongs to the same step: this task has passed it over.  A      *)
(* goroutine may still bind an open task to another, but not to that one.  *)
(* All of this holds until a request that has ended is walked again.       *)
(***************************************************************************)
Left(t) == \E x \in TaskIds : /\ IsClosed(x) /\ ~Bound(x, t) /\ ~Bound(t, x)
                              /\ task[x].request = task[t].request /\ task[x].name = task[t].name
                              /\ \A g \in spreading : t \in g.rows => g.task # x
Behind(t) == FirstWalk /\ IsOpen(t) /\ Level[task[t].name] # place[task[t].request]
RowLeft(m) ==
    /\ m.pc \in {"others", "advance"} => /\ \A t \in TaskIds : IsOpen(t) => task[t].bound # m.task
                                         /\ \A p \in spreading : p.task # m.task
    /\ m.pc = "advance" => \A t \in TasksOf(task[m.task].request) :
                              IsOpen(t) => task[t].name = task[m.task].name
AllLeft == /\ \A t \in TaskIds : Behind(t) => Left(t)
           /\ \A h \in Handlers : RowLeft(handler[h])

LEMMA InitLeft == ASSUME Init PROVE AllLeft
<1>1. \A t \in TaskIds : ~IsOpen(t)  BY DEF Init, IsOpen, NoTask
<1>2. \A h \in Handlers : handler[h].pc = "idle"  BY DEF Init, Idle
<1> QED  BY <1>1, <1>2 DEF AllLeft, Behind, RowLeft

(* The steps beside the runs leave requests and steps of tasks alone; a new *)
(* task is of the step just reached, or a copy of an open one.              *)
Given == \A s \in TaskIds :
    /\ s \in Made => task'[s].request = task[s].request /\ task'[s].name = task[s].name
    /\ s \notin Made /\ task'[s].state = "open" =>
          \/ FirstWalk => place[task'[s].request] = Level[task'[s].name]
          \/ \E o \in Made : /\ IsOpen(o) /\ task'[s].bound = o
                             /\ task'[s].request = task[o].request /\ task'[s].name = task[o].name

LEMMA SameGiven == ASSUME IInv, UNCHANGED task PROVE Given
BY DEF Given, IInv, RowsGood, NoTask

LEMMA ThinGiven == ASSUME IInv, Thin PROVE Given
BY DEF Given, Thin, IInv, RowsGood, NoTask, Exists

LEMMA ProceedGiven ==
    ASSUME IInv, Placed, NEW h \in Handlers, Proceed(h)
    PROVE  Given
<1>1. CASE InsertTask(h)
  <2>1. PICK x : x = Head(handler[h].todo)  OBVIOUS
  <2>2. PICK row : /\ row = [state |-> "open", request |-> x.request, name |-> x.name, user |-> x.user,
                             bound |-> x.bound, entity |-> Entity[x.name]]
                   /\ AddTask(row)
    BY <1>1, <2>1 DEF InsertTask
  <2>3. handler[h].pc = "create"  BY <1>1 DEF InsertTask, Does
  <2>4. FirstWalk => place[x.request] = Level[x.name]  BY <2>1, <2>3, HeadPlaced DEF NewStep
  <2>5. PICK n \in TaskIds : /\ n = nextTask /\ \A t \in TaskIds : task'[t] = IF t = n THEN row ELSE task[t]
    BY <2>2, AddedRow
  <2>6. n \notin Made  BY <2>5, TaskTable DEF Made
  <2>7. row.request = x.request /\ row.name = x.name  BY <2>2
  <2> QED  BY <2>4, <2>5, <2>6, <2>7 DEF Given, IInv, RowsGood, NoTask
<1>2. CASE Rebind(h)
  <2>1. PICK x : x = Head(handler[h].todo)  OBVIOUS
  <2>2. task' = IF Exists(x.task) THEN [task EXCEPT ![x.task].bound = x.bound] ELSE task
    BY <1>2, <2>1 DEF Rebind
  <2>3. \A s \in TaskIds : /\ task'[s].request = task[s].request /\ task'[s].name = task[s].name
                           /\ task'[s].user = task[s].user /\ task'[s].state = task[s].state
    BY <2>2, TaskTable DEF TaskRow
  <2>4. Thin  BY <2>3 DEF Thin, Exists
  <2> QED  BY <2>4, ThinGiven
<1>3. CASE Plain(h)
  <2>1. ASSUME NEW s \in TaskIds
        PROVE  /\ task'[s].request = task[s].request /\ task'[s].name = task[s].name
               /\ task'[s].user = task[s].user /\ (task'[s].state # "none" => Exists(s))
    <3>1. task'[s] = task[s] \/ (Exists(s) /\ task'[s] = [task[s] EXCEPT !.state = "closed"])
      BY <1>3, PlainEffect
    <3>2. task[s] \in TaskRow  BY TaskRows
    <3> QED  BY <3>1, <3>2 DEF TaskRow, Exists
  <2>2. Thin  BY <2>1 DEF Thin
  <2> QED  BY <2>2, ThinGiven
<1>4. CASE WithdrawCopies(h)
  <2>1. ASSUME NEW s \in TaskIds
        PROVE  /\ task'[s].request = task[s].request /\ task'[s].name = task[s].name
               /\ task'[s].user = task[s].user /\ (task'[s].state # "none" => Exists(s))
    <3>1. task[s] \in TaskRow  BY TaskRows
    <3>2. task'[s] = task[s] \/ task'[s] = [task[s] EXCEPT !.state = "none"]
      BY <1>4 DEF WithdrawCopies
    <3> QED  BY <3>1, <3>2 DEF TaskRow, Exists
  <2>2. Thin  BY <2>1 DEF Thin
  <2> QED  BY <2>2, ThinGiven
<1>5. CASE UNCHANGED task  BY <1>5, SameGiven
<1> QED
  BY <1>1, <1>2, <1>3, <1>4, <1>5
  DEF Proceed, Plain, FindTask, InsertFails, GiveOwner, GiveDelegates, FindShare, AddShare,
      AdvanceRequest, Trigger, DeleteShares, FindRivals

LEMMA CopyGiven ==
    ASSUME IInv, Sorted, CopyStep
    PROVE  Given
<1>1. CASE UNCHANGED task  BY <1>1, SameGiven
<1>2. ASSUME NEW c \in copying, NEW n \in TaskIds, n \notin Made, c.task \in Made,
             \A t \in TaskIds : t # n => task'[t] = task[t], task'[n].bound = c.task,
             task'[n].request = task[c.task].request, task'[n].name = task[c.task].name
      PROVE  Given
  <2>1. IsOpen(c.task)  BY DEF Sorted
  <2>2. ASSUME NEW s \in TaskIds, s \notin Made, s # n PROVE task'[s].state # "open"
    BY <1>2, <2>2 DEF IInv, RowsGood, NoTask
  <2> QED  BY <1>2, <2>1, <2>2 DEF Given
<1> QED  BY <1>1, <1>2, CopyIs

(* A task that was open and left before the step.                           *)
LEMMA LeftKept ==
    ASSUME NEW t \in TaskIds, Left(t),
           task'[t].request = task[t].request, task'[t].name = task[t].name,
           \A s \in TaskIds : IsClosed(s) => task'[s] = task[s],
           \A x \in TaskIds : /\ IsClosed(x) /\ Bound(t, x)' => \/ Bound(t, x)
                                                                \/ \E g \in spreading : t \in g.rows /\ g.task = x,
           \A q \in spreading' : t \in q.rows =>
              \/ \E g \in spreading : g.task = q.task /\ t \in g.rows
              \/ Bound(t, q.task)
              \/ q.task = t
    PROVE  Left(t)' \/ IsClosed(t)
<1> SUFFICES ASSUME ~IsClosed(t) PROVE Left(t)'  OBVIOUS
<1>1. PICK x \in TaskIds : /\ IsClosed(x) /\ ~Bound(x, t) /\ ~Bound(t, x)
                           /\ task[x].request = task[t].request /\ task[x].name = task[t].name
                           /\ \A g \in spreading : t \in g.rows => g.task # x
  BY DEF Left
<1>2. task'[x] = task[x] /\ IsClosed(x)'  BY <1>1 DEF IsClosed
<1>3. ~Bound(x, t)' /\ ~Bound(t, x)'  BY <1>1, <1>2 DEF Bound
<1>4. ASSUME NEW q \in spreading', t \in q.rows PROVE q.task # x
  BY <1>1, <1>4
<1> QED  BY <1>1, <1>2, <1>3, <1>4 DEF Left

LEMMA LeftBeside ==
    ASSUME IInv, Sorted, AllLeft, Quiet, Given, UNCHANGED <<place, request>>,
           \A t \in TaskIds : IsClosed(t) => task'[t] = task[t],
           \A q \in spreading' : q \in spreading \/ q.rows = {}
    PROVE  \A t \in TaskIds : Behind(t)' => Left(t)'
<1> SUFFICES ASSUME NEW t \in TaskIds, Behind(t)' PROVE Left(t)'  OBVIOUS
<1>0. FirstWalk /\ task'[t].state = "open" /\ Level[task'[t].name] # place[task'[t].request]
  BY DEF Behind, IsOpen, FirstWalk
<1>1. CASE t \in Made
  <2>1. IsOpen(t) /\ task'[t].request = task[t].request /\ task'[t].name = task[t].name
    BY <1>0, <1>1 DEF Quiet, Given
  <2>2. Left(t)  BY <1>0, <2>1 DEF AllLeft, Behind
  <2>3. ASSUME NEW x \in TaskIds, IsClosed(x), Bound(t, x)' PROVE Bound(t, x)
    <3>1. t # x /\ task'[t].bound = x /\ x # 0 /\ ~IsOpen(x)
      BY <2>3 DEF Bound, IsClosed, IsOpen
    <3> QED  BY <1>0, <3>1 DEF Quiet, Bound
  <2>4. ~IsClosed(t)  BY <2>1 DEF IsClosed, IsOpen
  <2> QED  BY <2>1, <2>2, <2>3, <2>4, LeftKept
<1>2. CASE t \notin Made
  <2>1. PICK o \in Made : /\ IsOpen(o) /\ task'[t].bound = o
                          /\ task'[t].request = task[o].request /\ task'[t].name = task[o].name
    BY <1>0, <1>2 DEF Given
  <2>2. Behind(o) /\ o \in TaskIds  BY <1>0, <2>1 DEF Behind, Made
  <2>3. PICK x \in TaskIds : /\ IsClosed(x)
                             /\ task[x].request = task[o].request /\ task[x].name = task[o].name
    BY <2>2 DEF AllLeft, Left
  <2>4. task'[x] = task[x] /\ x \in Made  BY <2>3, ExistsMade DEF IsClosed, Exists
  <2>5. task[x].bound # t  BY <1>2, <2>4 DEF IInv, RowsGood, Free, Kin
  <2>6. x # o  BY <2>1, <2>3 DEF IsOpen, IsClosed
  <2>7. ~Bound(x, t)' /\ ~Bound(t, x)'  BY <2>1, <2>4, <2>5, <2>6 DEF Bound
  <2>8. \A q \in spreading' : t \notin q.rows  BY <1>2, RunRows DEF Kin, Of
  <2> QED  BY <2>1, <2>3, <2>4, <2>7, <2>8 DEF Left, IsClosed
<1> QED  BY <1>1, <1>2

----------------------------------------------------------------------------
(* The rows of the calls, beside the runs.                                  *)
LEMMA LeftRow ==
    ASSUME IInv, NEW h \in Handlers, NEW m, handler' = [handler EXCEPT ![h] = m],
           \A g \in Handlers : g # h => handler[g].pc = "idle", RowLeft(m)'
    PROVE  \A g \in Handlers : RowLeft(handler[g])'
<1>0. handler' = [handler EXCEPT ![h] = m]  OBVIOUS
<1>1. \A g \in Handlers : handler'[g] = IF g = h THEN m ELSE handler[g]
  BY ONLY IInv, <1>0, OneRow
<1>2. ASSUME NEW g \in Handlers PROVE RowLeft(handler[g])'
  <2>1. CASE g = h
    <3>1. handler'[g] = m  BY <1>1, <2>1
    <3> QED  BY <3>1 DEF RowLeft
  <2>2. CASE g # h
    <3>1. handler'[g].pc = "idle"  BY <1>1, <2>2
    <3> QED  BY <3>1 DEF RowLeft
  <2> QED  BY <2>1, <2>2
<1> QED  BY <1>2

LEMMA OtherLeft == ASSUME NEW m, m.pc \notin {"others", "advance"} PROVE RowLeft(m)'
BY DEF RowLeft

LEMMA PlainLeft ==
    ASSUME IInv, Turnwise, AllLeft, NEW h \in Handlers, Plain(h)
    PROVE  \A g \in Handlers : RowLeft(handler[g])'
<1>1. handler[h].pc \in {"update", "reread", "read", "others"}  BY PlainEffect
<1>2. \A g \in Handlers : g # h => handler[g].pc = "idle"  BY <1>1 DEF Turnwise, Busy
<1>3. handler[h] \in HandlerRow  BY TaskRows
<1>4. ASSUME NEW m, handler' = [handler EXCEPT ![h] = m], RowLeft(m)'
      PROVE  \A g \in Handlers : RowLeft(handler[g])'
  BY <1>2, <1>4, LeftRow
<1>5. CASE UpdateTask(h)
  <2>1. PICK m : m = [handler[h] EXCEPT !.pc = "reread"]  OBVIOUS
  <2>2. handler' = [handler EXCEPT ![h] = m]  BY <1>5, <2>1 DEF UpdateTask
  <2>3. m.pc = "reread"  BY <1>3, <2>1 DEF HandlerRow
  <2> QED  BY <1>4, <2>2, <2>3, OtherLeft
<1>6. CASE RereadTask(h)
  <2>1. PICK b : b = task[handler[h].task].bound  OBVIOUS
  <2>2. PICK m : /\ m = Idle \/ m = [handler[h] EXCEPT !.pc = "read", !.bound = b]
                 /\ handler' = [handler EXCEPT ![h] = m]
    BY <1>6, <2>1 DEF RereadTask
  <2>3. m.pc \in {"idle", "read"}
    <3>1. CASE m = Idle  BY <3>1 DEF Idle
    <3>2. CASE m = [handler[h] EXCEPT !.pc = "read", !.bound = b]  BY <1>3, <3>2 DEF HandlerRow
    <3> QED  BY <2>2, <3>1, <3>2
  <2> QED  BY <1>4, <2>2, <2>3, OtherLeft
<1>7. CASE ReadRequest(h)
  <2>1. PICK i : i = place[task[handler[h].task].request]  OBVIOUS
  <2>10. PICK e : e = (request[task[handler[h].task].request].state = "ended")  OBVIOUS
  <2>2. PICK m : m = [handler[h] EXCEPT !.pc = "spread", !.at = i, !.ended = e]  OBVIOUS
  <2>3. handler' = [handler EXCEPT ![h] = m]  BY <1>7, <2>1, <2>10, <2>2 DEF ReadRequest
  <2>4. m.pc = "spread"  BY <1>3, <2>2 DEF HandlerRow
  <2> QED  BY <1>4, <2>3, <2>4, OtherLeft
<1>8. CASE CheckOthers(h)
  <2>1. PICK x : x = handler[h].task  OBVIOUS
  <2>2. handler[h].pc = "others" /\ UNCHANGED <<task, spreading>>  BY <1>8 DEF CheckOthers
  <2>3. RowLeft(handler[h])  BY DEF AllLeft
  <2>4. CASE \E s \in TasksOf(task[x].request) : IsOpen(s) /\ task[s].name # task[x].name
    <3>1. PICK m : m = Idle  OBVIOUS
    <3>2. handler' = [handler EXCEPT ![h] = m]  BY <1>8, <2>1, <2>4, <3>1 DEF CheckOthers
    <3>3. m.pc = "idle"  BY <3>1 DEF Idle
    <3> QED  BY <1>4, <3>2, <3>3, OtherLeft
  <2>5. CASE ~\E s \in TasksOf(task[x].request) : IsOpen(s) /\ task[s].name # task[x].name
    <3>1. PICK m : m = [handler[h] EXCEPT !.pc = "advance"]  OBVIOUS
    <3>2. handler' = [handler EXCEPT ![h] = m]  BY <1>8, <2>1, <2>5, <3>1 DEF CheckOthers
    <3>3. m.pc = "advance" /\ m.task = x  BY <1>3, <2>1, <3>1 DEF HandlerRow
    <3>4. /\ \A t \in TaskIds : IsOpen(t) => task[t].bound # x
          /\ \A p \in spreading : p.task # x
      BY <2>1, <2>2, <2>3 DEF RowLeft
    <3>5. RowLeft(m)'  BY <2>2, <2>5, <3>3, <3>4 DEF RowLeft, IsOpen, TasksOf, Exists
    <3> QED  BY <1>4, <3>2, <3>5
  <2> QED  BY <2>4, <2>5
<1> QED  BY <1>5, <1>6, <1>7, <1>8 DEF Plain

LEMMA ProceedLeft ==
    ASSUME IInv, Turnwise, AllLeft, NEW h \in Handlers, Proceed(h)
    PROVE  \A g \in Handlers : RowLeft(handler[g])'
<1>0. ASSUME NEW m, handler' = [handler EXCEPT ![h] = m], handler[h].pc # "idle",
             m.pc \notin {"others", "advance"}
      PROVE  \A g \in Handlers : RowLeft(handler[g])'
  <2>1. \A g \in Handlers : g # h => handler[g].pc = "idle"  BY <1>0 DEF Turnwise, Busy
  <2> QED  BY <1>0, <2>1, OtherLeft, LeftRow
<1>1. handler[h] \in HandlerRow  BY TaskRows
<1>2. ASSUME NEW items, Replace(h, items), handler[h].pc = "create"
      PROVE  \A g \in Handlers : RowLeft(handler[g])'
  <2>1. PICK m : m = Doing(handler[h], items \o Tail(handler[h].todo))  OBVIOUS
  <2>2. handler' = [handler EXCEPT ![h] = m]  BY <1>2, <2>1 DEF Replace
  <2>3. m.pc \in {"idle", "create"}  BY <1>1, <2>1 DEF Doing, HandlerRow, Idle
  <2> QED  BY <1>0, <1>2, <2>2, <2>3
<1>3. CASE \/ FindTask(h) \/ InsertFails(h) \/ GiveOwner(h) \/ GiveDelegates(h) \/ FindShare(h)
           \/ AddShare(h) \/ InsertTask(h) \/ Rebind(h)
  <2>1. handler[h].pc = "create" /\ \E items : Replace(h, items)
    BY <1>3, ZenonT(30) DEF FindTask, InsertFails, GiveOwner, GiveDelegates, FindShare, AddShare, InsertTask,
                Rebind, Does
  <2> QED  BY <1>2, <2>1
<1>4. CASE AdvanceRequest(h)
  <2>1. PICK items : handler' = [handler EXCEPT ![h] = Doing(handler[h], items)]
    BY <1>4 DEF AdvanceRequest
  <2>2. PICK m : m = Doing(handler[h], items)  OBVIOUS
  <2>3. m.pc \in {"idle", "create"}  BY <1>1, <2>2 DEF Doing, HandlerRow, Idle
  <2>4. handler' = [handler EXCEPT ![h] = m] /\ handler[h].pc # "idle"
    BY <1>4, <2>1, <2>2 DEF AdvanceRequest
  <2> QED  BY <1>0, <2>3, <2>4
<1>5. CASE Trigger(h) \/ WithdrawCopies(h)
  <2>1. PICK m : m = Idle  OBVIOUS
  <2>2. handler' = [handler EXCEPT ![h] = m] /\ handler[h].pc # "idle"
    BY <1>5, <2>1 DEF Trigger, WithdrawCopies
  <2>3. m.pc = "idle"  BY <2>1 DEF Idle
  <2> QED  BY <1>0, <2>2, <2>3
<1>6. CASE DeleteShares(h) \/ FindRivals(h)
  <2>1. Light(h)  BY <1>6, EndIs
  <2>2. handler[h].pc # "idle"  BY <1>6 DEF DeleteShares, FindRivals
  <2> QED  BY <1>0, <2>1, <2>2 DEF Light
<1> QED  BY <1>3, <1>4, <1>5, <1>6, PlainLeft DEF Proceed, Plain

LEMMA CallLeft ==
    ASSUME IInv, Turnwise, Placed, Alone = Calls, NEW h \in Handlers, Call(h)
    PROVE  \A g \in Handlers : RowLeft(handler[g])'
<1>1. CASE Light(h)
  <2>1. \A g \in Handlers : g # h => handler[g].pc = "idle"  BY <1>1, LightRest
  <2>2. PICK m : /\ handler' = [handler EXCEPT ![h] = m]
                 /\ m.pc \in {"idle", "update", "trigger", "unshare", "rivals", "withdraw"}
    BY <1>1 DEF Light
  <2> QED  BY <2>1, <2>2, OtherLeft, LeftRow
<1>2. ASSUME NEW u \in Users, NEW r \in RequestIds, OpenRequest(h, u, r), AtRest
      PROVE  \A g \in Handlers : RowLeft(handler[g])'
  <2>1. PICK me : me = [Idle EXCEPT !.user = u]  OBVIOUS
  <2>2. PICK items : handler' = [handler EXCEPT ![h] = Doing(me, items)]
    BY <1>2, <2>1 DEF OpenRequest
  <2>3. PICK m : m = Doing(me, items)  OBVIOUS
  <2>4. m.pc \in {"idle", "create"}  BY <2>1, <2>3 DEF Doing, Idle
  <2>5. handler' = [handler EXCEPT ![h] = m]  BY <2>2, <2>3
  <2>6. \A g \in Handlers : g # h => handler[g].pc = "idle"  BY <1>2 DEF AtRest
  <2> QED  BY <2>4, <2>5, <2>6, OtherLeft, LeftRow
<1> QED  BY <1>1, <1>2, CallIs

(* Opening a request leaves nothing behind: it had no tasks.                *)
LEMMA LeftOpen ==
    ASSUME IInv, Placed, AllLeft, NEW h \in Handlers, NEW u \in Users, NEW r \in RequestIds,
           OpenRequest(h, u, r)
    PROVE  \A t \in TaskIds : Behind(t)' => Left(t)'
<1>0. /\ UNCHANGED <<task, spreading>> /\ place' = [place EXCEPT ![r] = 1]
      /\ request[r].state = "none" /\ request' = [request EXCEPT ![r].state = "running"]
  BY DEF OpenRequest
<1>1. UNCHANGED <<task, spreading>> /\ place[r] = 0  BY <1>0 DEF Placed, Walked
<1>7. place \in [RequestIds -> -1 .. LastLevel + 1] /\ request \in [RequestIds -> RequestRow]
  BY DEF IInv, TypeOK
<1>70. \A q \in RequestIds : /\ request'[q].again = request[q].again
                             /\ q # r => place'[q] = place[q]
  BY <1>0, <1>7 DEF RequestRow
<1> SUFFICES ASSUME NEW t \in TaskIds, Behind(t)' PROVE Left(t)'  OBVIOUS
<1>2. FirstWalk /\ IsOpen(t) /\ Level[task[t].name] # place'[task[t].request]
  BY <1>1, <1>70 DEF Behind, IsOpen, FirstWalk
<1>3. t \in Made  BY <1>2, ExistsMade DEF IsOpen, Exists
<1>4. task[t].name \in Names /\ task[t].request \in RequestIds  BY <1>3 DEF IInv, RowsGood
<1>5. Reached(t) /\ Level[task[t].name] >= 1  BY <1>3, <1>4, Levels, Sizes DEF Placed
<1>6. task[t].request # r  BY <1>1, <1>2, <1>4, <1>5, Levels DEF Reached
<1>8. place'[task[t].request] = place[task[t].request]  BY <1>4, <1>6, <1>70
<1>9. Behind(t)  BY <1>2, <1>8 DEF Behind
<1>10. Left(t)  BY <1>9 DEF AllLeft
<1> QED  BY <1>1, <1>10 DEF Left, IsClosed, Bound

(* Moving a request on: the task closed has passed over what is still open. *)
LEMMA LeftAdvance ==
    ASSUME IInv, Turnwise, Placed, Sorted, Shut, AllLeft, ~UpdatesMayFail, NEW h \in Handlers,
           AdvanceRequest(h)
    PROVE  \A t \in TaskIds : Behind(t)' => Left(t)'
<1>1. PICK me : me = handler[h]  OBVIOUS
<1>2. me \in GoodHandler /\ me.pc = "advance"  BY <1>1 DEF IInv, CallsGood, AdvanceRequest
<1>3. PICK x : x = me.task  OBVIOUS
<1>4. PICK r : r = task[x].request  OBVIOUS
<1>5. x \in Made /\ x \in TaskIds /\ r \in RequestIds
  BY <1>2, <1>3, <1>4 DEF GoodHandler, IInv, RowsGood, Made
<1>6. UNCHANGED <<task, spreading>>  BY DEF AdvanceRequest
<1>7. (FirstWalk' => FirstWalk) /\ \A q \in RequestIds : q # r => place'[q] = place[q]
  BY <1>1, <1>3, <1>4, AdvanceIs
<1>8. IsClosed(x)  BY <1>1, <1>2, <1>3 DEF Sorted, RowShut, Works
<1>9. /\ \A t \in TaskIds : IsOpen(t) => task[t].bound # x
      /\ \A p \in spreading : p.task # x
      /\ \A t \in TasksOf(r) : IsOpen(t) => task[t].name = task[x].name
  BY <1>1, <1>2, <1>3, <1>4 DEF AllLeft, RowLeft
<1>10. ~Awaits(x)  BY <1>1, <1>2 DEF Awaits, Turnwise, Busy
<1>11. ~Rises(x)  BY <1>9, <1>10 DEF Rises
<1>12. task[x].bound # 0 => ~IsOpen(task[x].bound)  BY <1>5, <1>8, <1>11 DEF Shut, ShutTask, UpShut
<1> SUFFICES ASSUME NEW t \in TaskIds, Behind(t)' PROVE Left(t)'  OBVIOUS
<1>13. FirstWalk /\ IsOpen(t) /\ Level[task[t].name] # place'[task[t].request]
  BY <1>6, <1>7 DEF Behind, IsOpen
<1>14. CASE task[t].request = r
  <2>1. task[t].name = task[x].name  BY <1>9, <1>13, <1>14 DEF TasksOf, IsOpen, Exists
  <2>2. ~Bound(x, t) /\ ~Bound(t, x)  BY <1>9, <1>12, <1>13 DEF Bound
  <2> QED  BY <1>4, <1>5, <1>6, <1>8, <1>9, <1>14, <2>1, <2>2 DEF Left, IsClosed, Bound
<1>15. CASE task[t].request # r
  <2>1. t \in Made  BY <1>13, ExistsMade DEF IsOpen, Exists
  <2>2. task[t].request \in RequestIds  BY <2>1 DEF IInv, RowsGood
  <2>4. place'[task[t].request] = place[task[t].request]  BY <1>7, <1>15, <2>2
  <2>5. Left(t)  BY <1>13, <2>4 DEF AllLeft, Behind
  <2> QED  BY <1>6, <2>5 DEF Left, IsClosed, Bound
<1> QED  BY <1>14, <1>15

----------------------------------------------------------------------------
(* The rows that a run will write, and what it leaves when it is over.      *)
LEMMA RunsRows ==
    ASSUME IInv, NEW p \in spreading,
           \/ FindAbove(p) \/ WriteAbove(p) \/ FindBelow(p)
           \/ \E z \in p.rows : WriteBelow(p, z)
    PROVE  \A q \in spreading' : \A t \in q.rows :
              \/ q \in spreading
              \/ q.task = p.task /\ t \in p.rows
              \/ q.task = p.task /\ t \in TaskIds /\ task[t].bound = p.task
<1>1. p \in Spread  BY RunRows
<1>2. CASE FindAbove(p)
  <2>1. PICK a : a = task[p.bound].bound  OBVIOUS
  <2>2. PICK q : /\ spreading' = (spreading \ {p}) \cup {q}
                 /\ q \in {[p EXCEPT !.pc = "upWrite", !.above = a], [p EXCEPT !.pc = "down"]}
    BY <1>2, <2>1 DEF FindAbove, Becomes
  <2>3. q.task = p.task /\ q.rows = p.rows  BY <1>1, <2>2 DEF Spread
  <2> QED  BY <2>2, <2>3
<1>3. CASE WriteAbove(p)
  <2>1. PICK q, e : /\ spreading' = (spreading \ {p}) \cup {q, e}
                    /\ q = [p EXCEPT !.pc = "down"] /\ e = Run(p.bound, p.above, FALSE, NoHandler)
    BY <1>3 DEF WriteAbove
  <2>2. q.task = p.task /\ q.rows = p.rows /\ e.rows = {}  BY <1>1, <2>1 DEF Spread, Run
  <2> QED  BY <2>1, <2>2
<1>4. CASE FindBelow(p)
  <2>1. PICK rows : rows = Below(p)  OBVIOUS
  <2>2. PICK q : q = [p EXCEPT !.pc = "downWrite", !.rows = rows]  OBVIOUS
  <2>3. q.task = p.task /\ q.rows = rows  BY <1>1, <2>2 DEF Spread
  <2>4. spreading' \subseteq spreading \cup {q}  BY <1>4, <2>1, <2>2 DEF FindBelow, Becomes, Ends
  <2>5. \A t \in rows : t \in TaskIds /\ task[t].bound = p.task  BY <2>1 DEF Below
  <2> QED  BY <2>3, <2>4, <2>5
<1>5. ASSUME NEW z \in p.rows, WriteBelow(p, z)
      PROVE  \A q \in spreading' : \A t \in q.rows : \/ q \in spreading
                                                     \/ q.task = p.task /\ t \in p.rows
  <2>1. PICK q, e : /\ q = [p EXCEPT !.rows = p.rows \ {z}] /\ e = Run(z, p.task, FALSE, NoHandler)
    OBVIOUS
  <2>2. spreading' \subseteq spreading \cup {q, e}  BY <1>5, <2>1 DEF WriteBelow
  <2>3. q.task = p.task /\ q.rows \subseteq p.rows /\ e.rows = {}  BY <1>1, <2>1 DEF Spread, Run
  <2> QED  BY <2>2, <2>3
<1> QED  BY <1>2, <1>3, <1>4, <1>5

LEMMA LeftSpread ==
    ASSUME IInv, Sorted, AllLeft, ~UpdatesMayFail, SpreadStep
    PROVE  \A t \in TaskIds : Behind(t)' => Left(t)'
<1>1. PICK p \in spreading : \/ FindAbove(p) \/ WriteAbove(p) \/ FindBelow(p)
                             \/ \E z \in p.rows : WriteBelow(p, z)
  BY DEF SpreadStep
<1>2. \A t \in TaskIds :
         \/ task'[t] = task[t]
         \/ IsOpen(t) /\ (task'[t].bound = t \/ (task'[t].bound = p.task /\ t \in p.rows))
  BY <1>1, RunStep
<1>3. Thin /\ UNCHANGED <<place, request>>
  BY SpreadThin, SpreadEffect DEF SpreadStep, FindAbove, WriteAbove, FindBelow, WriteBelow
<1>4. \A t \in TaskIds : IsClosed(t) => task'[t] = task[t]  BY <1>2 DEF IsClosed, IsOpen
<1> SUFFICES ASSUME NEW t \in TaskIds, Behind(t)' PROVE Left(t)'  OBVIOUS
<1>5. IsOpen(t)  BY <1>2 DEF Behind, IsOpen
<1>6. task'[t].request = task[t].request /\ task'[t].name = task[t].name  BY <1>3 DEF Thin
<1>7. Left(t)  BY <1>3, <1>5, <1>6 DEF AllLeft, Behind, FirstWalk
<1>8. ASSUME NEW x \in TaskIds, IsClosed(x), Bound(t, x)'
      PROVE  Bound(t, x) \/ \E g \in spreading : t \in g.rows /\ g.task = x
  BY <1>2, <1>8 DEF Bound
<1>9. ASSUME NEW q \in spreading', t \in q.rows
      PROVE  \/ \E g \in spreading : g.task = q.task /\ t \in g.rows
             \/ Bound(t, q.task)
             \/ q.task = t
  <2>1. \/ q \in spreading
        \/ q.task = p.task /\ t \in p.rows
        \/ q.task = p.task /\ task[t].bound = p.task
    BY <1>1, <1>9, RunsRows
  <2> QED  BY <1>9, <2>1 DEF Bound
<1>10. ~IsClosed(t)  BY <1>5 DEF IsClosed, IsOpen
<1> QED  BY <1>4, <1>6, <1>7, <1>8, <1>9, <1>10, LeftKept

(* When the call's own run is over, nothing open is bound to its task, and  *)
(* no other run goes out from it.                                           *)
LEMMA OwnOver ==
    ASSUME IInv, Turnwise, Sorted, ~UpdatesMayFail, NEW p \in spreading, p.closes,
           \/ FindAbove(p) \/ WriteAbove(p) \/ FindBelow(p)
           \/ \E z \in p.rows : WriteBelow(p, z),
           handler' # handler
    PROVE  /\ \A t \in TaskIds : task'[t].state = "open" => task'[t].bound # p.task
           /\ \A q \in spreading' : q.task # p.task
<1>1. OwnRun(p) /\ RunOpen(p)  BY DEF Sorted
<1>2. IsClosed(p.task) /\ p.task \in TaskIds /\ \A q \in spreading : q.closes => q = p
  BY Own, RunRows
<1>3. p.pc \in {"down", "downWrite"} => \A q \in spreading : q # p => q.task # p.task
  BY <1>2, OwnBeside
<1>4. CASE FindBelow(p)
  <2>1. Below(p) = {} /\ spreading' = spreading \ {p} /\ UNCHANGED task /\ p.pc = "down"
    BY <1>4 DEF FindBelow, Becomes, Ends
  <2> QED  BY <1>3, <2>1 DEF Below, IsOpen
<1>5. ASSUME NEW z \in p.rows, WriteBelow(p, z)
      PROVE  /\ \A t \in TaskIds : task'[t].state = "open" => task'[t].bound # p.task
             /\ \A q \in spreading' : q.task # p.task
  <2>1. p.rows = {z} /\ p.pc = "downWrite"  BY <1>5 DEF WriteBelow
  <2>2. IsOpen(z) /\ z \in TaskIds  BY <1>1, RunRows DEF RunOpen
  <2>3. /\ \A t \in TaskIds : t # z => task'[t] = task[t]
        /\ task'[z].state = "closed"
    BY <1>5, <2>2, WriteIs DEF WriteBelow
  <2>4. \A t \in TaskIds : IsOpen(t) /\ task[t].bound = p.task => t = z  BY <1>1, <2>1 DEF OwnRun
  <2>5. PICK e : e = Run(z, p.task, FALSE, NoHandler)  OBVIOUS
  <2>6. spreading' \subseteq (spreading \ {p}) \cup {e}  BY <1>5, <2>1, <2>5 DEF WriteBelow
  <2>7. e.task = z  BY <2>5 DEF Run
  <2>8. z # p.task  BY <1>2, <2>2 DEF IsClosed, IsOpen
  <2> QED  BY <1>3, <2>1, <2>3, <2>4, <2>6, <2>7, <2>8 DEF IsOpen
<1> QED  BY <1>4, <1>5 DEF FindAbove, WriteAbove, Becomes

LEMMA SpreadLeft ==
    ASSUME IInv, Turnwise, Placed, Sorted, AllLeft, ~UpdatesMayFail, SpreadStep
    PROVE  \A g \in Handlers : RowLeft(handler[g])'
<1>1. PICK p \in spreading : \/ FindAbove(p) \/ WriteAbove(p) \/ FindBelow(p)
                             \/ \E z \in p.rows : WriteBelow(p, z)
  BY DEF SpreadStep
<1>2. \A g \in Handlers : \/ handler'[g] = handler[g]
                          \/ /\ handler[g].pc = "spread"
                             /\ handler'[g] = [handler[g] EXCEPT !.pc = "others"]
  BY SpreadEffect
<1>3. Thin  BY SpreadThin
<1>4. RunOpen(p) /\ p.task \in TaskIds  BY RunRows DEF Sorted
<1> SUFFICES ASSUME NEW g \in Handlers PROVE RowLeft(handler[g])'  OBVIOUS
<1>5. handler[g] \in HandlerRow /\ handler[g] \in GoodHandler  BY TaskRows DEF IInv, CallsGood
<1>6. CASE handler'[g] = handler[g] /\ handler[g].pc \in {"others", "advance"}
  <2>1. PICK x : x = handler[g].task  OBVIOUS
  <2>2. x \in TaskIds /\ IsClosed(x)
    BY <1>5, <1>6, <2>1 DEF GoodHandler, Made, Sorted, RowShut, Works
  <2>3. ~p.closes
    <3>1. \A h \in Handlers : handler[h].pc # "spread"  BY <1>6 DEF Turnwise, Busy
    <3> QED  BY <3>1, NoOwn
  <2>4. RowLeft(handler[g])  BY DEF AllLeft
  <2>5. /\ \A t \in TaskIds : IsOpen(t) => task[t].bound # x
        /\ \A q \in spreading : q.task # x
    BY <1>6, <2>1, <2>4 DEF RowLeft
  <2>6. \A t \in TaskIds :
           \/ task'[t] = task[t]
           \/ IsOpen(t) /\ (task'[t].bound = t \/ task'[t].bound = p.task)
    BY <1>1, RunStep
  <2>7. \A q \in spreading' : \/ q \in spreading
                              \/ q.task = p.task
                              \/ IsOpen(q.task)
    BY <1>1, RunStep
  <2>8. ~IsOpen(x) /\ p.task # x  BY <2>2, <2>5 DEF IsOpen, IsClosed
  <2>9. \A t \in TaskIds : task'[t].state = "open" => IsOpen(t) /\ task'[t].bound # x
    BY <2>5, <2>6, <2>8 DEF IsOpen
  <2>10. \A q \in spreading' : q.task # x  BY <2>5, <2>7, <2>8
  <2>11. ASSUME handler[g].pc = "advance", NEW t \in TaskIds, task'[t].state = "open",
                task'[t].request = task'[x].request
         PROVE  task'[t].name = task'[x].name
    <3>1. IsOpen(t) /\ task[t].request = task[x].request  BY <1>3, <2>2, <2>9, <2>11 DEF Thin
    <3>2. task[t].name = task[x].name
      BY <2>1, <2>4, <2>11, <3>1 DEF RowLeft, TasksOf, IsOpen, Exists
    <3> QED  BY <1>3, <2>2, <3>2 DEF Thin
  <2> QED  BY <1>6, <2>1, <2>9, <2>10, <2>11 DEF RowLeft, IsOpen, TasksOf
<1>7. CASE handler'[g] = handler[g] /\ handler[g].pc \notin {"others", "advance"}
  BY <1>7 DEF RowLeft
<1>8. CASE handler[g].pc = "spread" /\ handler'[g] = [handler[g] EXCEPT !.pc = "others"]
  <2>1. handler'[g].pc = "others" /\ handler'[g].task = handler[g].task  BY <1>5, <1>8 DEF HandlerRow
  <2>2. handler' # handler  BY <1>8, <2>1
  <2>3. p.closes  BY <1>1, <1>4, <2>2, RunStep DEF RunOpen
  <2>4. p.by \in Handlers /\ handler[p.by].pc = "spread" /\ p.task = handler[p.by].task
    BY <2>3, Own
  <2>5. p.by = g  BY <1>8, <2>4 DEF Turnwise, Busy
  <2>6. /\ \A t \in TaskIds : task'[t].state = "open" => task'[t].bound # p.task
        /\ \A q \in spreading' : q.task # p.task
    BY <1>1, <2>2, <2>3, OwnOver
  <2> QED  BY <2>1, <2>4, <2>5, <2>6 DEF RowLeft, IsOpen
<1> QED  BY <1>2, <1>6, <1>7, <1>8

LEMMA NextLeft ==
    ASSUME IInv, Turnwise, Placed, Sorted, Shut, AllLeft, Alone = Calls, ~UpdatesMayFail, [Next]_vars
    PROVE  AllLeft'
<1>0. \A t \in TaskIds : IsClosed(t) => task'[t] = task[t]
  <2> SUFFICES ASSUME NEW t \in TaskIds, IsClosed(t) PROVE task'[t] = task[t]  OBVIOUS
  <2>1. t \in Made /\ ~IsOpen(t)  BY ExistsMade DEF IsClosed, IsOpen, Exists
  <2> QED  BY <2>1, OnlyOpen
<1>1. CASE SpreadStep
  BY <1>1, LeftSpread, SpreadLeft DEF AllLeft
<1>2. ASSUME Quiet, Given, UNCHANGED <<place, request>>, \A q \in spreading' : q \in spreading \/ q.rows = {}
      PROVE  \A t \in TaskIds : Behind(t)' => Left(t)'
  BY <1>0, <1>2, LeftBeside
<1>3. ASSUME UNCHANGED <<place, request, task, handler, spreading>>
      PROVE  AllLeft'
  <2>1. \A t \in TaskIds : Behind(t)' => Left(t)'  BY <1>2, <1>3, SameQuiet, SameGiven
  <2>2. ASSUME NEW g \in Handlers PROVE RowLeft(handler[g])'
    <3>1. RowLeft(handler[g])  BY DEF AllLeft
    <3> QED  BY <1>3, <3>1 DEF RowLeft, IsOpen, TasksOf, Exists
  <2> QED  BY <2>1, <2>2 DEF AllLeft
<1>4. ASSUME NEW h \in Handlers, Proceed(h) PROVE AllLeft'
  <2>1. CASE AdvanceRequest(h)  BY <1>4, <2>1, LeftAdvance, ProceedLeft DEF AllLeft
  <2>2. CASE ~AdvanceRequest(h)
    <3>1. UNCHANGED <<place, request>>
      BY <1>4, <2>2, ZenonT(30) DEF Proceed, FindTask, InsertTask, InsertFails, GiveOwner, Rebind, GiveDelegates,
         FindShare, AddShare, UpdateTask, RereadTask, ReadRequest, CheckOthers, Trigger, DeleteShares,
         FindRivals, WithdrawCopies
    <3>2. \A q \in spreading' : q \in spreading \/ q.rows = {}
      <4>1. CASE ReadRequest(h)
        <5>1. PICK x, b : x = handler[h].task /\ b = handler[h].bound  OBVIOUS
        <5>2. spreading' = spreading \cup {Run(x, b, TRUE, h)}  BY <4>1, <5>1 DEF ReadRequest
        <5>3. Run(x, b, TRUE, h).rows = {}  BY DEF Run
        <5> QED  BY <5>2, <5>3
      <4>2. CASE UNCHANGED spreading  BY <4>2
      <4> QED
        BY <1>4, <2>2, <4>1, <4>2, ZenonT(30)
        DEF Proceed, FindTask, InsertTask, InsertFails, GiveOwner, Rebind, GiveDelegates, FindShare,
            AddShare, UpdateTask, RereadTask, CheckOthers, Trigger, DeleteShares, FindRivals,
            WithdrawCopies
    <3> QED  BY <1>2, <1>4, <3>1, <3>2, ProceedQuiet, ProceedGiven, ProceedLeft DEF AllLeft
  <2> QED  BY <2>1, <2>2
<1>5. ASSUME NEW h \in Handlers, Call(h) PROVE AllLeft'
  <2>1. \A g \in Handlers : RowLeft(handler[g])'  BY <1>5, CallLeft
  <2>2. CASE Light(h)
    <3>1. UNCHANGED <<place, request, task, spreading>>  BY <2>2 DEF Light
    <3> QED  BY <1>2, <2>1, <3>1, SameQuiet, SameGiven DEF AllLeft
  <2>3. ASSUME NEW u \in Users, NEW r \in RequestIds, OpenRequest(h, u, r) PROVE AllLeft'
    BY <2>1, <2>3, LeftOpen DEF AllLeft
  <2> QED  BY <1>5, <2>2, <2>3, CallIs
<1>6. CASE CopyStep
  <2>1. UNCHANGED <<place, request, handler, spreading>> /\ \A g \in Handlers : handler[g].pc = "idle"
    BY <1>6, CopyRest
  <2>2. \A g \in Handlers : RowLeft(handler[g])'  BY <2>1 DEF RowLeft
  <2> QED  BY <1>2, <1>6, <2>1, <2>2, CopyQuiet, CopyGiven DEF AllLeft
<1>7. ASSUME NEW d \in DelegationIds, NEW w, Today(d, w) PROVE AllLeft'
  BY <1>3, <1>7 DEF Today
<1>8. CASE UNCHANGED vars  BY <1>3, <1>8 DEF vars
<1> QED  BY <1>1, <1>4, <1>5, <1>6, <1>7, <1>8 DEF Next

(* When nobody is at work, no work is open for a step that is not reached,  *)
(* and when a request has moved on, a task of an earlier step that is still *)
(* open has been passed over for a closed one that it has nothing to do     *)
(* with (task_service.go:130-218, utils.go:283-336): for every workflow and *)
(* whoever delegates to whom, when every call waits until nobody is at work *)
(* and no UPDATE is refused, until a request that has ended is walked again *)
(* (task_service.go:162-210).                                               *)
THEOREM PassedOverCorrect ==
    ASSUME Alone = Calls, ~UpdatesMayFail
    PROVE  Spec => []PassedOver
<1>1. Init => IInv /\ Turnwise /\ Single /\ Placed /\ Sorted /\ Shut /\ AllLeft
  BY Starts, InitSingle, InitPlaced, InitSorted, InitShut, InitLeft
<1>2. IInv /\ Turnwise /\ Single /\ Placed /\ Sorted /\ Shut /\ AllLeft /\ [Next]_vars
         => (IInv /\ Turnwise /\ Single /\ Placed /\ Sorted /\ Shut /\ AllLeft)'
  BY Keeps, NextSingle, NextPlaced, NextSorted, NextShut, NextLeft
<1>3. IInv /\ Placed /\ AllLeft => PassedOver
  <2> SUFFICES ASSUME IInv, Placed, AllLeft, FirstWalk, NEW t \in TaskIds, IsOpen(t),
                      NEW i, i = place[task[t].request]
               PROVE  /\ i # -1 => Level[task[t].name] <= i
                      /\ Level[task[t].name] # i =>
                            \E x \in TaskIds : /\ IsClosed(x) /\ ~Bound(x, t) /\ ~Bound(t, x)
                                               /\ task[x].request = task[t].request
                                               /\ task[x].name = task[t].name
    BY DEF PassedOver
  <2>1. t \in Made  BY ExistsMade DEF IsOpen, Exists
  <2>2. Reached(t)  BY <2>1 DEF Placed
  <2> QED  BY <2>2 DEF Reached, AllLeft, Behind, Left
<1> QED  BY <1>1, <1>2, <1>3, PTL DEF Spec
=============================================================================
