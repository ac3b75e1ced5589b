------------------------ MODULE DelegationPairProofs ------------------------
(***************************************************************************)
(* One delegate, who delegates to nobody, and two steps at most, when      *)
(* every call waits until nobody is at work and no UPDATE is refused.      *)
(* Then a step of a request has two tasks at most, of which one is bound   *)
(* to the other, so that closing either closes both, and nothing is left   *)
(* open behind a request.  The second task is bound by its INSERT, by      *)
(* Trigger, or by an UPDATE that the call has still to do (Pending).       *)
(*                                                                         *)
(* One invariant, Paired, that rests on the four of DelegationCloseProofs. *)
(***************************************************************************)
EXTENDS DelegationCloseProofs

USE DEF RequestIds, TaskIds, DelegationIds

----------------------------------------------------------------------------
DelegatesTo(v) == v \in Users /\ Delegates[v] = {} /\ \A u \in Users : Delegates[u] \subseteq {v}
TheDelegate == CHOOSE v : DelegatesTo(v)
OneDelegate == \E v : DelegatesTo(v)

(* The delegate has closed a task of the request.                           *)
Done(r) == \E q \in TaskIds : IsClosed(q) /\ task[q].request = r /\ task[q].user = TheDelegate
Directed == \A d \in MadeDelegations : delegation[d].to = TheDelegate /\ delegation[d].from # TheDelegate

Pending(s, t) == \E h \in Handlers :
    /\ handler[h].pc = "create"
    /\ \E i \in 1 .. Len(handler[h].todo) :
          /\ handler[h].todo[i].kind = "rebind"
          /\ handler[h].todo[i].task = s /\ handler[h].todo[i].bound = t
Same(s, t) == Exists(s) /\ Exists(t) /\ Alike(s, t)
Tied(s, t) == Bound(s, t) \/ Bound(t, s) \/ Pending(s, t) \/ Pending(t, s)
Mixed(s, t) == /\ task[s].user # task[t].user
               /\ TheDelegate \in {task[s].user, task[t].user} \/ Done(task[s].request)
Flat(t) == /\ task[t].bound = t => IsClosed(t)
           /\ ~Root(t) => /\ Exists(task[t].bound) /\ Root(task[t].bound)
                          /\ Level[task[t].name] = 1 => task[t].user = TheDelegate
HasFirst(t) == \E o \in Made : Alike(t, o) /\ task[o].user = Assignee[task[o].name]

Duo == \A a, b, c \in TaskIds : Same(a, b) /\ Same(b, c) => a = b \/ b = c \/ a = c
AllFlat == \A t \in TaskIds : Exists(t) => Flat(t)
AllTied == \A s, t \in TaskIds : Same(s, t) /\ s # t => Tied(s, t)
AllMixed == \A s, t \in TaskIds : Same(s, t) /\ s # t => Mixed(s, t)
AllFirst == \A t \in Made : HasFirst(t)
Couples == Duo /\ AllFlat /\ AllTied /\ AllMixed /\ AllFirst

PendingKept == \A s, t \in TaskIds : Pending(s, t) => Pending(s, t)'

LEMMA Chosen == ASSUME OneDelegate PROVE DelegatesTo(TheDelegate)
BY DEF OneDelegate, TheDelegate

LEMMA DoneKept ==
    ASSUME \A t \in TaskIds : IsClosed(t) => task'[t] = task[t], NEW r, Done(r)
    PROVE  Done(r)'
BY DEF Done, IsClosed

LEMMA InitCouples == ASSUME Init PROVE Couples /\ Directed
<1>1. \A t \in TaskIds : ~Exists(t)  BY DEF Init, NoTask, Exists
<1>2. Made = {} /\ MadeDelegations = {}  BY Sizes DEF Init, Made, MadeDelegations
<1>3. Duo /\ AllFlat /\ AllTied /\ AllMixed  BY <1>1 DEF Duo, AllFlat, AllTied, AllMixed, Same
<1> QED  BY <1>2, <1>3 DEF Couples, AllFirst, Directed

(* No row is added; what is closed stays; what is written otherwise keeps   *)
(* what it is bound to, or is an original that is closed.                   *)
LEMMA CouplesThin ==
    ASSUME IInv, Couples, Made' = Made, Thin, PendingKept,
           \A t \in TaskIds : IsClosed(t) => task'[t] = task[t],
           \A t \in TaskIds : task'[t].state # "none" =>
              \/ task'[t].bound = task[t].bound
              \/ task'[t].bound = t /\ Root(t) /\ task'[t].state = "closed",
           \A t \in TaskIds : task'[t].state # "none" /\ ~Root(t) => task'[task[t].bound].state # "none"
    PROVE  Couples'
<1>1. \A s, t \in TaskIds : Same(s, t)' => Same(s, t)  BY DEF Thin, Same, Alike, Exists
<1>2. Duo'  BY <1>1 DEF Couples, Duo
<1>3. \A t \in TaskIds : Exists(t)' => Exists(t)  BY DEF Thin, Exists
<1>4. \A t \in TaskIds : Exists(t)' => (Root(t)' <=> Root(t))  BY DEF Exists, Root
<1>5. ASSUME NEW t \in TaskIds, Exists(t)' PROVE Flat(t)'
  <2>1. Flat(t)  BY <1>3, <1>5 DEF Couples, AllFlat
  <2>2. ASSUME task'[t].bound = t PROVE IsClosed(t)'
    <3>1. CASE task[t].bound = t  BY <2>1, <3>1 DEF Flat, IsClosed
    <3>2. CASE task[t].bound # t
      <4>1. task'[t].state = "closed"  BY <1>5, <2>2, <3>2 DEF Exists
      <4> QED  BY <4>1 DEF IsClosed
    <3> QED  BY <3>1, <3>2
  <2>3. ASSUME ~Root(t)'
        PROVE  /\ Exists(task[t].bound)' /\ Root(task[t].bound)'
               /\ task'[t].bound = task[t].bound
               /\ Level[task'[t].name] = 1 => task'[t].user = TheDelegate
    <3>1. ~Root(t) /\ task'[t].bound = task[t].bound  BY <1>4, <1>5, <2>3 DEF Exists, Root
    <3>2. Exists(task[t].bound)'  BY <1>5, <3>1 DEF Exists
    <3>3. PICK o \in TaskIds : o = task[t].bound
      <4>1. task[t].bound \in 0 .. MaxTasks  BY TaskRows DEF TaskRow
      <4> QED  BY <3>1, <4>1 DEF Root
    <3>4. Root(o)'  BY <1>4, <2>1, <3>1, <3>2, <3>3 DEF Flat
    <3> QED  BY <2>1, <3>1, <3>2, <3>3, <3>4 DEF Flat, Thin
  <2> QED  BY <2>2, <2>3 DEF Flat
<1>6. AllFlat'  BY <1>5 DEF AllFlat
<1>7. ASSUME NEW s \in TaskIds, NEW t \in TaskIds, Same(s, t)', s # t PROVE Tied(s, t)' /\ Mixed(s, t)'
  <2>1. Tied(s, t) /\ Mixed(s, t)  BY <1>1, <1>7 DEF Couples, AllTied, AllMixed
  <2>2. \A a, b \in TaskIds : Exists(a)' /\ Bound(a, b) => Bound(a, b)'
    BY Sizes DEF Bound, Exists, Root
  <2>3. Exists(s)' /\ Exists(t)'  BY <1>7 DEF Same
  <2>4. Tied(s, t)'  BY <2>1, <2>2, <2>3 DEF Tied, PendingKept
  <2>5. PICK r : r = task[s].request  OBVIOUS
  <2>6. task'[s].request = r /\ task'[s].user = task[s].user /\ task'[t].user = task[t].user
    BY <2>5 DEF Thin
  <2>7. Done(r) => Done(r)'  BY DoneKept
  <2>8. Mixed(s, t)'  BY <2>1, <2>5, <2>6, <2>7 DEF Mixed
  <2> QED  BY <2>4, <2>8
<1>8. AllTied' /\ AllMixed'  BY <1>7 DEF AllTied, AllMixed
<1>9. AllFirst'
  <2>1. ASSUME NEW t \in Made' PROVE HasFirst(t)'
    <3>1. PICK o \in Made : Alike(t, o) /\ task[o].user = Assignee[task[o].name]
      BY <2>1 DEF Couples, AllFirst, HasFirst
    <3>2. t \in TaskIds /\ o \in TaskIds /\ o \in Made'  BY DEF Made
    <3> QED  BY <3>1, <3>2 DEF HasFirst, Alike, Thin
  <2> QED  BY <2>1 DEF AllFirst
<1> QED  BY <1>2, <1>6, <1>8, <1>9 DEF Couples

(* A new row: of those there are, one at most is of its step, and one of    *)
(* the two is or will be bound to the other.                                *)
LEMMA CouplesAdded ==
    ASSUME IInv, Couples, NEW n \in TaskIds, n \notin Made, ~Exists(n), Made' = Made \cup {n},
           NEW row, \A t \in TaskIds : task'[t] = IF t = n THEN row ELSE task[t], row.state = "open",
           NEW S, S = {a \in TaskIds : /\ Exists(a) /\ task[a].request = row.request
                                       /\ task[a].name = row.name},
           \A a, b \in S : a = b,
           \A a \in S : row.bound = a \/ Pending(a, n)',
           \A a \in S : task[a].user # row.user,
           \A a \in S : TheDelegate \in {row.user, task[a].user} \/ Done(row.request),
           row.bound # 0 => /\ row.bound \in TaskIds /\ Exists(row.bound) /\ Root(row.bound)
                            /\ row.user = TheDelegate,
           \/ row.user = Assignee[row.name]
           \/ \E a \in Made : task[a].request = row.request /\ task[a].name = row.name,
           PendingKept
    PROVE  Couples'
<1>1. task'[n] = row /\ \A t \in TaskIds : t # n => task'[t] = task[t]  OBVIOUS
<1>2. \A s, t \in TaskIds : s # n /\ t # n => (Same(s, t)' <=> Same(s, t))
  BY <1>1 DEF Same, Alike, Exists
<1>3. \A s \in TaskIds : s # n /\ (Same(s, n)' \/ Same(n, s)') => s \in S
  BY <1>1 DEF Same, Alike, Exists
<1>4. Duo'
  <2>1. ASSUME NEW a \in TaskIds, NEW b \in TaskIds, NEW c \in TaskIds, Same(a, b)', Same(b, c)',
               a # b, b # c, a # c
        PROVE  FALSE
    <3>1. CASE n \notin {a, b, c}  BY <1>2, <2>1, <3>1 DEF Couples, Duo
    <3>2. Same(b, a)' /\ Same(a, c)'  BY <2>1 DEF Same, Alike
    <3>3. CASE a = n  BY <1>3, <2>1, <3>2, <3>3
    <3>4. CASE b = n  BY <1>3, <2>1, <3>2, <3>4
    <3>5. CASE c = n  BY <1>3, <2>1, <3>2, <3>5
    <3> QED  BY <3>1, <3>3, <3>4, <3>5
  <2> QED  BY <2>1 DEF Duo
<1>5. \A t \in TaskIds : Exists(t) => t # n /\ Exists(t)' /\ (Root(t) <=> Root(t)')
  BY <1>1 DEF Exists, Root
<1>6. ASSUME NEW t \in TaskIds, Exists(t)' PROVE Flat(t)'
  <2>1. CASE t = n
    <3>1. row.bound # n  <4> QED  BY DEF Exists
    <3>2. row.bound # 0 => Exists(row.bound)' /\ Root(row.bound)'  BY <1>5
    <3> QED  BY <1>1, <2>1, <3>1, <3>2 DEF Flat, Root
  <2>2. CASE t # n
    <3>1. task'[t] = task[t] /\ Exists(t)  BY <1>1, <1>6, <2>2 DEF Exists
    <3>2. Flat(t)  BY <3>1 DEF Couples, AllFlat
    <3>3. task[t].bound \in 0 .. MaxTasks  BY TaskRows DEF TaskRow
    <3>4. PICK o : o = task[t].bound  OBVIOUS
    <3>40. ~Root(t) => o \in TaskIds  BY <3>3, <3>4, Sizes DEF Root
    <3>5. ~Root(t) => Exists(o)' /\ Root(o)'  BY <1>5, <3>2, <3>4, <3>40 DEF Flat
    <3> QED  BY <3>1, <3>2, <3>4, <3>5 DEF Flat, Root, IsClosed
  <2> QED  BY <2>1, <2>2
<1>7. AllFlat'  BY <1>6 DEF AllFlat
<1>8. \A t \in TaskIds : IsClosed(t) => task'[t] = task[t]  BY <1>1 DEF IsClosed, Exists
<1>9. ASSUME NEW s \in TaskIds, NEW t \in TaskIds, Same(s, t)', s # t PROVE Tied(s, t)' /\ Mixed(s, t)'
  <2>1. CASE s # n /\ t # n
    <3>1. Tied(s, t) /\ Mixed(s, t)  BY <1>2, <1>9, <2>1 DEF Couples, AllTied, AllMixed
    <3>2. task'[s] = task[s] /\ task'[t] = task[t]  BY <1>1, <2>1
    <3>3. Tied(s, t)'  BY <3>1, <3>2 DEF Tied, Bound, PendingKept
    <3>4. PICK r : r = task[s].request  OBVIOUS
    <3>40. Done(r) => Done(r)'  BY <1>8, DoneKept
    <3>5. Mixed(s, t)'  BY <3>1, <3>2, <3>4, <3>40 DEF Mixed
    <3> QED  BY <3>3, <3>5
  <2>2. ASSUME NEW a \in S PROVE Tied(a, n)' /\ Tied(n, a)' /\ Mixed(a, n)' /\ Mixed(n, a)'
    <3>1. a \in TaskIds /\ a # n /\ task'[a] = task[a] /\ task[a].request = row.request  BY <1>1
    <3>2. Bound(n, a)' \/ Pending(a, n)'  BY <1>1, <3>1 DEF Bound
    <3>3. Tied(a, n)' /\ Tied(n, a)'  BY <3>2 DEF Tied
    <3>4. Done(row.request) => Done(row.request)'  BY <1>8, DoneKept
    <3>5. TheDelegate \in {row.user, task[a].user} \/ Done(row.request)'  BY <3>4
    <3>6. Mixed(a, n)' /\ Mixed(n, a)'  BY <1>1, <3>1, <3>5 DEF Mixed
    <3> QED  BY <3>3, <3>6
  <2>3. CASE s = n  BY <1>3, <1>9, <2>2, <2>3
  <2>4. CASE t = n  BY <1>3, <1>9, <2>2, <2>4
  <2> QED  BY <2>1, <2>3, <2>4
<1>10. AllTied' /\ AllMixed'  BY <1>9 DEF AllTied, AllMixed
<1>11. AllFirst'
  <2>1. ASSUME NEW t \in Made PROVE HasFirst(t)'
    <3>1. PICK o \in Made : Alike(t, o) /\ task[o].user = Assignee[task[o].name]
      BY <2>1 DEF Couples, AllFirst, HasFirst
    <3>2. t \in TaskIds /\ o \in TaskIds /\ o \in Made' /\ t # n /\ o # n  BY DEF Made
    <3> QED  BY <1>1, <3>1, <3>2 DEF HasFirst, Alike
  <2>2. HasFirst(n)'
    <3>1. CASE row.user = Assignee[row.name]  BY <1>1, <3>1 DEF HasFirst, Alike
    <3>2. CASE \E a \in Made : task[a].request = row.request /\ task[a].name = row.name
      <4>1. PICK a \in Made : task[a].request = row.request /\ task[a].name = row.name  BY <3>2
      <4>2. PICK o \in Made : Alike(a, o) /\ task[o].user = Assignee[task[o].name]
        BY DEF Couples, AllFirst, HasFirst
      <4>3. o \in TaskIds /\ o \in Made' /\ o # n  BY DEF Made
      <4> QED  BY <1>1, <4>1, <4>2, <4>3 DEF HasFirst, Alike
    <3> QED  BY <3>1, <3>2
  <2> QED  BY <2>1, <2>2 DEF AllFirst
<1> QED  BY <1>4, <1>7, <1>10, <1>11 DEF Couples

(* The goroutines that write "open" find nothing to write.                  *)
Mute(p) == /\ ~p.closes => /\ p.pc \in {"up", "down"} /\ ~IsOpen(p.task)
                           /\ p.bound # 0 => ~IsOpen(p.bound)
                           /\ \A t \in TaskIds : IsOpen(t) => task[t].bound # p.task
           /\ p.pc = "upWrite" => p.above \in {0, p.bound}

(* A request at its first step has open tasks as long as none is being      *)
(* closed; so closing an original again, which its copy's run has closed,   *)
(* does not move the request.                                               *)
Closing == {"update", "reread", "read", "spread", "others", "advance"}
ClosingOn(r) == \E h \in Handlers : handler[h].pc \in Closing /\ task[handler[h].task].request = r
SomeOpen(r) == \E s \in TaskIds : IsOpen(s) /\ task[s].request = r
SomeClosed(r) == \E s \in TaskIds : IsClosed(s) /\ task[s].request = r
InPlay(r) == place[r] = 1 /\ SomeClosed(r) => ClosingOn(r) \/ SomeOpen(r)
OtherOpen(t) == \E s \in TaskIds : /\ IsOpen(s) /\ task[s].request = task[t].request
                                   /\ task[s].name # task[t].name
RowSolo(m) == m.pc \in Closing =>
    /\ Exists(m.task) /\ task[m.task].user = m.user
    /\ place[task[m.task].request] = 1 /\ task[m.task].bound = m.task =>
          m.pc # "advance" /\ OtherOpen(m.task)

(* What a call creates is for the user in charge of the step or for one     *)
(* other: the delegate, or the owner of the original that his copy, just    *)
(* closed, was made for.                                                    *)
Twosome(x, b) == {Assignee[x.name], IF b = 0 THEN TheDelegate ELSE Mate(b)}
Duet(x, b) ==
    /\ x.kind \in {"create", "insert"} =>
          /\ x.user \in Twosome(x, b)
          /\ x.bound # 0 => b = 0 /\ x.user = TheDelegate /\ Root(x.bound)
          /\ x.bound = 0 /\ x.task = 0 => x.user = Assignee[x.name]
    /\ x.kind = "delegates" /\ b = 0 /\ x.user # TheDelegate => Root(x.task)
    /\ \A t \in Made : Of(t, x.request, x.name) => Exists(t) /\ task[t].user \in Twosome(x, b)
    /\ b # 0 => Done(x.request) /\ Level[x.name] # 1
DuetItem(b) == {x \in Item : Duet(x, b)}
RowDuet(m) == m.pc = "create" => /\ m.bound # 0 => m.user = TheDelegate
                                 /\ m.todo \in Seq(DuetItem(m.bound))
NewCopy(c) == c.pc = "add" =>
    /\ ~Done(task[c.task].request)
    /\ ~Held(task[c.task].request, task[c.task].name, TheDelegate)

Paired == /\ Couples /\ Directed
          /\ \A p \in spreading : Mute(p)
          /\ \A r \in RequestIds : InPlay(r)
          /\ \A h \in Handlers : RowSolo(handler[h]) /\ RowDuet(handler[h])
          /\ \A c \in copying : NewCopy(c)

LEMMA InitPaired == ASSUME Init PROVE Paired
<1>1. Couples /\ Directed  BY InitCouples
<1>2. copying = {} /\ spreading = {}  BY DEF Init
<1>3. \A h \in Handlers : handler[h].pc = "idle"  BY DEF Init, Idle
<1>4. \A t \in TaskIds : ~IsClosed(t)  BY DEF Init, NoTask, IsClosed
<1> QED  BY <1>1, <1>2, <1>3, <1>4 DEF Paired, InPlay, SomeClosed, RowSolo, RowDuet, Closing

LEMMA OtherRow ==
    ASSUME NEW m, m.pc \in {"idle", "trigger", "unshare", "rivals", "withdraw"}
    PROVE  RowSolo(m)' /\ RowDuet(m)'
BY DEF RowSolo, RowDuet, Closing

(* The row of the one call at work.                                         *)
LEMMA PairedRows ==
    ASSUME IInv, NEW h \in Handlers, NEW m, handler' = [handler EXCEPT ![h] = m],
           \A g \in Handlers : g # h => handler[g].pc = "idle", RowSolo(m)', RowDuet(m)'
    PROVE  \A g \in Handlers : RowSolo(handler[g])' /\ RowDuet(handler[g])'
<1>0. handler' = [handler EXCEPT ![h] = m]  OBVIOUS
<1>1. \A g \in Handlers : handler'[g] = IF g = h THEN m ELSE handler[g]
  BY ONLY IInv, <1>0, OneRow
<1>2. ASSUME NEW g \in Handlers PROVE RowSolo(handler[g])' /\ RowDuet(handler[g])'
  <2>1. CASE g = h
    <3>1. handler'[g] = m  BY <1>1, <2>1
    <3> QED  BY <3>1
  <2>2. CASE g # h
    <3>1. PICK q : q = handler'[g]  OBVIOUS
    <3>2. q.pc = "idle"  BY <1>1, <2>2, <3>1
    <3>3. RowSolo(q)' /\ RowDuet(q)'  BY <3>2, OtherRow
    <3> QED  BY <3>1, <3>3
  <2> QED  BY <2>1, <2>2
<1> QED  BY <1>2

(* The UPDATEs that a call has still to do, when it does something else.    *)
LEMMA NotCreating ==
    ASSUME \A g \in Handlers : handler[g].pc # "create" PROVE PendingKept
BY DEF PendingKept, Pending

LEMMA SameHandlers == ASSUME UNCHANGED handler PROVE PendingKept
BY DEF PendingKept, Pending

LEMMA StackPending ==
    ASSUME IInv, Turnwise, NEW h \in Handlers, handler[h].pc = "create",
           NEW x, x = Head(handler[h].todo), NEW items \in Seq(Item), Replace(h, items)
    PROVE  \A s, t \in TaskIds :
              Pending(s, t) /\ ~(x.kind = "rebind" /\ x.task = s /\ x.bound = t) => Pending(s, t)'
<1>1. PICK m : /\ handler' = [handler EXCEPT ![h] = m]
               /\ \/ m = Idle
                  \/ /\ m.pc = "create" /\ m.todo = items \o Tail(handler[h].todo)
                     /\ m.todo # <<>> /\ m.bound = handler[h].bound
  BY StackRow
<1>2. PICK Q, T : Q = handler[h].todo /\ T = Tail(Q)  OBVIOUS
<1>3. Q \in Seq(Item) /\ Q # <<>> /\ T \in Seq(Item) /\ Head(Q) = x  BY <1>2, Stack
<1>4. m = Idle => items = <<>> /\ T = <<>>
  <2>1. handler' = [handler EXCEPT ![h] = Doing(handler[h], items \o T)]  BY <1>2 DEF Replace
  <2>2. handler \in [Handlers -> HandlerRow]  BY DEF IInv, TypeOK
  <2>3. m = Doing(handler[h], items \o T)  BY <1>1, <2>1, <2>2
  <2>4. m = Idle => items \o T = <<>>
    <3>1. handler[h] \in HandlerRow  BY <2>2
    <3>2. [handler[h] EXCEPT !.pc = "create", !.todo = items \o T].pc = "create"  BY <3>1 DEF HandlerRow
    <3>3. Idle.pc = "idle"  BY DEF Idle
    <3> QED  BY <2>3, <3>2, <3>3 DEF Doing
  <2> QED  BY <1>3, <2>4
<1>5. ASSUME NEW s \in TaskIds, NEW t \in TaskIds, Pending(s, t),
             ~(x.kind = "rebind" /\ x.task = s /\ x.bound = t)
      PROVE  Pending(s, t)'
  <2>1. PICK g \in Handlers : /\ handler[g].pc = "create"
                              /\ \E i \in 1 .. Len(handler[g].todo) :
                                    /\ handler[g].todo[i].kind = "rebind"
                                    /\ handler[g].todo[i].task = s /\ handler[g].todo[i].bound = t
    BY <1>5 DEF Pending
  <2>2. g = h  BY <2>1 DEF Turnwise, Busy
  <2>3. PICK i \in 1 .. Len(Q) : Q[i].kind = "rebind" /\ Q[i].task = s /\ Q[i].bound = t
    BY <1>2, <2>1, <2>2
  <2>4. i # 1  BY <1>3, <1>5, <2>3
  <2>5. i - 1 \in 1 .. Len(T) /\ T[i - 1] = Q[i]  BY <1>2, <1>3, <2>3, <2>4
  <2>6. T # <<>>  BY <2>5
  <2>7. m.pc = "create" /\ m.todo = items \o T  BY <1>1, <1>2, <1>4, <2>6
  <2>8. PICK U : U = items \o T  OBVIOUS
  <2>9. Len(items) + i - 1 \in 1 .. Len(U) /\ U[Len(items) + i - 1] = T[i - 1]
    BY <1>3, <2>5, <2>8
  <2>10. handler'[h] = m  BY <1>1 DEF IInv, TypeOK
  <2>11. \E j \in 1 .. Len(U) : U[j].kind = "rebind" /\ U[j].task = s /\ U[j].bound = t
    BY <2>3, <2>5, <2>9
  <2> QED  BY <2>7, <2>8, <2>10, <2>11 DEF Pending
<1> QED  BY ONLY <1>5

LEMMA StackKept ==
    ASSUME IInv, Turnwise, NEW h \in Handlers, handler[h].pc = "create",
           Head(handler[h].todo).kind # "rebind", NEW items \in Seq(Item), Replace(h, items)
    PROVE  PendingKept
<1>1. PICK x : x = Head(handler[h].todo)  OBVIOUS
<1> QED  BY <1>1, StackPending DEF PendingKept

LEMMA SameCouples ==
    ASSUME IInv, Couples, UNCHANGED <<task, nextTask>>, PendingKept
    PROVE  Couples'
<1>1. Made' = Made /\ Thin  BY MadeSame, SameThin
<1>2. ASSUME NEW t \in TaskIds, task'[t].state # "none", ~Root(t) PROVE task'[task[t].bound].state # "none"
  <2>1. Exists(t)  BY <1>2 DEF Exists
  <2>2. Flat(t)  BY <2>1 DEF Couples, AllFlat
  <2> QED  BY <1>2, <2>2 DEF Flat, Exists
<1> QED  BY <1>1, <1>2, CouplesThin

LEMMA MadeTasks ==
    ASSUME IInv, NEW p \in spreading
    PROVE  p \in Spread /\ p.task \in Made /\ p.task \in TaskIds
           /\ (p.bound # 0 => p.bound \in Made /\ p.bound \in TaskIds)
BY DEF IInv, RunsGood, GoodSpread, Free, Kin, Made

LEMMA MuteQuiet ==
    ASSUME IInv, Paired, Quiet, spreading' \subseteq spreading
    PROVE  \A p \in spreading' : Mute(p)'
<1>1. ASSUME NEW p \in spreading' PROVE Mute(p)'
  <2>1. p \in spreading /\ Mute(p)  BY DEF Paired
  <2>2. p.task \in Made /\ p.task \in TaskIds /\ (p.bound # 0 => p.bound \in Made /\ p.bound \in TaskIds)
    BY <2>1, MadeTasks
  <2>3. ASSUME ~p.closes
        PROVE  /\ p.pc \in {"up", "down"} /\ ~IsOpen(p.task)'
               /\ p.bound # 0 => ~IsOpen(p.bound)'
    BY <2>1, <2>2, <2>3 DEF Mute, Quiet, IsOpen
  <2>4. ASSUME ~p.closes, NEW t \in TaskIds, IsOpen(t)', task'[t].bound = p.task PROVE FALSE
    <3>1. p.task # 0 /\ ~IsOpen(p.task)  BY <2>1, <2>2, <2>4, Sizes DEF Mute
    <3>2. Exists(t) /\ task[t].bound = p.task  BY <2>4, <3>1 DEF Quiet, IsOpen
    <3>3. t \in Made  BY <3>2, ExistsMade
    <3>4. IsOpen(t)  BY <2>4, <3>3 DEF Quiet, IsOpen
    <3> QED  BY <2>1, <2>4, <3>2, <3>4 DEF Mute
  <2> QED  BY <2>1, <2>3, <2>4 DEF Mute
<1> QED  BY <1>1

LEMMA InPlayKept ==
    ASSUME NEW r \in RequestIds, InPlay(r), place'[r] = place[r],
           SomeClosed(r)' => SomeClosed(r) \/ ClosingOn(r)',
           SomeOpen(r) => SomeOpen(r)' \/ ClosingOn(r)',
           ClosingOn(r) => ClosingOn(r)' \/ SomeOpen(r)'
    PROVE  InPlay(r)'
BY DEF InPlay

(* A step of the one call at work that writes no task and no delegation.    *)
LEMMA PairedSame ==
    ASSUME IInv, Paired, UNCHANGED <<place, request, task, nextTask, spreading>>, Directed', PendingKept,
           \A r \in RequestIds : ClosingOn(r) => ClosingOn(r)' \/ SomeOpen(r),
           \A c \in copying' : NewCopy(c)',
           \A g \in Handlers : RowSolo(handler[g])' /\ RowDuet(handler[g])'
    PROVE  Paired'
<1>1. Couples'  BY SameCouples DEF Paired
<1>2. \A p \in spreading' : Mute(p)'  BY MuteQuiet, SameQuiet
<1>3. ASSUME NEW r \in RequestIds PROVE InPlay(r)'
  <2>1. InPlay(r) /\ place'[r] = place[r]  BY DEF Paired
  <2>2. SomeClosed(r)' => SomeClosed(r)  BY DEF SomeClosed, IsClosed
  <2>3. SomeOpen(r) => SomeOpen(r)'  BY DEF SomeOpen, IsOpen
  <2> QED  BY <2>1, <2>2, <2>3, InPlayKept
<1> QED  BY <1>1, <1>2, <1>3 DEF Paired

LEMMA DirectedSame ==
    ASSUME Directed, UNCHANGED <<delegation, nextDelegation>> PROVE Directed'
BY DEF Directed, MadeDelegations

LEMMA StackUser ==
    ASSUME IInv, NEW h \in Handlers, NEW items, Replace(h, items), handler'[h].pc = "create"
    PROVE  handler'[h].user = handler[h].user
<1>1. handler[h] \in HandlerRow /\ handler \in [Handlers -> HandlerRow]  BY DEF IInv, TypeOK
<1>2. PICK todo : todo = items \o Tail(handler[h].todo)  OBVIOUS
<1>3. handler'[h] = Doing(handler[h], todo)  BY <1>1, <1>2 DEF Replace
<1>4. handler'[h] = [handler[h] EXCEPT !.pc = "create", !.todo = todo]
  BY <1>3 DEF Doing, Idle
<1> QED  BY <1>1, <1>4 DEF HandlerRow

(* A call that replaces the first thing to do.                              *)
LEMMA DuetStack ==
    ASSUME IInv, Turnwise, Paired, NEW h \in Handlers, handler[h].pc = "create",
           NEW b, b = handler[h].bound, NEW items \in Seq(Item), Replace(h, items),
           \A i \in 1 .. Len(items) : items[i] \in DuetItem(b)',
           \A y \in DuetItem(b) : y \in GoodItem => y \in DuetItem(b)'
    PROVE  \A g \in Handlers : RowSolo(handler[g])' /\ RowDuet(handler[g])'
<1>1. PICK m : /\ handler' = [handler EXCEPT ![h] = m]
               /\ \/ m = Idle
                  \/ /\ m.pc = "create" /\ m.todo = items \o Tail(handler[h].todo)
                     /\ m.todo # <<>> /\ m.bound = handler[h].bound
  BY StackRow
<1>2. \A g \in Handlers : g # h => handler[g].pc = "idle"  BY DEF Turnwise, Busy
<1>3. handler'[h] = m  BY <1>1 DEF IInv, TypeOK
<1>4. m.pc = "create" => m.user = handler[h].user  BY <1>3, StackUser
<1>6. PICK S, T : S = DuetItem(b)' /\ T = Tail(handler[h].todo)  OBVIOUS
<1>7. T \in Seq(S)
  <2>1. handler[h].todo \in Seq(GoodItem) /\ handler[h].todo # <<>>
    BY DEF IInv, CallsGood, GoodHandler
  <2>3. handler[h].todo \in Seq(DuetItem(b))  BY DEF Paired, RowDuet
  <2>4. PICK G, F, Q : G = GoodItem /\ F = DuetItem(b) /\ Q = handler[h].todo  OBVIOUS
  <2>40. Q \in Seq(G) /\ Q \in Seq(F) /\ Q # <<>>  BY <2>1, <2>3, <2>4
  <2>41. T = Tail(Q)  BY <1>6, <2>4
  <2>5. T \in Seq(G) /\ T \in Seq(F)  BY <2>40, <2>41
  <2>6. \A i \in 1 .. Len(T) : T[i] \in G /\ T[i] \in F  BY <2>5
  <2>7. \A i \in 1 .. Len(T) : T[i] \in S  BY <1>6, <2>4, <2>6
  <2> QED  BY <2>5, <2>7
<1>8. items \in Seq(S)
  <2>1. \A i \in 1 .. Len(items) : items[i] \in S  BY <1>6
  <2> QED  BY <2>1
<1>9. items \o T \in Seq(S)  BY <1>7, <1>8
<1>10. b # 0 => handler[h].user = TheDelegate  BY DEF Paired, RowDuet
<1>11. RowSolo(m)' /\ RowDuet(m)'
  <2>1. CASE m = Idle  BY <2>1, OtherRow DEF Idle
  <2>2. CASE m.pc = "create" /\ m.todo = items \o Tail(handler[h].todo) /\ m.bound = handler[h].bound
    <3>1. m.bound = b /\ m.todo = items \o T  BY <1>6, <2>2
    <3>2. m.todo \in Seq(DuetItem(m.bound)')  BY <1>6, <1>9, <3>1
    <3>3. RowDuet(m)'  BY <1>4, <1>10, <2>2, <3>1, <3>2 DEF RowDuet
    <3>5. RowSolo(m)'  BY <2>2 DEF RowSolo, Closing
    <3> QED  BY <3>3, <3>5
  <2> QED  BY <1>1, <2>1, <2>2
<1>13. handler' = [handler EXCEPT ![h] = m]  BY <1>1
<1> QED  BY <1>2, <1>11, <1>13, PairedRows

LEMMA HeadDuet ==
    ASSUME IInv, Paired, NEW h \in Handlers, handler[h].pc = "create", NEW b, b = handler[h].bound,
           NEW x, x = Head(handler[h].todo)
    PROVE  Duet(x, b) /\ (b # 0 => handler[h].user = TheDelegate)
<1>1. handler[h].todo \in Seq(DuetItem(b)) /\ (b # 0 => handler[h].user = TheDelegate)
  BY DEF Paired, RowDuet
<1>2. handler[h].todo # <<>>  BY Stack
<1>3. x \in DuetItem(b)  BY <1>1, <1>2
<1> QED  BY <1>1, <1>3 DEF DuetItem

(* When the delegate has closed a copy, what is created has no delegates:   *)
(* he is the one.                                                           *)
LEMMA NoDelegates ==
    ASSUME IInv, Directed, NEW h \in Handlers, GiveDelegates(h), handler[h].user = TheDelegate
    PROVE  Replace(h, <<>>)
<1>1. PICK x, S : /\ x = Head(handler[h].todo)
                  /\ S = {d \in DelegationIds : /\ Current(d) /\ delegation[d].task = 0
                                                /\ delegation[d].from = x.user
                                                /\ delegation[d].to # handler[h].user}
  OBVIOUS
<1>2. PICK f \in SetToSeqs(S) : Replace(h, DelegateItems(x, f))  BY <1>1 DEF GiveDelegates
<1>3. S = {}
  <2>1. ASSUME NEW d \in S PROVE FALSE
    <3>1. d \in MadeDelegations  BY <1>1, CurrentMade DEF Current
    <3> QED  BY <1>1, <3>1 DEF Directed
  <2> QED  BY <2>1
<1>4. f = <<>>
  <2>1. f \in [1 .. Cardinality({}) -> {}]  BY <1>2, <1>3 DEF SetToSeqs
  <2>2. Cardinality({}) = 0  BY FS_EmptySet
  <2> QED  BY <2>1, <2>2
<1>5. DelegateItems(x, f) = <<>>  BY <1>4 DEF DelegateItems
<1> QED  BY <1>2, <1>5

(* Beside a call that is creating, no other is at work and none is closing. *)
LEMMA CreatingAlone ==
    ASSUME IInv, Turnwise, NEW h \in Handlers, handler[h].pc = "create"
    PROVE  /\ \A g \in Handlers : g # h => handler[g].pc = "idle"
           /\ copying = {} /\ \A r : ~ClosingOn(r)
BY DEF Turnwise, Busy, ClosingOn, Closing

LEMMA PairedItems ==
    ASSUME IInv, Turnwise, Placed, Sorted, Paired, NEW h \in Handlers,
           FindTask(h) \/ InsertFails(h) \/ GiveOwner(h) \/ GiveDelegates(h) \/ FindShare(h) \/ AddShare(h)
    PROVE  Paired'
<1>0. UNCHANGED <<place, request, task, delegation, nextTask, nextDelegation, copying, spreading>> /\ handler[h].pc = "create"
  BY DEF FindTask, InsertFails, GiveOwner, GiveDelegates, FindShare, AddShare, Does
<1>01. PICK x, b : x = Head(handler[h].todo) /\ b = handler[h].bound  OBVIOUS
<1>02. x \in Item /\ x \in GoodItem /\ b \in Made \cup {0}  BY <1>0, <1>01, HeadFits
<1>03. Duet(x, b) /\ (b # 0 => handler[h].user = TheDelegate)  BY <1>0, <1>01, HeadDuet
<1>04. Directed  BY DEF Paired
<1>05. x.kind # "rebind"
  BY <1>01 DEF FindTask, InsertFails, GiveOwner, GiveDelegates, FindShare, AddShare, Does
<1>06. ASSUME NEW items \in Seq(Item), \A i \in 1 .. Len(items) : Duet(items[i], b), Replace(h, items)
       PROVE  Paired'
  <2>0. DuetItem(b)' = DuetItem(b)
    <3>1. Made' = Made  BY <1>0, MadeSame
    <3>2. \A r : Done(r)' <=> Done(r)  BY <1>0 DEF Done, IsClosed
    <3>3. \A t, r, n : Of(t, r, n)' <=> Of(t, r, n)  BY <1>0, <3>1 DEF Of
    <3>4. \A y : Twosome(y, b)' = Twosome(y, b)  BY <1>0 DEF Twosome, Mate
    <3>5. \A y : Duet(y, b)' <=> Duet(y, b)
      BY <1>0, <3>1, <3>2, <3>3, <3>4 DEF Duet, Root, Exists
    <3> QED  BY <3>5 DEF DuetItem
  <2>1. \A i \in 1 .. Len(items) : items[i] \in DuetItem(b)'  BY <1>06, <2>0 DEF DuetItem
  <2>2. \A y \in DuetItem(b) : y \in GoodItem => y \in DuetItem(b)'  BY <2>0
  <2>3. \A g \in Handlers : RowSolo(handler[g])' /\ RowDuet(handler[g])'
    BY <1>0, <1>01, <1>06, <2>1, <2>2, DuetStack
  <2>4. PendingKept  BY <1>0, <1>01, <1>05, <1>06, StackKept
  <2>5. Directed'  BY <1>0, <1>04, DirectedSame
  <2>6. copying = {} /\ \A r : ~ClosingOn(r)  BY <1>0, CreatingAlone
  <2> QED  BY <1>0, <2>3, <2>4, <2>5, <2>6, PairedSame
<1>07. ASSUME Replace(h, <<>>) PROVE Paired'
  <2>1. <<>> \in Seq(Item) /\ \A i \in 1 .. Len(<<>>) : Duet(<<>>[i], b)  OBVIOUS
  <2> QED  BY <1>06, <1>07, <2>1
<1>08. ASSUME NEW y \in Item, Duet(y, b), Replace(h, <<y>>) PROVE Paired'
  <2>1. <<y>> \in Seq(Item) /\ \A i \in 1 .. Len(<<y>>) : <<y>>[i] = y  OBVIOUS
  <2>2. \A i \in 1 .. Len(<<y>>) : Duet(<<y>>[i], b)  BY <1>08, <2>1
  <2> QED  BY <1>06, <1>08, <2>1, <2>2
<1>1. CASE FindTask(h)
  <2>1. PICK y, items : /\ x.kind = "create" /\ y = [x EXCEPT !.kind = "insert"] /\ y \in Item
                        /\ items = <<>> \/ items = <<y>>
                        /\ Replace(h, items)
    BY <1>1, <1>01, FindTaskEffect
  <2>2. CASE items = <<>>  BY <1>07, <2>1, <2>2
  <2>3. CASE items = <<y>>
    <3>1. /\ y.kind = "insert" /\ y.task = x.task /\ y.bound = x.bound /\ y.user = x.user
          /\ y.request = x.request /\ y.name = x.name
      BY <1>02, <2>1 DEF Item
    <3>3. Duet(y, b)  BY <1>03, <2>1, <3>1 DEF Duet, Twosome
    <3> QED  BY <1>08, <2>1, <2>3, <3>3
  <2> QED  BY <2>1, <2>2, <2>3
<1>2. CASE InsertFails(h) \/ AddShare(h)
  <2>1. Replace(h, <<>>)  BY <1>2 DEF InsertFails, AddShare
  <2> QED  BY <1>07, <2>1
<1>3. CASE GiveOwner(h)
  <2>1. PICK y, items :
             /\ x.kind = "owner" /\ y = Create(x.request, x.name, task[b].user, 0, x.task)
             /\ items = <<>> \/ (items = <<y>> /\ b # 0 /\ y \in Item)
             /\ Replace(h, items)
    BY <1>3, <1>01, GiveOwnerEffect
  <2>2. CASE items = <<>>  BY <1>07, <2>1, <2>2
  <2>3. CASE items = <<y>> /\ b # 0 /\ y \in Item
    <3>1. /\ y.kind = "create" /\ y.bound = 0 /\ y.task = x.task /\ y.user = Mate(b)
          /\ y.request = x.request /\ y.name = x.name
      BY <2>1, <2>3 DEF Create, Mate
    <3>2. x.task # 0  BY <1>02, <2>1 DEF GoodItem, Of, Made
    <3>3. Duet(y, b)  BY <1>03, <2>3, <3>1, <3>2 DEF Duet, Twosome
    <3> QED  BY <1>08, <2>1, <2>3, <3>3
  <2> QED  BY <2>1, <2>2, <2>3
<1>4. CASE GiveDelegates(h)
  <2>0. CASE b # 0
    <3>1. Replace(h, <<>>)  BY <1>03, <1>04, <1>4, <2>0, NoDelegates
    <3> QED  BY <1>07, <3>1
  <2>00. CASE b = 0
    <3>1. PICK items : /\ x.kind = "delegates" /\ items \in Seq(Item) /\ Replace(h, items)
                       /\ \A i \in 1 .. Len(items) : FromDelegation(x, items[i])
      BY <1>4, <1>01, GiveDelegatesEffect
    <3>3. ASSUME NEW i \in 1 .. Len(items) PROVE Duet(items[i], b)
      <4>1. PICK y, d : /\ y = items[i] /\ d \in MadeDelegations /\ delegation[d].from = x.user
                        /\ \/ y = Create(x.request, x.name, delegation[d].to, x.task, 0)
                           \/ y = [x EXCEPT !.kind = "share", !.delegation = d]
        BY <3>1 DEF FromDelegation
      <4>2. CASE y = Create(x.request, x.name, delegation[d].to, x.task, 0)
        <5>1. /\ y.kind = "create" /\ y.bound = x.task /\ y.task = 0 /\ y.user = TheDelegate
              /\ y.request = x.request /\ y.name = x.name
          BY <1>04, <4>1, <4>2 DEF Create, Directed
        <5>2. x.user # TheDelegate  BY <1>04, <4>1 DEF Directed
        <5>3. x.task # 0  BY <1>02, <3>1 DEF GoodItem, Of, Made
        <5>4. Root(x.task)  BY <1>03, <2>00, <3>1, <5>2 DEF Duet
        <5> QED  BY <1>03, <2>00, <4>1, <5>1, <5>3, <5>4 DEF Duet, Twosome
      <4>3. CASE y = [x EXCEPT !.kind = "share", !.delegation = d]
        <5>1. y.kind = "share" /\ y.request = x.request /\ y.name = x.name  BY <1>02, <4>3 DEF Item
        <5> QED  BY <1>03, <4>1, <5>1 DEF Duet, Twosome
      <4> QED  BY <4>1, <4>2, <4>3
    <3> QED  BY <1>06, <3>1, <3>3
  <2> QED  BY <2>0, <2>00
<1>5. CASE FindShare(h)
  <2>1. PICK y : y = [x EXCEPT !.kind = "addShare"]  OBVIOUS
  <2>2. y \in Item /\ y.kind = "addShare" /\ y.request = x.request /\ y.name = x.name  BY <1>02, <2>1 DEF Item
  <2>3. Replace(h, <<>>) \/ Replace(h, <<y>>)  BY <1>5, <1>01, <2>1 DEF FindShare
  <2>4. Duet(y, b)  BY <1>03, <2>2 DEF Duet, Twosome
  <2> QED  BY <1>07, <1>08, <2>2, <2>3, <2>4
<1> QED  BY <1>1, <1>2, <1>3, <1>4, <1>5

(* A delegate's new task is bound to the one of the owner: nothing is bound *)
(* to it, for a step has two tasks at most.                                 *)
LEMMA PairedRebind ==
    ASSUME IInv, Turnwise, Placed, Sorted, Paired, NEW h \in Handlers, Rebind(h)
    PROVE  Paired'
<1>1. PICK x, b : x = Head(handler[h].todo) /\ b = handler[h].bound  OBVIOUS
<1>2. handler[h].pc = "create" /\ x.kind = "rebind" /\ Replace(h, <<>>)  BY <1>1 DEF Rebind, Does
<1>3. x \in GoodItem /\ Fits(x, Mate(b)) /\ b \in Made \cup {0} /\ Duet(x, b)
  BY <1>1, <1>2, HeadFits, HeadDuet
<1>4. PICK z, w, B : z = x.task /\ w = x.bound /\ B = Mate(b)  OBVIOUS
<1>5. /\ IsOpen(z) /\ IsOpen(w) /\ Root(w) /\ task[w].user = B /\ task[z].user # B
  BY <1>2, <1>3, <1>4 DEF Fits
<1>6. Of(z, x.request, x.name) /\ Of(w, x.request, x.name)  BY <1>2, <1>3, <1>4 DEF GoodItem
<1>7. z \in TaskIds /\ w \in TaskIds /\ z # w /\ z \in Made /\ w \in Made  BY <1>5, <1>6 DEF Of, Made
<1>8. task' = [task EXCEPT ![z].bound = w]  BY <1>1, <1>4, <1>5 DEF Rebind, Exists, IsOpen
<1>9. /\ \A t \in TaskIds : /\ task'[t].state = task[t].state /\ task'[t].user = task[t].user
                            /\ task'[t].request = task[t].request /\ task'[t].name = task[t].name
      /\ \A t \in TaskIds : t # z => task'[t] = task[t]
      /\ task'[z].bound = w
  BY <1>7, <1>8, TaskTable, TaskRows DEF TaskRow
<1>10. UNCHANGED <<place, request, delegation, nextTask, nextDelegation, copying, spreading>>  BY DEF Rebind
<1>11. b # 0
  <2>1. task[w].user \in Users  BY <1>7 DEF IInv, RowsGood
  <2> QED  BY <1>4, <1>5, <2>1, StepAssumption DEF Mate
<1>12. Couples  BY DEF Paired
<1>13. Same(z, w)  BY <1>5, <1>6 DEF Same, Alike, Of, IsOpen, Exists
<1>14. \A s \in TaskIds : Same(s, z) /\ s # z => s = w
  <2>1. ASSUME NEW s \in TaskIds, Same(s, z), s # z PROVE s = w
    <3>1. s = z \/ z = w \/ s = w  BY <1>7, <1>12, <1>13, <2>1 DEF Couples, Duo
    <3> QED  BY <1>7, <2>1, <3>1
  <2> QED  BY <2>1
<1>15. \A s, t \in TaskIds : Same(s, t)' <=> Same(s, t)  BY <1>9 DEF Same, Alike, Exists
<1>16. Duo'  BY <1>12, <1>15 DEF Couples, Duo
<1>17. ASSUME NEW t \in TaskIds, Exists(t)' PROVE Flat(t)'
  <2>1. Exists(t) /\ Flat(t)
    <3>1. Exists(t)  BY <1>9, <1>17 DEF Exists
    <3> QED  BY <1>12, <3>1 DEF Couples, AllFlat
  <2>2. CASE t = z
    <3>1. Exists(w)' /\ Root(w)'  BY <1>5, <1>7, <1>9 DEF Exists, IsOpen, Root
    <3>2. Level[task[z].name] # 1  BY <1>3, <1>6, <1>11 DEF Duet, Of
    <3> QED  BY <1>7, <1>9, <2>2, <3>1, <3>2 DEF Flat, Root
  <2>3. CASE t # z
    <3>1. task'[t] = task[t]  BY <1>9, <2>3
    <3>2. PICK o : o = task[t].bound  OBVIOUS
    <3>3. ASSUME ~Root(t) PROVE Exists(o)' /\ Root(o)'
      <4>1. o \in TaskIds /\ Kin(t, o)
        <5>1. o \in 0 .. MaxTasks  BY <3>2, TaskRows DEF TaskRow
        <5>2. o \in TaskIds  BY <3>2, <3>3, <5>1, Sizes DEF Root
        <5> QED  BY <2>1, <3>2, <5>2, BoundKin
      <4>2. Exists(o) /\ Root(o)  BY <2>1, <3>2, <3>3 DEF Flat
      <4>3. o # z
        <5>1. ASSUME o = z PROVE FALSE
          <6>1. Same(t, z)  BY <2>1, <4>1, <4>2, <5>1 DEF Same, Alike, Kin, Of
          <6>2. t = w  BY <1>14, <2>3, <6>1
          <6>3. z # 0  BY <1>7, Sizes
          <6> QED  BY <1>5, <1>7, <3>2, <5>1, <6>2, <6>3 DEF Root
        <5> QED  BY <5>1
      <4> QED  BY <1>9, <4>1, <4>2, <4>3 DEF Exists, Root
    <3> QED  BY <2>1, <3>1, <3>2, <3>3 DEF Flat, Root, IsClosed
  <2> QED  BY <2>2, <2>3
<1>18. AllFlat'  BY <1>17 DEF AllFlat
<1>19. \A s, t \in TaskIds : Pending(s, t) => Pending(s, t)' \/ (s = z /\ t = w)
  BY <1>1, <1>2, <1>4, StackPending, None
<1>20. \A t \in TaskIds : IsClosed(t) => task'[t] = task[t]  BY <1>5, <1>9 DEF IsClosed, IsOpen
<1>21. ASSUME NEW s \in TaskIds, NEW t \in TaskIds, Same(s, t)', s # t PROVE Tied(s, t)' /\ Mixed(s, t)'
  <2>1. Same(s, t) /\ Same(t, s) /\ Tied(s, t) /\ Mixed(s, t)
    BY <1>12, <1>15, <1>21 DEF Couples, AllTied, AllMixed, Same, Alike
  <2>2. Bound(z, w)'  BY <1>7, <1>9 DEF Bound
  <2>3. Tied(s, t)'
    <3>1. CASE s = z
      <4>1. t = w  BY <1>14, <1>21, <2>1, <3>1
      <4> QED  BY <2>2, <3>1, <4>1 DEF Tied
    <3>2. CASE t = z
      <4>1. s = w  BY <1>14, <1>21, <2>1, <3>2
      <4> QED  BY <2>2, <3>2, <4>1 DEF Tied
    <3>3. CASE s # z /\ t # z
      <4>1. task'[s] = task[s] /\ task'[t] = task[t]  BY <1>9, <3>3
      <4>2. /\ Bound(s, t) => Bound(s, t)'
            /\ Bound(t, s) => Bound(t, s)'
        BY <4>1 DEF Bound
      <4>3. /\ Pending(s, t) => Pending(s, t)'
            /\ Pending(t, s) => Pending(t, s)'
        BY <1>19, <3>3
      <4> QED  BY <2>1, <4>2, <4>3 DEF Tied
    <3> QED  BY <3>1, <3>2, <3>3
  <2>6. PICK r : r = task[s].request  OBVIOUS
  <2>7. Done(r) => Done(r)'  BY <1>20, DoneKept
  <2>8. Mixed(s, t)'  BY <1>9, <2>1, <2>6, <2>7 DEF Mixed
  <2> QED  BY <2>3, <2>8
<1>22. AllTied' /\ AllMixed'  BY <1>21 DEF AllTied, AllMixed
<1>23. AllFirst'
  <2>1. Made' = Made  BY <1>10, MadeSame
  <2>2. ASSUME NEW t \in Made PROVE HasFirst(t)'
    <3>1. PICK o \in Made : Alike(t, o) /\ task[o].user = Assignee[task[o].name]
      BY <1>12 DEF Couples, AllFirst, HasFirst
    <3>2. t \in TaskIds /\ o \in TaskIds  BY DEF Made
    <3> QED  BY <1>9, <2>1, <3>1, <3>2 DEF HasFirst, Alike
  <2> QED  BY <2>1, <2>2 DEF AllFirst
<1>24. Couples'  BY <1>16, <1>18, <1>22, <1>23 DEF Couples
<1>25. Proceed(h)  BY DEF Proceed
<1>26. Quiet  BY <1>25, ProceedQuiet
<1>27. \A p \in spreading' : Mute(p)'  BY <1>10, <1>26, MuteQuiet
<1>28. copying = {} /\ \A r : ~ClosingOn(r)  BY <1>2, CreatingAlone
<1>29. ASSUME NEW r \in RequestIds PROVE InPlay(r)'
  <2>1. InPlay(r) /\ place'[r] = place[r]  BY <1>10 DEF Paired
  <2>2. SomeClosed(r)' => SomeClosed(r)  BY <1>9 DEF SomeClosed, IsClosed
  <2>3. SomeOpen(r) => SomeOpen(r)'  BY <1>9 DEF SomeOpen, IsOpen
  <2> QED  BY <1>28, <2>1, <2>2, <2>3, InPlayKept
<1>30. ASSUME NEW y \in DuetItem(b), y \in GoodItem PROVE y \in DuetItem(b)'
  <2>1. y \in Item /\ Duet(y, b)  BY <1>30 DEF DuetItem
  <2>2. Twosome(y, b)' = Twosome(y, b)
    <3>1. b # 0 => b \in TaskIds  BY <1>3 DEF Made
    <3> QED  BY <1>9, <3>1 DEF Twosome, Mate
  <2>3. Made' = Made  BY <1>10, MadeSame
  <2>4. ASSUME NEW t \in Made, Of(t, y.request, y.name)' PROVE Exists(t)' /\ task'[t].user \in Twosome(y, b)
    <3>1. t \in TaskIds  BY DEF Made
    <3>2. Of(t, y.request, y.name)  BY <1>9, <2>4, <3>1 DEF Of
    <3> QED  BY <1>9, <2>1, <3>1, <3>2 DEF Duet, Exists
  <2>5. PICK r : r = y.request  OBVIOUS
  <2>6. Done(r)'  BY <1>11, <1>20, <2>1, <2>5, DoneKept DEF Duet
  <2>7. Duet(y, b)'  BY <1>11, <2>1, <2>2, <2>3, <2>4, <2>5, <2>6 DEF Duet
  <2> QED  BY <2>1, <2>7 DEF DuetItem
<1>31. <<>> \in Seq(Item) /\ \A i \in 1 .. Len(<<>>) : <<>>[i] \in DuetItem(b)'  OBVIOUS
<1>32. \A g \in Handlers : RowSolo(handler[g])' /\ RowDuet(handler[g])'
  BY <1>1, <1>2, <1>30, <1>31, DuetStack
<1>33. Directed'  BY <1>10, DirectedSame DEF Paired
<1> QED  BY <1>10, <1>24, <1>27, <1>28, <1>29, <1>32, <1>33 DEF Paired

(* What remains to be done when a task has been inserted.                   *)
LEMMA DuetMore ==
    ASSUME IInv, NEW n \in TaskIds, n \notin Made, Made' = Made \cup {n}, NEW row,
           \A t \in TaskIds : task'[t] = IF t = n THEN row ELSE task[t], row.state = "open",
           \A t \in TaskIds : IsClosed(t) => task'[t] = task[t],
           NEW b \in Made \cup {0}, row.user \in Twosome(row, b), NEW y, Duet(y, b),
           y.kind \in {"create", "insert"} => y.bound = 0 \/ y.bound \in Made,
           y.kind = "delegates" /\ b = 0 /\ y.user # TheDelegate => y.task \in Made \/ Root(y.task)'
    PROVE  Duet(y, b)'
<1>1. task'[n] = row /\ \A t \in TaskIds : t # n => task'[t] = task[t]  OBVIOUS
<1>2. \A q : Twosome(q, b)' = Twosome(q, b)
  <2>1. b # 0 => b \in TaskIds /\ b # n  BY DEF Made
  <2> QED  BY <1>1, <2>1 DEF Twosome, Mate
<1>3. ASSUME NEW t \in Made', Of(t, y.request, y.name)' PROVE Exists(t)' /\ task'[t].user \in Twosome(y, b)
  <2>1. CASE t = n
    <3>1. row.name = y.name  BY <1>1, <1>3, <2>1 DEF Of
    <3>2. Twosome(row, b) = Twosome(y, b)  BY <3>1 DEF Twosome
    <3> QED  BY <1>1, <2>1, <3>2 DEF Exists
  <2>2. CASE t # n
    <3>1. t \in Made /\ t \in TaskIds /\ task'[t] = task[t]  BY <1>1, <1>3, <2>2 DEF Made
    <3>2. Of(t, y.request, y.name)  BY <1>3, <3>1 DEF Of
    <3> QED  BY <3>1, <3>2 DEF Duet, Exists
  <2> QED  BY <2>1, <2>2
<1>4. b # 0 => Done(y.request)'
  <2>1. PICK r : r = y.request  OBVIOUS
  <2> QED  BY <2>1, DoneKept DEF Duet
<1>5. \A t \in Made : Root(t) => Root(t)'  BY <1>1 DEF Root, Made
<1> QED  BY <1>2, <1>3, <1>4, <1>5 DEF Duet

LEMMA FrontOf ==
    ASSUME NEW I, NEW s \in Seq(I), NEW T \in Seq(I), NEW i \in 1 .. Len(s)
    PROVE  i \in 1 .. Len(s \o T) /\ (s \o T)[i] = s[i]
<1>1. Len(s \o T) = Len(s) + Len(T) /\ Len(T) \in Nat /\ Len(s) \in Nat  OBVIOUS
<1>2. (s \o T)[i] = s[i]  OBVIOUS
<1> QED  BY <1>1, <1>2

(* At a place that a call has just reached, each step is created for the    *)
(* user in charge of it first; the second task is for the one other.        *)
LEMMA PairedInsert ==
    ASSUME IInv, Turnwise, Single, Placed, Sorted, Paired, NEW h \in Handlers, InsertTask(h)
    PROVE  Paired'
<1>1. PICK x, n, row, y, z, w, items :
              /\ x = Head(handler[h].todo) /\ x \in Item /\ x.kind = "insert"
              /\ handler[h].pc = "create"
              /\ n \in TaskIds /\ ~Exists(n) /\ n \notin Made
              /\ row = [state |-> "open", request |-> x.request, name |-> x.name,
                        user |-> x.user, bound |-> x.bound, entity |-> Entity[x.name]]
              /\ \A t \in TaskIds : task'[t] = IF t = n THEN row ELSE task[t]
              /\ y = [x EXCEPT !.kind = "owner", !.task = n] /\ y \in Item
              /\ z = [x EXCEPT !.kind = "delegates", !.task = n] /\ z \in Item
              /\ w = [x EXCEPT !.kind = "rebind", !.bound = n] /\ w \in Item
              /\ (x.task = 0 /\ items = <<y, z>>) \/ (x.task # 0 /\ items = <<y, z>> \o <<w>>)
              /\ items \in Seq(Item) /\ Replace(h, items)
  BY InsertEffect
<1>2. PICK b : b = handler[h].bound  OBVIOUS
<1>3. x \in GoodItem /\ Fits(x, Mate(b)) /\ b \in Made \cup {0} /\ Duet(x, b)
  BY <1>1, <1>2, HeadFits, HeadDuet
<1>4. UNCHANGED <<place, request, delegation, nextDelegation, copying, spreading>>  BY DEF InsertTask
<1>5. Made' = Made \cup {n}
  <2>1. task'[n].state # "none"  BY <1>1
  <2>2. n = nextTask /\ nextTask' = nextTask + 1  BY <1>1, <2>1, NextIs
  <2>3. nextTask \in Nat  BY TaskTable, Sizes DEF IInv, TypeOK
  <2>4. \A t \in TaskIds : t < nextTask' <=> t < nextTask \/ t = n
    BY <2>2, <2>3, Sizes
  <2> QED  BY <1>1, <2>4 DEF Made
<1>6. task'[n] = row /\ \A t \in TaskIds : t # n => task'[t] = task[t]  BY <1>1
<1>7. \A t \in TaskIds : IsClosed(t) => task'[t] = task[t]  BY <1>1, <1>6 DEF IsClosed, Exists
<1>8. ~Held(x.request, x.name, x.user)  BY <1>1 DEF Single, Ready
<1>9. PICK S : S = {a \in TaskIds : /\ Exists(a) /\ task[a].request = row.request
                                    /\ task[a].name = row.name}
  OBVIOUS
<1>10. row.request = x.request /\ row.name = x.name /\ row.user = x.user /\ row.bound = x.bound
       /\ row.state = "open"
  BY <1>1
<1>11. ASSUME NEW a \in S
       PROVE  /\ a \in TaskIds /\ Exists(a) /\ a \in Made /\ Of(a, x.request, x.name)
              /\ task[a].user \in Twosome(x, b) /\ task[a].user # x.user
  <2>1. /\ a \in TaskIds /\ Exists(a) /\ task[a].request = x.request /\ task[a].name = x.name
    BY <1>9, <1>10
  <2>2. a \in Made /\ Of(a, x.request, x.name)  BY <2>1, ExistsMade DEF Of
  <2>3. task[a].user \in Twosome(x, b)  BY <1>3, <2>2 DEF Duet
  <2>4. task[a].user # x.user  BY <1>8, <2>1 DEF Held, TasksOf
  <2> QED  BY <2>1, <2>2, <2>3, <2>4
<1>12. x.user \in Twosome(x, b)  BY <1>1, <1>3 DEF Duet
<1>13. ASSUME NEW a \in S, NEW c \in S PROVE a = c
  <2>1. task[a].user = task[c].user  BY <1>11, <1>12 DEF Twosome
  <2>2. Same(a, c)  BY <1>11 DEF Same, Alike, Of
  <2> QED  BY <1>11, <2>1, <2>2 DEF Paired, Couples, AllMixed, Mixed
<1>14. ASSUME NEW o, IsOpen(o), Of(o, x.request, x.name) PROVE o \in S
  <2>1. o \in TaskIds /\ Exists(o)  BY <1>14 DEF Of, Made, IsOpen, Exists
  <2> QED  BY <1>9, <1>10, <1>14, <2>1 DEF Of
<1>15. handler'[h].pc = "create" /\ handler'[h].todo = items \o Tail(handler[h].todo)
  <2>1. handler[h] \in HandlerRow /\ handler \in [Handlers -> HandlerRow]  BY DEF IInv, TypeOK
  <2>2. Tail(handler[h].todo) \in Seq(Item)  BY <1>1, Stack
  <2>3. PICK T : T = Tail(handler[h].todo)  OBVIOUS
  <2>4. items # <<>> /\ items \in Seq(Item)
    <3>1. CASE items = <<y, z>>  BY <1>1, <3>1
    <3>2. CASE items = <<y, z>> \o <<w>>  BY <1>1, <3>2
    <3> QED  BY <1>1, <3>1, <3>2
  <2>5. items \o T # <<>>  BY <2>2, <2>3, <2>4
  <2>6. handler'[h] = Doing(handler[h], items \o T)  BY <1>1, <2>1, <2>3 DEF Replace
  <2>7. handler'[h] = [handler[h] EXCEPT !.pc = "create", !.todo = items \o T]  BY <2>5, <2>6 DEF Doing
  <2> QED  BY <2>1, <2>3, <2>7 DEF HandlerRow
<1>16. ASSUME x.task # 0 PROVE Pending(x.task, n)'
  <2>1. w.kind = "rebind" /\ w.task = x.task /\ w.bound = n
    <3>1. /\ x \in Item /\ y = [x EXCEPT !.kind = "owner", !.task = n]
          /\ z = [x EXCEPT !.kind = "delegates", !.task = n]
          /\ w = [x EXCEPT !.kind = "rebind", !.bound = n]
      BY <1>1
    <3> QED  BY <3>1 DEF Item
  <2>2. PICK T : T = Tail(handler[h].todo)  OBVIOUS
  <2>3. T \in Seq(Item)  BY <1>1, <2>2, Stack
  <2>4. items = <<y, z>> \o <<w>>  BY <1>1, <1>16
  <2>5. PICK U : U = items \o T  OBVIOUS
  <2>6. Len(items) = 3 /\ items[3] = w  BY <1>1, <2>4
  <2>60. items \in Seq(Item)  BY <1>1
  <2>61. 3 \in 1 .. Len(items)  BY <2>6
  <2>7. 3 \in 1 .. Len(U) /\ U[3] = w  BY <2>3, <2>5, <2>6, <2>60, <2>61, FrontOf
  <2>8. handler'[h].todo = U  BY <1>15, <2>2, <2>5
  <2> QED  BY <1>15, <2>1, <2>7, <2>8 DEF Pending
<1>17. ASSUME NEW a \in S PROVE row.bound = a \/ Pending(a, n)'
  <2>1. CASE x.bound # 0
    <3>1. IsOpen(x.bound) /\ Of(x.bound, x.request, x.name)
      BY <1>1, <1>3, <2>1 DEF Fits, GoodItem
    <3> QED  BY <1>10, <1>13, <1>14, <3>1, SMTT(30)
  <2>2. CASE x.bound = 0 /\ x.task # 0
    <3>1. IsOpen(x.task) /\ Of(x.task, x.request, x.name)
      BY <1>1, <1>3, <2>2 DEF Fits, GoodItem
    <3>2. a = x.task  BY <1>13, <1>14, <3>1
    <3> QED  BY <1>16, <2>2, <3>2, SMTT(30)
  <2>3. CASE x.bound = 0 /\ x.task = 0
    <3>1. x.user = Assignee[x.name]  BY <1>1, <1>3, <2>3 DEF Duet
    <3>2. PICK o \in Made : Alike(a, o) /\ task[o].user = Assignee[task[o].name]
      BY <1>11 DEF Paired, Couples, AllFirst, HasFirst
    <3>3. Of(o, x.request, x.name)  BY <1>11, <3>2 DEF Of, Alike
    <3>4. Exists(o) /\ o \in TaskIds  BY <1>3, <3>3 DEF Duet, Made
    <3> QED  BY <1>8, <3>1, <3>2, <3>3, <3>4 DEF Held, TasksOf, Of
  <2> QED  BY <2>1, <2>2, <2>3
<1>18. ASSUME NEW a \in S PROVE TheDelegate \in {row.user, task[a].user} \/ Done(row.request)
  <2>1. CASE b = 0
    <3>1. Twosome(x, b) = {Assignee[x.name], TheDelegate}  BY <2>1 DEF Twosome
    <3> QED  BY <1>10, <1>11, <1>12, <3>1
  <2>2. CASE b # 0  BY <1>3, <1>10, <2>2, SMTT(30) DEF Duet
  <2> QED  BY <2>1, <2>2
<1>19. ASSUME row.bound # 0
       PROVE  /\ row.bound \in TaskIds /\ Exists(row.bound) /\ Root(row.bound)
              /\ row.user = TheDelegate
  <2>1. x.bound = row.bound /\ Of(x.bound, x.request, x.name) /\ IsOpen(x.bound)
    BY <1>1, <1>3, <1>10, <1>19 DEF Fits, GoodItem
  <2>2. row.bound \in TaskIds /\ Exists(row.bound)  BY <2>1 DEF Of, Made, IsOpen, Exists
  <2>3. Duet(x, b) /\ x.kind = "insert" /\ x.bound # 0  BY <1>1, <1>3, <1>10, <1>19
  <2>4. Root(x.bound) /\ x.user = TheDelegate  BY <2>3 DEF Duet
  <2> QED  BY <1>10, <2>1, <2>2, <2>4
<1>20. \/ row.user = Assignee[row.name]
       \/ \E a \in Made : task[a].request = row.request /\ task[a].name = row.name
  <2>1. CASE x.bound # 0
    <3>1. Of(x.bound, x.request, x.name)  BY <1>1, <1>3, <2>1 DEF GoodItem
    <3> QED  BY <1>10, <3>1 DEF Of
  <2>2. CASE x.task # 0
    <3>1. Of(x.task, x.request, x.name)  BY <1>1, <1>3, <2>2 DEF GoodItem
    <3> QED  BY <1>10, <3>1 DEF Of
  <2>3. CASE x.bound = 0 /\ x.task = 0  BY <1>1, <1>3, <1>10, <2>3 DEF Duet
  <2> QED  BY <2>1, <2>2, <2>3
<1>21. PendingKept
  <2>1. Head(handler[h].todo).kind # "rebind"  BY <1>1
  <2> QED  BY <1>1, <2>1, StackKept
<1>22. Couples'
  <2>1. Couples  BY DEF Paired
  <2>2. n \in TaskIds /\ n \notin Made /\ ~Exists(n)  BY <1>1
  <2>3. \A t \in TaskIds : task'[t] = IF t = n THEN row ELSE task[t]  BY <1>1
  <2>4. \A a \in S : task[a].user # row.user  BY <1>10, <1>11
  <2> QED
    BY <1>5, <1>9, <1>10, <1>13, <1>17, <1>18, <1>19, <1>20, <1>21, <2>1, <2>2, <2>3, <2>4, CouplesAdded
<1>23. Quiet
  <2>1. Proceed(h)  BY DEF Proceed
  <2> QED  BY <2>1, ProceedQuiet
<1>24. \A p \in spreading' : Mute(p)'  BY <1>4, <1>23, MuteQuiet
<1>25. copying = {} /\ \A r : ~ClosingOn(r)  BY <1>1, CreatingAlone
<1>26. ASSUME NEW r \in RequestIds PROVE InPlay(r)'
  <2>1. InPlay(r) /\ place'[r] = place[r]  BY <1>4 DEF Paired
  <2>2. SomeClosed(r)' => SomeClosed(r)  BY <1>6, <1>10 DEF SomeClosed, IsClosed
  <2>3. SomeOpen(r) => SomeOpen(r)'  BY <1>1, <1>6 DEF SomeOpen, IsOpen, Exists
  <2> QED  BY <1>25, <2>1, <2>2, <2>3, InPlayKept
<1>27. row.user \in Twosome(row, b)  BY <1>10, <1>12 DEF Twosome
<1>28. ASSUME NEW q, Duet(q, b),
              q.kind \in {"create", "insert"} => q.bound = 0 \/ q.bound \in Made,
              q.kind = "delegates" /\ b = 0 /\ q.user # TheDelegate => q.task \in Made \/ Root(q.task)'
       PROVE  Duet(q, b)'
  <2>1. n \in TaskIds /\ n \notin Made /\ \A t \in TaskIds : task'[t] = IF t = n THEN row ELSE task[t]
    BY <1>1
  <2> QED  BY <1>3, <1>5, <1>7, <1>10, <1>27, <1>28, <2>1, DuetMore
<1>29. ASSUME NEW q \in DuetItem(b), q \in GoodItem PROVE q \in DuetItem(b)'
  <2>1. q \in Item /\ Duet(q, b)  BY <1>29 DEF DuetItem
  <2>2. /\ q.kind \in {"create", "insert"} => q.bound = 0 \/ q.bound \in Made
        /\ q.kind = "delegates" => q.task \in Made
    BY <1>29 DEF GoodItem, Of
  <2>3. Duet(q, b)'  BY <1>28, <2>1, <2>2
  <2> QED  BY <2>1, <2>3 DEF DuetItem
<1>30. /\ y.kind = "owner" /\ y.request = x.request /\ y.name = x.name
       /\ z.kind = "delegates" /\ z.request = x.request /\ z.name = x.name /\ z.task = n /\ z.user = x.user
       /\ w.kind = "rebind" /\ w.request = x.request /\ w.name = x.name
  <2>1. /\ x \in Item /\ y = [x EXCEPT !.kind = "owner", !.task = n]
        /\ z = [x EXCEPT !.kind = "delegates", !.task = n]
        /\ w = [x EXCEPT !.kind = "rebind", !.bound = n]
    BY <1>1
  <2> QED  BY <2>1 DEF Item
<1>31. Duet(y, b)' /\ Duet(w, b)'
  <2>1. Duet(y, b) /\ Duet(w, b)  BY <1>3, <1>30 DEF Duet, Twosome
  <2> QED  BY <1>28, <1>30, <2>1
<1>32. Duet(z, b)'
  <2>1. task[n].bound = 0  BY <1>1 DEF IInv, RowsGood, NoTask
  <2>2. Duet(z, b)  BY <1>3, <1>30, <2>1 DEF Duet, Twosome, Root
  <2>3. b = 0 /\ x.user # TheDelegate => Root(n)'  BY <1>1, <1>3, <1>6, <1>10 DEF Duet, Root
  <2> QED  BY <1>28, <1>30, <2>2, <2>3
<1>33. PICK D : D = DuetItem(b)'  OBVIOUS
<1>34. y \in D /\ z \in D /\ w \in D  BY <1>1, <1>31, <1>32, <1>33 DEF DuetItem
<1>35. \A i \in 1 .. Len(items) : items[i] \in D
  <2>1. items = <<y, z>> \/ items = <<y, z>> \o <<w>>  BY <1>1
  <2> QED  BY <1>34, <2>1, TwoOrThree
<1>36. \A i \in 1 .. Len(items) : items[i] \in DuetItem(b)'  BY <1>33, <1>35
<1>37. \A g \in Handlers : RowSolo(handler[g])' /\ RowDuet(handler[g])'
  BY <1>1, <1>2, <1>29, <1>36, DuetStack
<1>38. Directed'  BY <1>4, DirectedSame DEF Paired
<1> QED  BY <1>4, <1>22, <1>24, <1>25, <1>26, <1>37, <1>38 DEF Paired

LEMMA IdleRows ==
    ASSUME \A g \in Handlers : handler'[g].pc = "idle"
    PROVE  \A g \in Handlers : RowSolo(handler[g])' /\ RowDuet(handler[g])'
BY DEF RowSolo, RowDuet, Closing

LEMMA MadeAdded ==
    ASSUME IInv, NEW n \in TaskIds, n = nextTask, nextTask' = nextTask + 1
    PROVE  Made' = Made \cup {n}
<1>1. nextTask \in Nat  BY TaskTable, Sizes DEF IInv, TypeOK
<1>2. \A t \in TaskIds : t < nextTask' <=> t < nextTask \/ t = n  BY <1>1, Sizes
<1> QED  BY <1>2 DEF Made

(* A goroutine that will insert a copy found no task of the delegate on the *)
(* request, so that the original is the only task of its step.              *)
LEMMA PairedCopy ==
    ASSUME IInv, Turnwise, Single, Placed, Sorted, Paired, CopyStep
    PROVE  Paired'
<1>1. /\ spreading = {} /\ UNCHANGED <<place, request, handler, spreading, delegation>>
      /\ \A g \in Handlers : handler[g].pc = "idle"
  BY CopyRest
<1>2. PICK c \in copying : FindCopyShare(c) \/ AddCopyShare(c) \/ FindCopy(c) \/ AddCopy(c)
  BY DEF CopyStep
<1>3. UNCHANGED nextDelegation  BY <1>2 DEF FindCopyShare, AddCopyShare, FindCopy, AddCopy
<1>4. Directed'  BY <1>1, <1>3, DirectedSame DEF Paired
<1>5. /\ c \in Copy /\ c.task \in Made /\ c.task \in TaskIds /\ IsOpen(c.task)
      /\ c.delegation \in MadeDelegations
  BY DEF IInv, RunsGood, GoodCopy, Made, Sorted
<1>6. delegation[c.delegation].to = TheDelegate  BY <1>5 DEF Paired, Directed
<1>7. \A g \in Handlers : RowSolo(handler[g])' /\ RowDuet(handler[g])'  BY <1>1, IdleRows
<1>8. PendingKept  BY <1>1, SameHandlers
<1>9. \A r : ~ClosingOn(r)  BY <1>1 DEF ClosingOn, Closing
<1>10. CASE UNCHANGED <<task, nextTask>>
  <2>1. \A r : Done(r)' <=> Done(r)  BY <1>10 DEF Done, IsClosed
  <2>2. ASSUME NEW e \in copying' PROVE NewCopy(e)'
    <3>1. \/ e \in copying
          \/ /\ e.task = c.task
             /\ e.pc = "add" => \A t \in TasksOf(task[c.task].request) :
                                   task[t].user # delegation[c.delegation].to
      BY <1>2, <1>5, <2>2 DEF FindCopyShare, AddCopyShare, FindCopy, AddCopy, Goes, Copy
    <3>2. CASE e \in copying
      <4>1. NewCopy(e)  BY <3>2 DEF Paired
      <4> QED  BY <1>10, <2>1, <4>1 DEF NewCopy, Held, TasksOf, Exists
    <3>3. ASSUME e \notin copying, e.pc = "add"
          PROVE  /\ ~Done(task[e.task].request)
                 /\ ~Held(task[e.task].request, task[e.task].name, TheDelegate)
      BY <1>6, <3>1, <3>3 DEF Done, Held, IsClosed, TasksOf, Exists
    <3> QED  BY <1>10, <2>1, <3>2, <3>3 DEF NewCopy, Held, TasksOf, Exists
  <2> QED  BY <1>1, <1>4, <1>7, <1>8, <1>9, <1>10, <2>2, PairedSame
<1>11. CASE ~UNCHANGED <<task, nextTask>>
  <2>1. PICK row : row = [task[c.task] EXCEPT !.state = "open", !.bound = c.task, !.entity = NoEntity,
                                              !.user = delegation[c.delegation].to]
    OBVIOUS
  <2>2. AddTask(row) /\ c.pc = "add" /\ copying' = copying \ {c}
    BY <1>2, <1>11, <2>1 DEF FindCopyShare, AddCopyShare, FindCopy, AddCopy
  <2>3. PICK n \in TaskIds : /\ n = nextTask /\ ~Exists(n) /\ n \notin Made
                             /\ \A t \in TaskIds : task'[t] = IF t = n THEN row ELSE task[t]
    BY <2>2, AddedRow
  <2>4. task[c.task] \in TaskRow  BY <1>5, TaskRows
  <2>5. /\ row.state = "open" /\ row.bound = c.task /\ row.user = TheDelegate
        /\ row.request = task[c.task].request /\ row.name = task[c.task].name
    BY <1>6, <2>1, <2>4 DEF TaskRow
  <2>6. Made' = Made \cup {n}  BY <2>2, <2>3, MadeAdded DEF AddTask
  <2>7. ~Held(task[c.task].request, task[c.task].name, TheDelegate)
    BY <2>2 DEF Paired, NewCopy
  <2>8. ~Done(task[c.task].request)  BY <2>2 DEF Paired, NewCopy
  <2>9. Couples  BY DEF Paired
  <2>10. ASSUME NEW a \in TaskIds, Exists(a), task[a].request = row.request, task[a].name = row.name
         PROVE  a = c.task
    <3>1. Same(a, c.task)  BY <1>5, <2>5, <2>10 DEF Same, Alike, IsOpen, Exists
    <3>2. task[a].user # TheDelegate /\ task[c.task].user # TheDelegate
      BY <1>5, <2>5, <2>7, <2>10 DEF Held, TasksOf, IsOpen, Exists
    <3>3. ~Done(task[a].request)  BY <2>5, <2>8, <2>10
    <3> QED  BY <1>5, <2>9, <3>1, <3>2, <3>3 DEF Couples, AllMixed, Mixed
  <2>11. PICK S : S = {a \in TaskIds : /\ Exists(a) /\ task[a].request = row.request
                                       /\ task[a].name = row.name}
    OBVIOUS
  <2>12. \A a \in S : a = c.task  BY <2>10, <2>11
  <2>13. Exists(c.task) /\ Root(c.task)
    <3>1. Exists(c.task)  BY <1>5 DEF IsOpen, Exists
    <3>2. ASSUME ~Root(c.task) PROVE FALSE
      <4>1. Exists(task[c.task].bound)  BY <1>5, <2>9, <3>1, <3>2 DEF Couples, AllFlat, Flat
      <4>2. PICK o \in TaskIds : task[c.task].bound = o
        BY <2>4, <3>2 DEF TaskRow, Root
      <4>3. Kin(c.task, o)  BY <1>5, <3>1, <4>2, BoundKin
      <4>4. o = c.task  BY <2>5, <2>10, <4>1, <4>2, <4>3 DEF Kin, Of
      <4> QED  BY <3>2, <4>2, <4>4 DEF Root
    <3> QED  BY <3>1, <3>2
  <2>14. Couples'
    <3>1. \A a, b \in S : a = b  BY <2>12
    <3>2. \A a \in S : row.bound = a \/ Pending(a, n)'  BY <2>5, <2>12
    <3>3. \A a \in S : TheDelegate \in {row.user, task[a].user} \/ Done(row.request)  BY <2>5
    <3>4. row.bound # 0 => /\ row.bound \in TaskIds /\ Exists(row.bound) /\ Root(row.bound)
                           /\ row.user = TheDelegate
      BY <1>5, <2>5, <2>13
    <3>5. \E a \in Made : task[a].request = row.request /\ task[a].name = row.name  BY <1>5, <2>5
    <3>6. \A a \in S : task[a].user # row.user
      BY <1>5, <2>5, <2>7, <2>12 DEF Held, TasksOf, IsOpen, Exists
    <3> QED
      BY <1>8, <2>3, <2>5, <2>6, <2>9, <2>11, <3>1, <3>2, <3>3, <3>4, <3>5, <3>6, CouplesAdded
  <2>15. \A p \in spreading' : Mute(p)'  BY <1>1
  <2>16. \A t \in TaskIds : t # n => task'[t] = task[t]  BY <2>3
  <2>17. task'[n] = row  BY <2>3
  <2>18. ASSUME NEW r \in RequestIds PROVE InPlay(r)'
    <3>1. InPlay(r) /\ place'[r] = place[r]  BY <1>1 DEF Paired
    <3>2. SomeClosed(r)' => SomeClosed(r)  BY <2>5, <2>16, <2>17 DEF SomeClosed, IsClosed
    <3>3. SomeOpen(r) => SomeOpen(r)'  BY <2>3, <2>16 DEF SomeOpen, IsOpen, Exists
    <3> QED  BY <1>9, <3>1, <3>2, <3>3, InPlayKept
  <2>19. ASSUME NEW e \in copying' PROVE NewCopy(e)'
    <3>1. e \in copying /\ e.task \in TaskIds /\ e.task # n
      BY <2>2, <2>3 DEF IInv, RunsGood, GoodCopy, Made
    <3>2. task'[e.task] = task[e.task]  BY <2>16, <3>1
    <3>3. \A r : Done(r)' => Done(r)  BY <2>5, <2>16, <2>17 DEF Done, IsClosed
    <3>4. PICK t : t = e.task  OBVIOUS
    <3>5. IsOpen(t) /\ t # c.task  BY <2>2, <3>1, <3>4 DEF Sorted, Single, Twins
    <3>6. NewCopy(e)  BY <3>1 DEF Paired
    <3>7. ASSUME e.pc = "add", Held(task[t].request, task[t].name, TheDelegate)' PROVE FALSE
      <4>1. ~Done(task[t].request) /\ ~Held(task[t].request, task[t].name, TheDelegate)
        BY <3>4, <3>6, <3>7 DEF NewCopy
      <4>2. PICK a \in TaskIds : /\ Exists(a)' /\ task'[a].request = task[t].request
                                 /\ task'[a].name = task[t].name /\ task'[a].user = TheDelegate
        BY <3>2, <3>4, <3>7 DEF Held, TasksOf
      <4>3. a = n  BY <2>16, <4>1, <4>2 DEF Held, TasksOf, Exists
      <4>4. Same(t, c.task)  BY <1>5, <2>5, <2>17, <3>5, <4>2, <4>3 DEF Same, Alike, IsOpen, Exists
      <4>5. task[t].user # TheDelegate /\ task[c.task].user # TheDelegate
        BY <1>5, <2>5, <2>7, <3>1, <3>4, <3>5, <4>1 DEF Held, TasksOf, IsOpen, Exists
      <4> QED  BY <1>5, <2>9, <3>1, <3>4, <3>5, <4>1, <4>4, <4>5 DEF Couples, AllMixed, Mixed
    <3> QED  BY <3>2, <3>3, <3>4, <3>6, <3>7 DEF NewCopy
  <2> QED  BY <1>4, <1>7, <2>14, <2>15, <2>18, <2>19 DEF Paired
<1> QED  BY <1>10, <1>11

(* The first things to do of a place where no task is made yet.             *)
LEMMA FirstDuet ==
    ASSUME NEW items \in Seq(Item), NEW r, NEW S, NEW b,
           \A i \in 1 .. Len(items) : \E a \in S : items[i] = Create(r, a, Assignee[a], 0, 0),
           \A a \in S : \A t \in Made' : ~Of(t, r, a)',
           b # 0 => Done(r)' /\ \A a \in S : Level[a] # 1
    PROVE  items \in Seq(DuetItem(b)')
<1>1. PICK R : R = DuetItem(b)'  OBVIOUS
<1>2. ASSUME NEW i \in 1 .. Len(items) PROVE items[i] \in R
  <2>1. PICK a \in S : items[i] = Create(r, a, Assignee[a], 0, 0)  OBVIOUS
  <2>2. PICK y : y = items[i]  OBVIOUS
  <2>3. y \in Item  BY <2>2
  <2>4. /\ y.kind = "create" /\ y.bound = 0 /\ y.task = 0 /\ y.user = Assignee[a]
        /\ y.request = r /\ y.name = a
    BY <2>1, <2>2 DEF Create
  <2>5. y.user \in Twosome(y, b)'  BY <2>4 DEF Twosome
  <2>6. Duet(y, b)'  BY <2>4, <2>5 DEF Duet
  <2>7. y \in DuetItem(b)'  BY <2>3, <2>6 DEF DuetItem
  <2> QED  BY <1>1, <2>2, <2>7
<1>3. items \in Seq(R)  BY <1>2
<1> QED  BY <1>1, <1>3

(* A call that gives out the first things to do of a place.                 *)
LEMMA PairedFirst ==
    ASSUME IInv, Paired, UNCHANGED <<task, delegation, nextTask, nextDelegation, copying, spreading>>,
           copying = {}, \A g \in Handlers : handler[g].pc # "create",
           NEW h \in Handlers, NEW m, handler' = [handler EXCEPT ![h] = m],
           \A g \in Handlers : g # h => handler[g].pc = "idle",
           m.pc \in {"idle", "create"}, RowDuet(m)',
           \A r \in RequestIds : InPlay(r)'
    PROVE  Paired'
<1>1. PendingKept  BY NotCreating
<1>2. Couples'  BY <1>1, SameCouples DEF Paired
<1>3. \A p \in spreading' : Mute(p)'  BY MuteQuiet, SameQuiet
<1>4. Directed'  BY DirectedSame DEF Paired
<1>5. RowSolo(m)'  BY DEF RowSolo, Closing
<1>6. \A g \in Handlers : RowSolo(handler[g])' /\ RowDuet(handler[g])'  BY <1>5, PairedRows
<1>7. \A c \in copying' : NewCopy(c)'  OBVIOUS
<1> QED  BY <1>2, <1>3, <1>4, <1>6, <1>7 DEF Paired

LEMMA PairedOpen ==
    ASSUME IInv, Turnwise, Placed, Paired, FirstWalk, NEW h \in Handlers, NEW u \in Users,
           NEW r \in RequestIds, OpenRequest(h, u, r), AtRest
    PROVE  Paired'
<1>1. PICK m, items :
              /\ handler' = [handler EXCEPT ![h] = m] /\ handler[h].pc = "idle"
              /\ items \in Seq(Item)
              /\ \A i \in 1 .. Len(items) : \E a \in Names : items[i] = Create(r, a, Assignee[a], 0, 0)
              /\ m = Idle \/ (m.pc = "create" /\ m.todo = items /\ items # <<>> /\ m.bound = 0)
  BY OpenEffect
<1>2. /\ UNCHANGED <<task, delegation, nextTask, nextDelegation, copying, spreading>>
      /\ place' = [place EXCEPT ![r] = 1] /\ place[r] = 0
  BY DEF OpenRequest, Placed, Walked
<1>3. copying = {} /\ \A g \in Handlers : handler[g].pc = "idle"  BY DEF AtRest
<1>4. \A t \in Made : task[t].request # r
  <2> SUFFICES ASSUME NEW t \in Made PROVE task[t].request # r  OBVIOUS
  <2>1. Reached(t)  BY DEF Placed
  <2>2. task[t].name \in Names  BY DEF IInv, RowsGood
  <2> QED  BY <1>2, <2>1, <2>2, Levels DEF Reached
<1>5. Made' = Made  BY <1>2, MadeSame
<1>6. RowDuet(m)'
  <2>1. CASE m = Idle  BY <2>1 DEF RowDuet, Idle
  <2>2. CASE m.pc = "create" /\ m.todo = items /\ m.bound = 0
    <3>1. PICK b : b = m.bound  OBVIOUS
    <3>2. \A a \in Names : \A t \in Made' : ~Of(t, r, a)'  BY <1>2, <1>4, <1>5 DEF Of
    <3>3. items \in Seq(DuetItem(b)')  BY <1>1, <2>2, <3>1, <3>2, FirstDuet
    <3> QED  BY <2>2, <3>1, <3>3 DEF RowDuet
  <2> QED  BY <1>1, <2>1, <2>2
<1>7. ASSUME NEW q \in RequestIds PROVE InPlay(q)'
  <2>1. CASE q = r
    <3>1. ASSUME NEW t \in TaskIds, IsClosed(t), task[t].request = r PROVE FALSE
      <4>1. t \in Made  BY <3>1, ExistsMade DEF IsClosed, Exists
      <4> QED  BY <1>4, <3>1, <4>1
    <3> QED  BY <1>2, <2>1, <3>1 DEF InPlay, SomeClosed, IsClosed
  <2>2. CASE q # r
    <3>1. place \in [RequestIds -> -1 .. LastLevel + 1]  BY DEF IInv, TypeOK
    <3>2. InPlay(q) /\ place'[q] = place[q]  BY <1>2, <2>2, <3>1 DEF Paired
    <3>3. SomeClosed(q)' => SomeClosed(q)  BY <1>2 DEF SomeClosed, IsClosed
    <3>4. SomeOpen(q) => SomeOpen(q)'  BY <1>2 DEF SomeOpen, IsOpen
    <3>5. ~ClosingOn(q)  BY <1>3 DEF ClosingOn, Closing
    <3> QED  BY <3>2, <3>3, <3>4, <3>5, InPlayKept
  <2> QED  BY <2>1, <2>2
<1>8. m.pc \in {"idle", "create"}  BY <1>1 DEF Idle
<1>9. /\ handler' = [handler EXCEPT ![h] = m] /\ \A g \in Handlers : handler[g].pc # "create"
      /\ \A g \in Handlers : g # h => handler[g].pc = "idle"
  BY <1>1, <1>3
<1> QED  BY <1>2, <1>3, <1>6, <1>7, <1>8, <1>9, PairedFirst

(* With two steps, a request gives out new tasks when it leaves its first.  *)
(* What was closed there is bound to nothing, or it is the delegate's; an   *)
(* original that was closed with his copy does not get so far.              *)
LEMMA PairedAdvance ==
    ASSUME IInv, Turnwise, Placed, Sorted, Paired, ~UpdatesMayFail, LastLevel <= 2,
           FirstWalk', NEW h \in Handlers, AdvanceRequest(h)
    PROVE  Paired'
<1>1. PICK me : me = handler[h]  OBVIOUS
<1>2. me \in GoodHandler /\ me.pc = "advance" /\ me \in HandlerRow
  BY <1>1 DEF IInv, CallsGood, AdvanceRequest, GoodHandler
<1>3. PICK x, r : x = me.task /\ r = task[x].request  OBVIOUS
<1>4. r \in RequestIds /\ x \in Made /\ x \in TaskIds /\ task[x].name \in Names
  BY <1>2, <1>3 DEF GoodHandler, IInv, RowsGood, Made
<1>40. /\ me.at = place[r] /\ me.at \in Int
       /\ place'[r] = (IF me.ended THEN -1 ELSE me.at + 1)
       /\ \A q \in RequestIds : q # r => place'[q] = place[q]
       /\ FirstWalk /\ (~me.ended => place[r] # -1)
  BY <1>1, <1>3, AdvanceIs
<1>5. PICK S : S = IF me.ended THEN {} ELSE StepsAt(me.at + 1)  OBVIOUS
<1>6. PICK f \in SetToSeqs(S) : handler' = [handler EXCEPT ![h] = Doing(me, FirstItems(r, f))]
  BY <1>1, <1>3, <1>5 DEF AdvanceRequest
<1>7. PICK items, m : items = FirstItems(r, f) /\ m = Doing(me, items)  OBVIOUS
<1>8. S \subseteq Names /\ \A a \in S : ~me.ended /\ Level[a] = me.at + 1  BY <1>5 DEF StepsAt
<1>9. /\ items \in Seq(Item)
      /\ \A i \in 1 .. Len(items) : \E a \in S : items[i] = Create(r, a, Assignee[a], 0, 0)
  BY <1>4, <1>6, <1>7, <1>8, FirstSteps
<1>10. place \in [RequestIds -> -1 .. LastLevel + 1]  BY DEF IInv, TypeOK
<1>12. UNCHANGED <<task, delegation, nextTask, nextDelegation, copying, spreading>>
  BY DEF AdvanceRequest
<1>14. IsClosed(x) /\ me.bound = task[x].bound  BY <1>1, <1>2, <1>3 DEF Sorted, RowShut, Works
<1>15. Exists(x) /\ task[x].user = me.user /\ (place[r] = 1 => task[x].bound # x)
  BY <1>1, <1>2, <1>3 DEF Paired, RowSolo, Closing
<1>16. place[r] = -1 \/ (1 <= Level[task[x].name] /\ Level[task[x].name] <= place[r])
  BY <1>3, <1>4, <1>40, Levels DEF Placed, Reached
<1>17. ASSUME NEW a \in S
       PROVE  /\ place[r] = 1 /\ Level[a] = 2
              /\ Level[task[x].name] = 1
  <2>1. Level[a] <= 2 /\ Level[a] = place[r] + 1 /\ place[r] # -1 /\ place[r] \in Int
    BY <1>4, <1>8, <1>10, <1>40, Levels, Sizes
  <2> QED  BY <1>4, <1>16, <2>1, Levels
<1>18. ASSUME NEW a \in S, NEW t \in Made' PROVE ~Of(t, r, a)'
  <2>1. t \in Made  BY <1>12, MadeSame
  <2>2. Reached(t)  BY <2>1 DEF Placed
  <2>3. ~Of(t, r, a)
    <3> SUFFICES ASSUME Of(t, r, a) PROVE FALSE  OBVIOUS
    <3>1. place[r] = -1 \/ Level[a] <= place[r]  BY <1>40, <2>2 DEF Of, Reached
    <3> QED  BY <1>17, <3>1
  <2>4. Made' = Made  BY <1>12, MadeSame
  <2> QED  BY <1>12, <2>3, <2>4 DEF Of
<1>19. ASSUME NEW a \in S, me.bound # 0 PROVE me.user = TheDelegate /\ Done(r) /\ Level[a] # 1
  <2>1. ~Root(x)  BY <1>14, <1>15, <1>17, <1>19 DEF Root
  <2>2. task[x].user = TheDelegate
    BY <1>4, <1>15, <1>17, <2>1 DEF Paired, Couples, AllFlat, Flat
  <2> QED  BY <1>3, <1>4, <1>14, <1>15, <1>17, <2>2 DEF Done
<1>20. m.pc = "create" => m.todo = items /\ items # <<>> /\ m.bound = me.bound /\ m.user = me.user
  BY <1>2, <1>7 DEF Doing, Idle, HandlerRow
<1>21. m.pc \in {"idle", "create"}  BY <1>2, <1>7 DEF Doing, Idle, HandlerRow
<1>22. RowDuet(m)'
  <2> SUFFICES ASSUME m.pc = "create" PROVE RowDuet(m)'  BY DEF RowDuet
  <2>1. PICK a \in S : TRUE
    <3>1. items # <<>> /\ items \in Seq(Item)  BY <1>9, <1>20
    <3>2. 1 \in 1 .. Len(items)  BY <3>1
    <3> QED  BY <1>9, <3>2
  <2>2. PICK b : b = m.bound  OBVIOUS
  <2>3. b # 0 => m.user = TheDelegate /\ Done(r) /\ \A y \in S : Level[y] # 1
    BY <1>19, <1>20, <2>1, <2>2
  <2>4. Done(r) => Done(r)'  BY <1>12 DEF Done, IsClosed
  <2>5. items \in Seq(DuetItem(b)')  BY <1>9, <1>18, <2>3, <2>4, FirstDuet
  <2> QED  BY <1>20, <2>2, <2>3, <2>5 DEF RowDuet
<1>23. copying = {} /\ \A g \in Handlers : g # h => handler[g].pc = "idle"
  BY <1>1, <1>2 DEF Turnwise, Busy
<1>24. ASSUME NEW q \in RequestIds PROVE InPlay(q)'
  <2>1. CASE q = r
    <3>1. place'[r] # 1
      <4>1. place[r] \in Int /\ (place[r] = -1 \/ place[r] >= 1)  BY <1>4, <1>10, <1>16, Levels, Sizes
      <4> QED  BY <1>40, <4>1
    <3> QED  BY <2>1, <3>1 DEF InPlay
  <2>2. CASE q # r
    <3>2. InPlay(q) /\ place'[q] = place[q]  BY <1>40, <2>2 DEF Paired
    <3>3. SomeClosed(q)' => SomeClosed(q)  BY <1>12 DEF SomeClosed, IsClosed
    <3>4. SomeOpen(q) => SomeOpen(q)'  BY <1>12 DEF SomeOpen, IsOpen
    <3>5. ~ClosingOn(q)  BY <1>1, <1>3, <1>23, <2>2 DEF ClosingOn, Closing
    <3> QED  BY <3>2, <3>3, <3>4, <3>5, InPlayKept
  <2> QED  BY <2>1, <2>2
<1>25. /\ handler' = [handler EXCEPT ![h] = m]
       /\ \A g \in Handlers : handler[g].pc # "create"
  BY <1>1, <1>2, <1>6, <1>7, <1>23
<1> QED  BY <1>12, <1>21, <1>22, <1>23, <1>24, <1>25, PairedFirst

(* When nothing is being closed, a task and its copy are open together: the *)
(* copy that is closed with an original is the only one.                    *)
LEMMA Together ==
    ASSUME IInv, Couples, Shut, spreading = {},
           \A h \in Handlers : handler[h].pc \notin {"reread", "read"},
           NEW t \in TaskIds, Exists(t), NEW o \in TaskIds, task[t].bound = o, Exists(o)
    PROVE  IsOpen(t) <=> IsOpen(o)
<1>1. \A q \in TaskIds : ~Rises(q) /\ ~Falls(q)  BY DEF Rises, Falls, Awaits
<1>2. CASE o = t  BY <1>2
<1>3. CASE o # t
  <2>1. Flat(t)  BY DEF Couples, AllFlat
  <2>2. ~Root(t)  BY <1>3, Sizes DEF Root
  <2>3. Root(o)  BY <2>1, <2>2 DEF Flat
  <2>4. task[t] \in TaskRow /\ task[o] \in TaskRow  BY TaskRows
  <2>5. ASSUME IsOpen(o) PROVE IsOpen(t)
    <3> SUFFICES ASSUME ~IsOpen(t) PROVE FALSE  OBVIOUS
    <3>1. IsClosed(t)  BY <2>4 DEF TaskRow, IsOpen, Exists, IsClosed
    <3>2. task[t].bound # 0  BY <2>2 DEF Root
    <3> QED  BY <1>1, <2>5, <3>1, <3>2 DEF Shut, ShutTask, UpShut
  <2>6. ASSUME IsOpen(t) PROVE IsOpen(o)
    <3> SUFFICES ASSUME ~IsOpen(o) PROVE FALSE  OBVIOUS
    <3>1. IsClosed(o)  BY <2>4 DEF TaskRow, IsOpen, Exists, IsClosed
    <3>2. HasLeaf(o)  BY <1>3 DEF HasLeaf, Bound
    <3>3. PICK s \in TaskIds : IsClosed(s) /\ Bound(s, o)
      BY <1>1, <2>3, <3>1, <3>2 DEF Shut, ShutTask, DownShut, ShutBelow
    <3>4. Exists(s) /\ s # o /\ task[s].bound = o  BY <3>3 DEF IsClosed, Exists, Bound
    <3>5. Kin(s, o) /\ Kin(t, o)  BY <3>4, BoundKin
    <3>6. Same(s, o) /\ Same(o, t)  BY <3>4, <3>5 DEF Same, Alike, Kin, Of
    <3>7. s = t  BY <1>3, <3>4, <3>6 DEF Couples, Duo
    <3> QED  BY <2>6, <3>3, <3>7 DEF IsClosed, IsOpen
  <2> QED  BY <2>5, <2>6
<1> QED  BY <1>2, <1>3

(* A call that starts when all is at rest, and writes no task.              *)
LEMMA PairedRest ==
    ASSUME IInv, Paired, NEW h \in Handlers, NEW m, handler' = [handler EXCEPT ![h] = m],
           \A g \in Handlers : g # h => handler[g].pc = "idle",
           handler[h].pc \in {"idle", "unshare", "rivals"}, copying = {},
           UNCHANGED <<place, request, task, nextTask, copying, spreading>>, Directed', RowSolo(m)', m.pc # "create"
    PROVE  Paired'
<1>1. PendingKept  BY NotCreating
<1>2. RowDuet(m)'  BY DEF RowDuet
<1>3. \A g \in Handlers : RowSolo(handler[g])' /\ RowDuet(handler[g])'  BY <1>2, PairedRows
<1>4. \A r \in RequestIds : ~ClosingOn(r)  BY DEF ClosingOn, Closing
<1>5. \A c \in copying' : NewCopy(c)'  OBVIOUS
<1> QED  BY <1>1, <1>3, <1>4, <1>5, PairedSame

(* Submitting an original that its copy's run has closed: in its request    *)
(* another step is open, as the task that is open is not tied to it.        *)
LEMMA SoloSubmit ==
    ASSUME IInv, Shut, Paired, AtRest, NEW x \in TaskIds, Exists(x), task[x].bound = x,
           place[task[x].request] = 1
    PROVE  OtherOpen(x)
<1>1. PICK r : r = task[x].request  OBVIOUS
<1>2. r \in RequestIds  BY <1>1, ExistsMade DEF IInv, RowsGood
<1>3. IsClosed(x)  BY DEF Paired, Couples, AllFlat, Flat
<1>4. ~ClosingOn(r)  BY DEF AtRest, ClosingOn, Closing
<1>5. PICK s \in TaskIds : IsOpen(s) /\ task[s].request = r
  BY <1>1, <1>2, <1>3, <1>4 DEF Paired, InPlay, SomeClosed, SomeOpen
<1>6. ASSUME task[s].name = task[x].name PROVE FALSE
  <2>1. Exists(s) /\ s # x  BY <1>3, <1>5 DEF IsOpen, IsClosed, Exists
  <2>2. Same(s, x)  BY <1>1, <1>5, <1>6, <2>1 DEF Same, Alike
  <2>3. \A a, b \in TaskIds : ~Pending(a, b)  BY DEF AtRest, Pending
  <2>4. task[s].bound = x  BY <2>1, <2>2, <2>3 DEF Paired, Couples, AllTied, Tied, Bound
  <2>5. spreading = {} /\ \A g \in Handlers : handler[g].pc = "idle"  BY DEF AtRest
  <2>6. IsOpen(x)  BY <1>5, <2>1, <2>4, <2>5, Together DEF Paired
  <2> QED  BY <1>3, <2>6 DEF IsOpen, IsClosed
<1> QED  BY <1>1, <1>5, <1>6 DEF OtherOpen

LEMMA PairedCall ==
    ASSUME IInv, Turnwise, Placed, Shut, Paired, FirstWalk, Alone = Calls, OneDelegate,
           NEW h \in Handlers, Call(h)
    PROVE  Paired'
<1>0. \A c \in Calls : Accept(h, c) => handler[h].pc = "idle" /\ AtRest  BY DEF Accept
<1>01. Directed  BY DEF Paired
<1>1. ASSUME NEW m, handler' = [handler EXCEPT ![h] = m], AtRest, Directed',
             UNCHANGED <<place, request, task, nextTask, copying, spreading>>, RowSolo(m)', m.pc # "create"
      PROVE  Paired'
  BY <1>1, PairedRest DEF AtRest
<1>2. ASSUME NEW u, NEW d, Triggers(h, u, d), AtRest, Directed',
             UNCHANGED <<place, request, task, nextTask, copying, spreading>>
      PROVE  Paired'
  <2>1. PICK m : handler' = [handler EXCEPT ![h] = m] /\ (m = Idle \/ m = Triggering(u, d))
    BY <1>2, TriggersRow
  <2>2. m.pc \in {"idle", "trigger"}
    <3>1. Idle.pc = "idle"  BY DEF Idle
    <3>2. PICK w : w = Triggering(u, d)  OBVIOUS
    <3>3. w.pc = "trigger"  BY <3>2 DEF Triggering, Idle
    <3> QED  BY <2>1, <3>1, <3>2, <3>3
  <2>3. RowSolo(m)'  BY <2>2, OtherRow
  <2> QED  BY <1>1, <1>2, <2>1, <2>2, <2>3
<1>3. ASSUME NEW u \in Users, NEW r \in RequestIds, OpenRequest(h, u, r) PROVE Paired'
  <2>1. AtRest  BY <1>0, <1>3 DEF OpenRequest, Calls
  <2> QED  BY <1>3, <2>1, PairedOpen
<1>4. ASSUME NEW u \in Users, NEW x \in TaskIds, SubmitTask(h, u, x) PROVE Paired'
  <2>1. AtRest /\ Exists(x) /\ task[x].user = u
        /\ UNCHANGED <<place, request, task, delegation, nextTask, nextDelegation, copying, spreading>>
    BY <1>0, <1>4 DEF SubmitTask, Calls
  <2>2. PICK m : m = [Idle EXCEPT !.pc = "update", !.user = u, !.task = x]  OBVIOUS
  <2>3. m.pc = "update" /\ m.user = u /\ m.task = x  BY <2>2 DEF Idle
  <2>4. place[task[x].request] = 1 /\ task[x].bound = x => OtherOpen(x)  BY <2>1, SoloSubmit
  <2>5. OtherOpen(x) => OtherOpen(x)'  BY <2>1 DEF OtherOpen, IsOpen
  <2>6. RowSolo(m)'  BY <2>1, <2>3, <2>4, <2>5 DEF RowSolo, Exists
  <2>7. Directed'  BY <1>01, <2>1, DirectedSame
  <2>8. handler' = [handler EXCEPT ![h] = m]  BY <1>4, <2>2 DEF SubmitTask
  <2> QED  BY <1>1, <2>1, <2>3, <2>6, <2>7, <2>8
<1>5. ASSUME NEW u \in Users, NEW v \in Users, NEW w \in {"coming", "current"}, NEW t,
             CreateDelegation(h, u, v, t, w)
      PROVE  Paired'
  <2>1. AtRest /\ UNCHANGED <<place, request, task, nextTask, copying, spreading>> /\ v \in Delegates[u]
        /\ nextDelegation' = nextDelegation + 1
    BY <1>0, <1>5 DEF CreateDelegation, Calls
  <2>2. PICK d \in DelegationIds : \E row :
              /\ d = nextDelegation /\ ~delegation[d].exists /\ d \notin MadeDelegations
              /\ row = [exists |-> TRUE, window |-> w, from |-> u, to |-> v, task |-> t]
              /\ \A e \in DelegationIds : delegation'[e] = IF e = d THEN row ELSE delegation[e]
              /\ Triggers(h, u, d)
    BY <1>5, CreatedDelegation
  <2>3. PICK row : /\ row = [exists |-> TRUE, window |-> w, from |-> u, to |-> v, task |-> t]
                   /\ \A e \in DelegationIds : delegation'[e] = IF e = d THEN row ELSE delegation[e]
    BY <2>2
  <2>4. row.from = u /\ row.to = v  BY <2>3
  <2>5. v = TheDelegate /\ u # TheDelegate  BY <2>1, Chosen DEF DelegatesTo
  <2>6. \A e \in MadeDelegations' : e \in MadeDelegations \/ e = d
    <3>1. nextDelegation \in Int  BY Sizes DEF IInv, TypeOK
    <3> QED  BY <2>1, <2>2, <3>1 DEF MadeDelegations
  <2>7. Directed'  BY <1>01, <2>3, <2>4, <2>5, <2>6 DEF Directed, MadeDelegations
  <2> QED  BY <1>2, <2>1, <2>2, <2>7
<1>6. ASSUME NEW u \in Users, NEW d \in DelegationIds, UpdateDelegation(h, u, d) PROVE Paired'
  <2>1. AtRest /\ UNCHANGED <<place, request, task, delegation, nextTask, nextDelegation, copying, spreading>>
        /\ Triggers(h, u, d)
    BY <1>0, <1>6 DEF UpdateDelegation, Calls
  <2>2. Directed'  BY <1>01, <2>1, DirectedSame
  <2> QED  BY <1>2, <2>1, <2>2
<1>7. ASSUME NEW u, NEW d \in DelegationIds, DeletesRow(h, u, d) PROVE Paired'
  <2>1. AtRest /\ UNCHANGED <<place, request, task, nextTask, nextDelegation, copying, spreading>>
        /\ delegation' = [delegation EXCEPT ![d].exists = FALSE]
    BY <1>0, <1>7 DEF DeletesRow, Calls
  <2>2. PICK m : m = [Idle EXCEPT !.pc = "unshare", !.user = u, !.delegation = d]  OBVIOUS
  <2>3. m.pc = "unshare"  BY <2>2 DEF Idle
  <2>4. handler' = [handler EXCEPT ![h] = m]  BY <1>7, <2>2 DEF DeletesRow
  <2>5. RowSolo(m)'  BY <2>3, OtherRow
  <2>6. \A e \in DelegationIds : delegation'[e].from = delegation[e].from /\ delegation'[e].to = delegation[e].to
    BY <2>1, DelegationTable DEF DelegationRow
  <2>7. Directed'  BY <1>01, <2>1, <2>6 DEF Directed, MadeDelegations
  <2> QED  BY <1>1, <2>1, <2>3, <2>4, <2>5, <2>7
<1>8. ASSUME NEW d \in DelegationIds, TriggerDaily(h, d) PROVE Paired'
  <2>1. AtRest /\ UNCHANGED <<place, request, task, delegation, nextTask, nextDelegation, copying, spreading>>
    BY <1>0, <1>8 DEF TriggerDaily, Calls
  <2>2. PICK m : m = [Idle EXCEPT !.pc = "trigger", !.delegation = d]  OBVIOUS
  <2>3. m.pc = "trigger"  BY <2>2 DEF Idle
  <2>4. handler' = [handler EXCEPT ![h] = m]  BY <1>8, <2>2 DEF TriggerDaily
  <2>5. RowSolo(m)'  BY <2>3, OtherRow
  <2>6. Directed'  BY <1>01, <2>1, DirectedSame
  <2> QED  BY <1>1, <2>1, <2>3, <2>4, <2>5, <2>6
<1> QED
  BY <1>3, <1>4, <1>5, <1>6, <1>7, <1>8 DEF Call, DeleteDelegation, ExpireDaily

LEMMA PairedEnd ==
    ASSUME IInv, Turnwise, Placed, Paired, NEW h \in Handlers, DeleteShares(h) \/ FindRivals(h)
    PROVE  Paired'
<1>1. Light(h)  BY EndIs
<1>2. /\ spreading = {} /\ copying = {}
      /\ \A g \in Handlers : g # h => handler[g].pc = "idle"
  BY <1>1, LightRest
<1>3. PICK m : handler' = [handler EXCEPT ![h] = m]  BY <1>1 DEF Light
<1>4. m = handler'[h]  BY <1>3 DEF IInv, TypeOK
<1>5. m.pc \in {"idle", "rivals", "withdraw"}
  <2>1. handler[h] \in HandlerRow /\ handler \in [Handlers -> HandlerRow]  BY DEF IInv, TypeOK
  <2>2. CASE DeleteShares(h)  BY <1>4, <2>1, <2>2 DEF DeleteShares, HandlerRow
  <2>3. CASE FindRivals(h)
    <3>1. m = Idle \/ m = [handler[h] EXCEPT !.pc = "withdraw"]  BY <1>4, <2>1, <2>3 DEF FindRivals
    <3> QED  BY <2>1, <3>1 DEF Idle, HandlerRow
  <2> QED  BY <2>2, <2>3
<1>6. RowSolo(m)'  BY <1>5, OtherRow
<1>7. UNCHANGED <<place, request, task, delegation, nextTask, nextDelegation, copying, spreading>>
  BY DEF DeleteShares, FindRivals
<1>8. Directed'  BY <1>7, DirectedSame DEF Paired
<1>9. handler[h].pc \in {"idle", "unshare", "rivals"} /\ m.pc # "create"  BY <1>1, <1>5 DEF Light
<1> QED  BY <1>2, <1>3, <1>6, <1>7, <1>8, <1>9, PairedRest

LEMMA SoloSame ==
    ASSUME NEW w, RowSolo(w), w.pc \in Closing, NEW m, m.task = w.task, m.user = w.user,
           m.pc # "advance", UNCHANGED <<place, request, task>>
    PROVE  RowSolo(m)'
<1>1. PICK t : t = m.task  OBVIOUS
<1>2. OtherOpen(t) => OtherOpen(t)'  BY DEF OtherOpen, IsOpen
<1> QED  BY <1>1, <1>2 DEF RowSolo, Exists

(* Closing a task, reading it back and its request, and looking for other   *)
(* open tasks.                                                              *)
LEMMA PairedPlain ==
    ASSUME IInv, Turnwise, Placed, Sorted, Paired, NEW h \in Handlers, Plain(h)
    PROVE  Paired'
<1>1. /\ handler[h].pc \in {"update", "reread", "read", "others"}
      /\ UNCHANGED <<place, request, delegation, nextTask, nextDelegation, copying>>
  BY DEF Plain, UpdateTask, RereadTask, ReadRequest, CheckOthers
<1>2. copying = {} /\ \A g \in Handlers : g # h => handler[g].pc = "idle"
  BY <1>1 DEF Turnwise, Busy
<1>3. handler[h] \in HandlerRow /\ handler[h] \in GoodHandler  BY TaskRows DEF IInv, CallsGood
<1>4. RowPlaced(handler[h]) /\ RowShut(handler[h])  BY DEF Placed, Sorted
<1>5. PICK t : t = handler[h].task  OBVIOUS
<1>6. t \in Made /\ t \in TaskIds  BY <1>1, <1>3, <1>5 DEF GoodHandler, Made
<1>7. PendingKept  BY <1>1, <1>2, NotCreating
<1>8. Directed'  BY <1>1, DirectedSame DEF Paired
<1>9. \A c \in copying' : NewCopy(c)'  BY <1>1, <1>2
<1>10. RowSolo(handler[h]) /\ handler[h].pc \in Closing  BY <1>1 DEF Paired, Closing
<1>11. Exists(t)  BY <1>5, <1>10 DEF RowSolo
<1>12. PICK q : q = task[t].request  OBVIOUS
<1>13. \A r : ClosingOn(r) => r = q  BY <1>2, <1>5, <1>12 DEF ClosingOn, Closing
<1>14. ASSUME NEW m, m.pc \in Closing, m.task = t, handler' = [handler EXCEPT ![h] = m],
              task'[t].request = q
       PROVE  ClosingOn(q)'
  <2>1. handler'[h] = m  BY <1>14 DEF IInv, TypeOK
  <2> QED  BY <1>14, <2>1 DEF ClosingOn
<1>15. ASSUME NEW m, handler' = [handler EXCEPT ![h] = m], m.pc # "create", RowSolo(m)',
              UNCHANGED <<task, spreading>>, ClosingOn(q)' \/ SomeOpen(q)
       PROVE  Paired'
  <2>1. RowDuet(m)'  BY <1>15 DEF RowDuet
  <2>2. \A g \in Handlers : RowSolo(handler[g])' /\ RowDuet(handler[g])'
    BY <1>2, <1>15, <2>1, PairedRows
  <2>3. \A r \in RequestIds : ClosingOn(r) => ClosingOn(r)' \/ SomeOpen(r)  BY <1>13, <1>15
  <2> QED  BY <1>1, <1>7, <1>8, <1>9, <1>15, <2>2, <2>3, PairedSame
<1>16. CASE UpdateTask(h)
  <2>1. PICK m : m = [handler[h] EXCEPT !.pc = "reread"]  OBVIOUS
  <2>2. handler' = [handler EXCEPT ![h] = m] /\ UNCHANGED spreading /\ handler[h].pc = "update"
    BY <1>16, <2>1 DEF UpdateTask
  <2>3. m.pc = "reread" /\ m.task = t /\ m.user = handler[h].user  BY <1>3, <1>5, <2>1 DEF HandlerRow
  <2>4. spreading = {}  BY <1>4, <2>2 DEF RowPlaced, Silent
  <2>5. task' = [task EXCEPT ![t].state = "closed"]  BY <1>5, <1>11, <1>16 DEF UpdateTask
  <2>6. task \in [TaskIds -> TaskRow]  BY TaskTable
  <2>7. \A v \in TaskIds : v # t => task'[v] = task[v]  BY <2>5, <2>6
  <2>8. /\ task'[t].state = "closed" /\ task'[t].bound = task[t].bound /\ task'[t].user = task[t].user
        /\ task'[t].request = task[t].request /\ task'[t].name = task[t].name
    BY <1>6, <2>5, <2>6 DEF TaskRow
  <2>9. IsClosed(t) => task'[t] = task[t]
    <3>1. task[t] \in TaskRow  BY <1>6, <2>6
    <3>2. task[t].state = "closed" => [task[t] EXCEPT !.state = "closed"] = task[t]  BY <3>1 DEF TaskRow
    <3>3. task'[t] = [task[t] EXCEPT !.state = "closed"]  BY <1>6, <2>5, <2>6
    <3> QED  BY <3>2, <3>3 DEF IsClosed
  <2>10. Couples'
    <3>1. Made' = Made  BY <1>1, MadeSame
    <3>2. Thin  BY <1>11, <2>7, <2>8 DEF Thin, Exists
    <3>3. \A v \in TaskIds : IsClosed(v) => task'[v] = task[v]  BY <2>7, <2>9
    <3>4. \A v \in TaskIds : task'[v].bound = task[v].bound  BY <2>7, <2>8
    <3>5. ASSUME NEW v \in TaskIds, task'[v].state # "none", ~Root(v)
          PROVE  task'[task[v].bound].state # "none"
      <4>1. Exists(v)  BY <3>2, <3>5 DEF Thin
      <4>2. Exists(task[v].bound)  BY <3>5, <4>1 DEF Paired, Couples, AllFlat, Flat
      <4>3. PICK o \in TaskIds : task[v].bound = o
        BY <2>6, <3>5 DEF TaskRow, Root
      <4> QED  BY <2>7, <2>8, <4>2, <4>3 DEF Exists
    <3>6. Couples  BY DEF Paired
    <3> QED  BY <1>7, <3>1, <3>2, <3>3, <3>4, <3>5, <3>6, CouplesThin
  <2>11. ClosingOn(q)'
    <3>1. m.pc \in Closing  BY <2>3 DEF Closing
    <3> QED  BY <1>12, <1>14, <2>2, <2>3, <2>8, <3>1
  <2>12. ASSUME NEW r \in RequestIds PROVE InPlay(r)'
    <3>1. CASE r = q  BY <2>11, <3>1 DEF InPlay
    <3>2. CASE r # q
      <4>1. InPlay(r) /\ place'[r] = place[r]  BY <1>1 DEF Paired
      <4>2. SomeClosed(r)' => SomeClosed(r)  BY <1>12, <2>7, <2>8, <3>2 DEF SomeClosed, IsClosed
      <4>3. SomeOpen(r) => SomeOpen(r)'  BY <1>12, <2>7, <3>2 DEF SomeOpen, IsOpen
      <4> QED  BY <1>13, <3>2, <4>1, <4>2, <4>3, InPlayKept
    <3> QED  BY <3>1, <3>2
  <2>13. RowSolo(m)'
    <3>1. OtherOpen(t) => OtherOpen(t)'  BY <2>7, <2>8 DEF OtherOpen, IsOpen
    <3>2. Exists(t)'  BY <2>8 DEF Exists
    <3> QED  BY <1>1, <1>5, <1>10, <2>3, <2>8, <3>1, <3>2 DEF RowSolo
  <2>14. RowDuet(m)'  BY <2>3 DEF RowDuet
  <2>15. \A g \in Handlers : RowSolo(handler[g])' /\ RowDuet(handler[g])'
    BY <1>2, <2>2, <2>13, <2>14, PairedRows
  <2> QED  BY <1>8, <1>9, <2>2, <2>4, <2>10, <2>12, <2>15 DEF Paired
<1>17. CASE RereadTask(h)
  <2>0. PICK o : o = task[t].bound  OBVIOUS
  <2>1. PICK w : w = [handler[h] EXCEPT !.pc = "read", !.bound = o]  OBVIOUS
  <2>2. ~IsOpen(t)  BY <1>4, <1>5, <1>11, <1>17 DEF RowShut, RereadTask, IsClosed, IsOpen
  <2>3. handler' = [handler EXCEPT ![h] = w]
    BY <1>5, <1>11, <1>17, <2>0, <2>1, <2>2 DEF RereadTask
  <2>4. UNCHANGED <<task, spreading>>  BY <1>17 DEF RereadTask
  <2>5. w.pc = "read" /\ w.task = t /\ w.user = handler[h].user  BY <1>3, <1>5, <2>1 DEF HandlerRow
  <2>6. RowSolo(w)'  BY <1>1, <1>5, <1>10, <2>4, <2>5, SoloSame
  <2>7. ClosingOn(q)'
    <3>1. w.pc \in Closing  BY <2>5 DEF Closing
    <3> QED  BY <1>12, <1>14, <2>3, <2>4, <2>5, <3>1
  <2> QED  BY <1>15, <2>3, <2>4, <2>5, <2>6, <2>7
<1>18. CASE ReadRequest(h)
  <2>1. PICK a, b, e : /\ a = place[task[t].request] /\ b = handler[h].bound
                       /\ e = (request[task[t].request].state = "ended")
    OBVIOUS
  <2>2. PICK m : m = [handler[h] EXCEPT !.pc = "spread", !.at = a, !.ended = e]  OBVIOUS
  <2>3. handler' = [handler EXCEPT ![h] = m]
    BY <1>5, <1>18, <2>1, <2>2 DEF ReadRequest, IInv, TypeOK
  <2>4. m.pc = "spread" /\ m.task = t /\ m.user = handler[h].user  BY <1>3, <1>5, <2>2 DEF HandlerRow
  <2>5. spreading = {}  BY <1>4, <1>18 DEF ReadRequest, RowPlaced, Silent
  <2>6. PICK p : p = Run(t, b, TRUE, h)  OBVIOUS
  <2>7. spreading' = {p} /\ UNCHANGED task  BY <1>5, <1>18, <2>1, <2>5, <2>6 DEF ReadRequest
  <2>8. p.closes = TRUE /\ p.pc = "up"  BY <2>6 DEF Run
  <2>9. Mute(p)'  BY <2>8 DEF Mute
  <2>10. Couples'  BY <1>1, <1>7, <2>7, SameCouples DEF Paired
  <2>11. ClosingOn(q)'
    <3>1. m.pc \in Closing  BY <2>4 DEF Closing
    <3> QED  BY <1>12, <1>14, <2>3, <2>4, <2>7, <3>1
  <2>12. ASSUME NEW r \in RequestIds PROVE InPlay(r)'
    <3>1. InPlay(r) /\ place'[r] = place[r]  BY <1>1 DEF Paired
    <3>2. SomeClosed(r)' => SomeClosed(r)  BY <2>7 DEF SomeClosed, IsClosed
    <3>3. SomeOpen(r) => SomeOpen(r)'  BY <2>7 DEF SomeOpen, IsOpen
    <3> QED  BY <1>13, <2>11, <3>1, <3>2, <3>3, InPlayKept
  <2>13. RowSolo(m)'  BY <1>1, <1>5, <1>10, <2>4, <2>7, SoloSame
  <2>14. RowDuet(m)'  BY <2>4 DEF RowDuet
  <2>15. \A g \in Handlers : RowSolo(handler[g])' /\ RowDuet(handler[g])'
    BY <1>2, <2>3, <2>13, <2>14, PairedRows
  <2> QED  BY <1>8, <1>9, <2>7, <2>9, <2>10, <2>12, <2>15 DEF Paired
<1>19. CASE CheckOthers(h)
  <2>1. PICK w : w = [handler[h] EXCEPT !.pc = "advance"]  OBVIOUS
  <2>2. UNCHANGED <<task, spreading>> /\ handler[h].pc = "others"  BY <1>19 DEF CheckOthers
  <2>3. w.pc = "advance" /\ w.task = t /\ w.user = handler[h].user  BY <1>3, <1>5, <2>1 DEF HandlerRow
  <2>4. CASE \E s \in TasksOf(task[t].request) : IsOpen(s) /\ task[s].name # task[t].name
    <3>1. PICK m : m = Idle  OBVIOUS
    <3>2. handler' = [handler EXCEPT ![h] = m]  BY <1>5, <1>19, <2>4, <3>1 DEF CheckOthers
    <3>3. m.pc = "idle"  BY <3>1 DEF Idle
    <3>4. RowSolo(m)'  BY <3>3, OtherRow
    <3>5. SomeOpen(q)  BY <1>12, <2>4 DEF SomeOpen, TasksOf
    <3> QED  BY <1>15, <2>2, <3>2, <3>3, <3>4, <3>5
  <2>5. CASE ~\E s \in TasksOf(task[t].request) : IsOpen(s) /\ task[s].name # task[t].name
    <3>1. handler' = [handler EXCEPT ![h] = w]  BY <1>5, <1>19, <2>1, <2>5 DEF CheckOthers
    <3>2. ~OtherOpen(t)  BY <2>5 DEF OtherOpen, TasksOf, IsOpen, Exists
    <3>3. ~(place[task[t].request] = 1 /\ task[t].bound = t) /\ task[t].user = handler[h].user
      BY <1>5, <1>10, <3>2 DEF RowSolo
    <3>4. RowSolo(w)'  BY <1>1, <1>11, <2>2, <2>3, <3>3 DEF RowSolo, Exists
    <3>5. ClosingOn(q)'
      <4>1. w.pc \in Closing  BY <2>3 DEF Closing
      <4> QED  BY <1>12, <1>14, <2>2, <2>3, <3>1, <4>1
    <3> QED  BY <1>15, <2>2, <2>3, <3>1, <3>4, <3>5
  <2> QED  BY <2>4, <2>5
<1> QED  BY <1>16, <1>17, <1>18, <1>19 DEF Plain

LEMMA PairedTrigger ==
    ASSUME IInv, Turnwise, Placed, Paired, NEW h \in Handlers, Trigger(h)
    PROVE  Paired'
<1>1. /\ UNCHANGED <<place, request, task, delegation, nextTask, nextDelegation, spreading>>
      /\ handler[h].pc = "trigger"
  BY DEF Trigger
<1>2. copying = {} /\ \A g \in Handlers : g # h => handler[g].pc = "idle"
  BY <1>1 DEF Turnwise, Busy
<1>3. \A c \in copying' : c.pc = "share"  BY <1>2 DEF Trigger
<1>4. \A c \in copying' : NewCopy(c)'  BY <1>3 DEF NewCopy
<1>5. PICK m : m = Idle  OBVIOUS
<1>6. handler' = [handler EXCEPT ![h] = m] /\ m.pc = "idle"  BY <1>5 DEF Trigger, Idle
<1>7. RowSolo(m)' /\ RowDuet(m)'  BY <1>6, OtherRow
<1>8. \A g \in Handlers : RowSolo(handler[g])' /\ RowDuet(handler[g])'  BY <1>2, <1>6, <1>7, PairedRows
<1>9. PendingKept  BY <1>1, <1>2, NotCreating
<1>10. Directed'  BY <1>1, DirectedSame DEF Paired
<1>11. \A r \in RequestIds : ~ClosingOn(r)  BY <1>1, <1>2 DEF ClosingOn, Closing
<1> QED  BY <1>1, <1>4, <1>8, <1>9, <1>10, <1>11, PairedSame

(* What is withdrawn is bound to a task that stays, and is open like it.    *)
LEMMA PairedWithdraw ==
    ASSUME IInv, Turnwise, Placed, Shut, Paired, NEW h \in Handlers, WithdrawCopies(h)
    PROVE  Paired'
<1>1. /\ UNCHANGED <<place, request, delegation, nextTask, nextDelegation, copying, spreading>>
      /\ handler[h].pc = "withdraw"
  BY DEF WithdrawCopies
<1>2. copying = {} /\ \A g \in Handlers : g # h => handler[g].pc = "idle"
  BY <1>1 DEF Turnwise, Busy
<1>3. spreading = {}  BY <1>1 DEF Placed, RowPlaced, Silent
<1>4. Couples  BY DEF Paired
<1>5. PICK C : /\ C \subseteq TaskIds /\ \A t \in C : IsOpen(t) /\ task[t].bound \in TaskIds
               /\ task' = [t \in TaskIds |-> IF t \in C THEN [task[t] EXCEPT !.state = "none"] ELSE task[t]]
  BY DEF WithdrawCopies
<1>6. task \in [TaskIds -> TaskRow]  BY TaskTable
<1>7. \A t \in TaskIds : t \notin C => task'[t] = task[t]  BY <1>5
<1>8. \A t \in C : /\ task'[t].state = "none" /\ task'[t].bound = task[t].bound
                   /\ task'[t].user = task[t].user /\ task'[t].name = task[t].name
                   /\ task'[t].request = task[t].request
  BY <1>5, <1>6 DEF TaskRow
<1>9. ASSUME NEW t \in C PROVE Exists(t) /\ ~Root(t)
  <2>1. Exists(t)  BY <1>5 DEF IsOpen, Exists
  <2>2. task[t].bound # t  BY <1>4, <1>5, <2>1 DEF Couples, AllFlat, Flat, IsOpen, IsClosed
  <2> QED  BY <1>5, <2>1, <2>2, Sizes DEF Root
<1>10. ASSUME NEW t \in TaskIds, Exists(t), ~Root(t)
       PROVE  \E o \in TaskIds : task[t].bound = o /\ Exists(o) /\ o \notin C
  <2>1. PICK o \in TaskIds : task[t].bound = o  BY <1>6, <1>10 DEF TaskRow, Root
  <2>2. Exists(o) /\ Root(o)  BY <1>4, <1>10, <2>1 DEF Couples, AllFlat, Flat
  <2> QED  BY <1>9, <2>1, <2>2
<1>11. PendingKept  BY <1>1, <1>2, NotCreating
<1>12. Couples'
  <2>1. Made' = Made  BY <1>1, MadeSame
  <2>2. Thin  BY <1>7, <1>8 DEF Thin, Exists
  <2>3. \A t \in TaskIds : IsClosed(t) => task'[t] = task[t]  BY <1>5, <1>7 DEF IsClosed, IsOpen
  <2>4. \A t \in TaskIds : task'[t].bound = task[t].bound  BY <1>7, <1>8
  <2>5. ASSUME NEW t \in TaskIds, task'[t].state # "none", ~Root(t)
        PROVE  task'[task[t].bound].state # "none"
    <3>1. Exists(t)  BY <2>2, <2>5 DEF Thin
    <3>2. PICK o \in TaskIds : task[t].bound = o /\ Exists(o) /\ o \notin C  BY <1>10, <2>5, <3>1
    <3> QED  BY <1>7, <3>2 DEF Exists
  <2> QED  BY <1>4, <1>11, <2>1, <2>2, <2>3, <2>4, <2>5, CouplesThin
<1>13. \A r : ~ClosingOn(r)  BY <1>1, <1>2 DEF ClosingOn, Closing
<1>14. ASSUME NEW r \in RequestIds PROVE InPlay(r)'
  <2>1. InPlay(r) /\ place'[r] = place[r]  BY <1>1 DEF Paired
  <2>2. SomeClosed(r)' => SomeClosed(r)  BY <1>7, <1>8 DEF SomeClosed, IsClosed
  <2>3. ASSUME SomeOpen(r) PROVE SomeOpen(r)'
    <3>1. PICK s \in TaskIds : IsOpen(s) /\ task[s].request = r  BY <2>3 DEF SomeOpen
    <3>2. CASE s \notin C  BY <1>7, <3>1, <3>2 DEF SomeOpen, IsOpen
    <3>3. CASE s \in C
      <4>1. Exists(s) /\ ~Root(s)  BY <1>9, <3>3
      <4>2. PICK o \in TaskIds : task[s].bound = o /\ Exists(o) /\ o \notin C  BY <1>10, <4>1
      <4>3. \A g \in Handlers : handler[g].pc \notin {"reread", "read"}  BY <1>1, <1>2
      <4>4. IsOpen(o)  BY <1>3, <1>4, <3>1, <4>1, <4>2, <4>3, Together
      <4>5. task[o].request = r  BY <3>1, <4>1, <4>2, BoundKin DEF Kin, Of
      <4> QED  BY <1>7, <4>2, <4>4, <4>5 DEF SomeOpen, IsOpen
    <3> QED  BY <3>2, <3>3
  <2> QED  BY <1>13, <2>1, <2>2, <2>3, InPlayKept
<1>15. PICK m : m = Idle  OBVIOUS
<1>16. handler' = [handler EXCEPT ![h] = m] /\ m.pc = "idle"  BY <1>15 DEF WithdrawCopies, Idle
<1>17. RowSolo(m)' /\ RowDuet(m)'  BY <1>16, OtherRow
<1>18. \A g \in Handlers : RowSolo(handler[g])' /\ RowDuet(handler[g])'
  BY <1>2, <1>16, <1>17, PairedRows
<1>19. Directed'  BY <1>1, DirectedSame DEF Paired
<1>20. \A p \in spreading' : Mute(p)'  BY <1>1, <1>3
<1>21. \A c \in copying' : NewCopy(c)'  BY <1>1, <1>2
<1> QED  BY <1>12, <1>14, <1>18, <1>19, <1>20, <1>21 DEF Paired


(* A step of a run: the run of a call writes "closed" on the one task of    *)
(* the step that is still open, and no other run writes anything.           *)
LEMMA RunWrites ==
    ASSUME IInv, Turnwise, Sorted, Paired, ~UpdatesMayFail, NEW p \in spreading,
           \/ FindAbove(p) \/ WriteAbove(p) \/ FindBelow(p)
           \/ \E z \in p.rows : WriteBelow(p, z)
    PROVE  /\ ~p.closes => UNCHANGED <<task, handler>> /\ (FindAbove(p) \/ FindBelow(p))
           /\ \A t \in TaskIds :
                 \/ task'[t] = task[t]
                 \/ /\ IsOpen(t) /\ task'[t].state = "closed" /\ Kin(t, p.task)
                    /\ \/ task'[t].bound = task[t].bound
                       \/ task'[t].bound = t /\ Root(t)
           /\ \A t \in TaskIds : task'[t].state = "open" => IsOpen(t) /\ task'[t] = task[t]
           /\ \A t \in TaskIds : IsClosed(t) => task'[t] = task[t]
<1>1. RunOpen(p) /\ OwnRun(p) /\ Mute(p)  BY DEF Sorted, Paired
<1>2. /\ p \in Spread /\ p.task \in TaskIds /\ p.task \in Made
      /\ (p.bound = 0 \/ p.bound \in TaskIds) /\ (p.bound # 0 => Kin(p.task, p.bound))
      /\ \A t \in p.rows : t \in TaskIds /\ Kin(t, p.task)
  BY RunRows
<1>3. ~p.closes => UNCHANGED <<task, handler>> /\ (FindAbove(p) \/ FindBelow(p))
  <2> SUFFICES ASSUME ~p.closes PROVE UNCHANGED <<task, handler>> /\ (FindAbove(p) \/ FindBelow(p))
    OBVIOUS
  <2>1. p.pc \in {"up", "down"} /\ p.by = NoHandler  BY <1>1 DEF Mute, RunOpen
  <2>2. FindAbove(p) \/ FindBelow(p)  BY <2>1 DEF WriteAbove, WriteBelow
  <2>3. UNCHANGED handler  BY <2>1, RunStep
  <2> QED  BY <2>2, <2>3 DEF FindAbove, FindBelow
<1>4. ASSUME NEW t \in TaskIds, task'[t] # task[t]
      PROVE  /\ IsOpen(t) /\ task'[t].state = "closed" /\ Kin(t, p.task)
             /\ \/ task'[t].bound = task[t].bound
                \/ task'[t].bound = t /\ Root(t)
  <2>1. p.closes  BY <1>3, <1>4
  <2>2. /\ IsOpen(t) /\ task'[t].state = "closed"
        /\ \/ task'[t].bound = t /\ t = p.bound /\ p.pc = "upWrite"
           \/ task'[t].bound = p.task /\ t \in p.rows
    BY <1>4, <2>1, RunStep
  <2>3. CASE t \in p.rows /\ task'[t].bound = p.task
    BY <1>1, <1>2, <2>1, <2>2, <2>3 DEF OwnRun
  <2>4. CASE t = p.bound /\ task'[t].bound = t
    <3>1. IsClosed(p.task) /\ task[p.task].bound = t  BY <2>1, <2>4, Own
    <3>2. Exists(p.task) /\ p.task # t  BY <2>2, <3>1 DEF IsClosed, IsOpen, Exists
    <3>3. t # 0  BY Sizes
    <3>4. ~Root(p.task)  BY <3>1, <3>2, <3>3 DEF Root
    <3>5. Flat(p.task)  BY <1>2, <3>2 DEF Paired, Couples, AllFlat
    <3>6. Root(t)  BY <3>1, <3>4, <3>5 DEF Flat
    <3>7. Kin(t, p.task)  BY <1>2, <2>4, <3>3 DEF Kin, Of
    <3> QED  BY <2>2, <2>4, <3>6, <3>7
  <2> QED  BY <2>2, <2>3, <2>4
<1>5. \A t \in TaskIds : task'[t].state = "open" => IsOpen(t) /\ task'[t] = task[t]
  BY <1>4 DEF IsOpen
<1>6. \A t \in TaskIds : IsClosed(t) => task'[t] = task[t]  BY <1>4 DEF IsClosed, IsOpen
<1> QED  BY <1>3, <1>4, <1>5, <1>6

(* Of a step, the task that a run is about and one that is bound to another *)
(* open one are all there is.                                               *)
LEMMA NoThird ==
    ASSUME IInv, Couples, NEW b \in TaskIds, IsOpen(b), NEW x \in TaskIds, IsClosed(x),
           Kin(x, b) \/ Kin(b, x), NEW t \in TaskIds, IsOpen(t), task[t].bound = b
    PROVE  t = b
<1>1. Exists(b) /\ Exists(x) /\ Exists(t) /\ x # t /\ x # b  BY DEF IsOpen, IsClosed, Exists
<1>2. Kin(t, b)  BY <1>1, BoundKin
<1>3. Same(t, b) /\ Same(b, x)  BY <1>1, <1>2 DEF Same, Alike, Kin, Of
<1> QED  BY <1>1, <1>3 DEF Couples, Duo

LEMMA MuteSpread ==
    ASSUME IInv, Turnwise, Sorted, Paired, ~UpdatesMayFail, NEW p \in spreading,
           \/ FindAbove(p) \/ WriteAbove(p) \/ FindBelow(p)
           \/ \E z \in p.rows : WriteBelow(p, z)
    PROVE  \A q \in spreading' : Mute(q)'
<1>1. PICK a, b, x : a = p.above /\ b = p.bound /\ x = p.task  OBVIOUS
<1>2. RunOpen(p) /\ OwnRun(p) /\ Mute(p) /\ Couples  BY DEF Sorted, Paired
<1>3. /\ p \in Spread /\ x \in TaskIds /\ (b = 0 \/ b \in TaskIds) /\ (b # 0 => Kin(x, b))
      /\ \A t \in p.rows : t \in TaskIds /\ Kin(t, x)
  BY <1>1, RunRows
<1>4. \A t \in TaskIds : task'[t].state = "open" => IsOpen(t) /\ task'[t] = task[t]
  BY RunWrites
<1>5. ~p.closes => UNCHANGED <<task, handler>> /\ (FindAbove(p) \/ FindBelow(p))
  BY RunWrites
<1>6. p.closes => IsClosed(x) /\ b = task[x].bound /\ task'[x] = task[x]  BY <1>1, <1>3, Own, RunWrites
<1>7. ASSUME NEW q \in spreading PROVE Mute(q)'
  <2>1. Mute(q)  BY DEF Paired
  <2>2. q.task \in TaskIds /\ (q.bound = 0 \/ q.bound \in TaskIds)  BY RunRows
  <2> QED  BY <1>4, <2>1, <2>2 DEF Mute, IsOpen
<1>8. CASE FindAbove(p)
  <2>1. PICK c : c = task[b].bound  OBVIOUS
  <2>2. PICK q : /\ spreading' = (spreading \ {p}) \cup {q}
                 /\ \/ b # 0 /\ IsOpen(b) /\ q = [p EXCEPT !.pc = "upWrite", !.above = c]
                    \/ q = [p EXCEPT !.pc = "down"]
    BY <1>1, <1>8, <2>1 DEF FindAbove, Becomes
  <2>3. UNCHANGED task  BY <1>8 DEF FindAbove
  <2>4. /\ q.task = x /\ q.bound = b /\ q.closes = p.closes
        /\ \/ q.pc = "upWrite" /\ q.above = c /\ b # 0 /\ IsOpen(b)
           \/ q.pc = "down"
    BY <1>1, <1>3, <2>2 DEF Spread
  <2>5. CASE q.pc = "upWrite" /\ q.above = c /\ b # 0 /\ IsOpen(b)
    <3>1. p.closes  BY <1>1, <1>2, <2>5 DEF Mute
    <3>2. IsClosed(x) /\ b = task[x].bound  BY <1>6, <3>1
    <3>3. Exists(x) /\ b # x  BY <2>5, <3>2 DEF IsClosed, IsOpen, Exists
    <3>4. Flat(x) /\ ~Root(x)  BY <1>2, <1>3, <2>5, <3>2, <3>3 DEF Couples, AllFlat, Root
    <3>5. c \in {0, b}  BY <2>1, <3>2, <3>4 DEF Flat, Root
    <3>6. Mute(q)'  BY <2>4, <2>5, <3>1, <3>5 DEF Mute
    <3> QED  BY <1>7, <2>2, <3>6
  <2>6. CASE q.pc = "down"
    <3>1. Mute(q)'  BY <1>1, <1>2, <2>3, <2>4, <2>6 DEF Mute, IsOpen
    <3> QED  BY <1>7, <2>2, <3>1
  <2> QED  BY <2>4, <2>5, <2>6
<1>9. CASE WriteAbove(p)
  <2>1. p.pc = "upWrite"  BY <1>9 DEF WriteAbove
  <2>2. p.closes /\ a \in {0, b} /\ IsOpen(b)  BY <1>1, <1>2, <2>1 DEF Mute, RunOpen
  <2>3. b \in TaskIds /\ IsClosed(x) /\ Kin(x, b)
    BY <1>1, <1>3, <1>6, <2>1, <2>2 DEF IInv, RunsGood, GoodSpread
  <2>4. task'[b].state = "closed"  BY <1>1, <1>9, <2>2, <2>3, WriteIs DEF WriteAbove
  <2>5. PICK q, e : /\ spreading' = (spreading \ {p}) \cup {q, e}
                    /\ q = [p EXCEPT !.pc = "down"] /\ e = Run(b, a, FALSE, NoHandler)
    BY <1>1, <1>9 DEF WriteAbove
  <2>6. q.closes /\ q.pc = "down"  BY <1>3, <2>2, <2>5 DEF Spread
  <2>7. e.task = b /\ e.bound = a /\ e.pc = "up"  BY <2>5 DEF Run
  <2>8. Mute(q)'  BY <2>6 DEF Mute
  <2>9. \A t \in TaskIds : task'[t].state = "open" => task'[t].bound # b
    BY <1>2, <1>3, <1>4, <2>2, <2>3, <2>4, NoThird
  <2>10. Mute(e)'  BY <2>2, <2>4, <2>7, <2>9 DEF Mute, IsOpen
  <2> QED  BY <1>7, <2>5, <2>8, <2>10
<1>10. CASE FindBelow(p)
  <2>1. CASE p.closes
    <3>1. PICK q : q = [p EXCEPT !.pc = "downWrite", !.rows = Below(p)]  OBVIOUS
    <3>2. spreading' \subseteq spreading \cup {q}  BY <1>10, <3>1 DEF FindBelow, Becomes, Ends
    <3>3. q.closes /\ q.pc = "downWrite"  BY <1>3, <2>1, <3>1 DEF Spread
    <3>4. Mute(q)'  BY <3>3 DEF Mute
    <3> QED  BY <1>7, <3>2, <3>4
  <2>2. CASE ~p.closes
    <3>1. Below(p) = {}  BY <1>2, <2>2 DEF Mute, Below
    <3>2. spreading' \subseteq spreading  BY <1>10, <3>1 DEF FindBelow, Ends
    <3> QED  BY <1>7, <3>2
  <2> QED  BY <2>1, <2>2
<1>11. ASSUME NEW z \in p.rows, WriteBelow(p, z) PROVE \A q \in spreading' : Mute(q)'
  <2>1. p.pc = "downWrite"  BY <1>11 DEF WriteBelow
  <2>2. p.closes  BY <1>2, <2>1 DEF Mute
  <2>3. z \in TaskIds /\ IsOpen(z) /\ Kin(z, x)  BY <1>2, <1>3 DEF RunOpen
  <2>4. task'[z].state = "closed"  BY <1>1, <1>11, <2>2, <2>3, WriteIs DEF WriteBelow
  <2>5. PICK q, e : /\ q = [p EXCEPT !.rows = p.rows \ {z}] /\ e = Run(z, x, FALSE, NoHandler)
    OBVIOUS
  <2>6. spreading' \subseteq spreading \cup {q, e}  BY <1>1, <1>11, <2>5 DEF WriteBelow
  <2>7. q.closes /\ q.pc = "downWrite"  BY <1>3, <2>1, <2>2, <2>5 DEF Spread
  <2>8. e.task = z /\ e.bound = x /\ e.pc = "up"  BY <2>5 DEF Run
  <2>9. Mute(q)'  BY <2>7 DEF Mute
  <2>10. \A t \in TaskIds : task'[t].state = "open" => task'[t].bound # z
    BY <1>2, <1>3, <1>4, <1>6, <2>2, <2>3, <2>4, NoThird
  <2>11. task'[x].state # "open"  BY <1>6, <2>2 DEF IsClosed
  <2>12. Mute(e)'  BY <2>4, <2>8, <2>10, <2>11 DEF Mute, IsOpen
  <2> QED  BY <1>7, <2>6, <2>9, <2>12
<1> QED  BY <1>8, <1>9, <1>10, <1>11


(* Nothing a call is working on has changed.                                *)
LEMMA RowsStill ==
    ASSUME UNCHANGED <<place, request, task, nextTask>>, NEW m, RowSolo(m), RowDuet(m)
    PROVE  RowSolo(m)' /\ RowDuet(m)'
<1>1. PICK t : t = m.task  OBVIOUS
<1>2. OtherOpen(t) => OtherOpen(t)'  BY DEF OtherOpen, IsOpen
<1>3. RowSolo(m)'  BY <1>1, <1>2 DEF RowSolo, Exists
<1>4. \A b : DuetItem(b)' = DuetItem(b)
  BY DEF DuetItem, Duet, Twosome, Mate, Root, Done, IsClosed, Exists, Of, Made
<1>5. RowDuet(m)'  BY <1>4 DEF RowDuet
<1> QED  BY <1>3, <1>5

(* What a run writes is about the step of the task that is being closed.    *)
LEMMA PairedSpread ==
    ASSUME IInv, Turnwise, Placed, Sorted, Paired, ~UpdatesMayFail, SpreadStep
    PROVE  Paired'
<1>1. PICK p \in spreading : \/ FindAbove(p) \/ WriteAbove(p) \/ FindBelow(p)
                             \/ \E z \in p.rows : WriteBelow(p, z)
  BY DEF SpreadStep
<1>2. /\ UNCHANGED <<place, request, delegation, nextTask, nextDelegation, copying>>
      /\ \A g \in Handlers : \/ handler'[g] = handler[g]
                             \/ /\ handler[g].pc = "spread"
                                /\ handler'[g] = [handler[g] EXCEPT !.pc = "others"]
  BY SpreadEffect
<1>3. Thin /\ Made' = Made  BY <1>2, SpreadThin, MadeSame
<1>4. PICK x : x = p.task  OBVIOUS
<1>5. RunOpen(p) /\ x \in TaskIds /\ x \in Made  BY <1>4, RunRows DEF Sorted
<1>6. ~p.closes => UNCHANGED <<task, handler>>  BY <1>1, RunWrites
<1>7. \A t \in TaskIds :
         \/ task'[t] = task[t]
         \/ /\ IsOpen(t) /\ task'[t].state = "closed" /\ Kin(t, x)
            /\ \/ task'[t].bound = task[t].bound
               \/ task'[t].bound = t /\ Root(t)
  BY <1>1, <1>4, RunWrites
<1>8. \A t \in TaskIds : IsClosed(t) => task'[t] = task[t]  BY <1>7 DEF IsClosed, IsOpen
<1>9. \A q \in spreading' : Mute(q)'  BY <1>1, MuteSpread
<1>10. ASSUME p.closes
       PROVE  /\ p.by \in Handlers /\ handler[p.by].pc = "spread" /\ handler[p.by].task = x
              /\ IsClosed(x) /\ \A g \in Handlers : g # p.by => handler[g].pc = "idle"
  <2>1. p.by \in Handlers /\ handler[p.by].pc = "spread" /\ handler[p.by].task = x /\ IsClosed(x)
    BY <1>4, <1>10, Own
  <2> QED  BY <2>1 DEF Turnwise, Busy
<1>11. PendingKept
  <2>1. CASE ~p.closes  BY <1>6, <2>1, SameHandlers
  <2>2. CASE p.closes
    <3>1. \A g \in Handlers : handler[g].pc # "create"  BY <1>10, <2>2
    <3> QED  BY <3>1, NotCreating
  <2> QED  BY <2>1, <2>2
<1>12. Couples'
  <2>1. \A t \in TaskIds : task'[t].state # "none" =>
           \/ task'[t].bound = task[t].bound
           \/ task'[t].bound = t /\ Root(t) /\ task'[t].state = "closed"
    BY <1>7
  <2>2. ASSUME NEW t \in TaskIds, task'[t].state # "none", ~Root(t)
        PROVE  task'[task[t].bound].state # "none"
    <3>1. Exists(t)  BY <1>3, <2>2 DEF Thin
    <3>2. PICK o : o = task[t].bound  OBVIOUS
    <3>3. Exists(o)  BY <2>2, <3>1, <3>2 DEF Paired, Couples, AllFlat, Flat
    <3>4. o \in TaskIds  BY <2>2, <3>2, TaskRows DEF TaskRow, Root
    <3>5. task'[o].state # "none"  BY <1>7, <3>3, <3>4 DEF Exists
    <3> QED  BY <3>2, <3>5
  <2>3. Couples  BY DEF Paired
  <2> QED  BY <1>3, <1>8, <1>11, <2>1, <2>2, <2>3, CouplesThin
<1>13. ASSUME NEW r \in RequestIds PROVE InPlay(r)'
  <2>1. InPlay(r) /\ place'[r] = place[r]  BY <1>2 DEF Paired
  <2>2. CASE ~p.closes
    <3>1. UNCHANGED <<task, handler>>  BY <1>6, <2>2
    <3>2. /\ SomeClosed(r)' => SomeClosed(r)
          /\ SomeOpen(r) => SomeOpen(r)'
          /\ ClosingOn(r) => ClosingOn(r)'
      BY <3>1 DEF SomeClosed, SomeOpen, ClosingOn, IsClosed, IsOpen
    <3> QED  BY <2>1, <3>2, InPlayKept
  <2>3. CASE p.closes /\ task[x].request = r
    <3>1. PICK w, m : w = handler[p.by] /\ m = handler'[p.by]  OBVIOUS
    <3>2. w \in HandlerRow /\ w.pc = "spread" /\ w.task = x  BY <1>10, <2>3, <3>1, TaskRows
    <3>3. m.pc \in {"spread", "others"} /\ m.task = x
      <4>1. m = w \/ m = [w EXCEPT !.pc = "others"]  BY <1>2, <1>10, <2>3, <3>1
      <4> QED  BY <3>2, <4>1 DEF HandlerRow
    <3>4. m.pc \in Closing  BY <3>3 DEF Closing
    <3>5. task'[x].request = r  BY <1>3, <1>5, <2>3 DEF Thin
    <3>6. ClosingOn(r)'  BY <1>10, <2>3, <3>1, <3>3, <3>4, <3>5 DEF ClosingOn
    <3> QED  BY <2>1, <3>6, InPlayKept
  <2>4. CASE p.closes /\ task[x].request # r
    <3>1. ~ClosingOn(r)  BY <1>10, <2>4 DEF ClosingOn, Closing
    <3>2. \A t \in TaskIds : task[t].request = r => task'[t] = task[t]
      BY <1>7, <2>4 DEF Kin, Of
    <3>3. \A t \in TaskIds : task'[t].request = task[t].request  BY <1>3 DEF Thin
    <3>4. SomeClosed(r)' => SomeClosed(r)  BY <3>2, <3>3 DEF SomeClosed, IsClosed
    <3>5. SomeOpen(r) => SomeOpen(r)'  BY <3>2, <3>3 DEF SomeOpen, IsOpen
    <3> QED  BY <2>1, <3>1, <3>4, <3>5, InPlayKept
  <2> QED  BY <2>2, <2>3, <2>4
<1>14. ASSUME NEW g \in Handlers PROVE RowSolo(handler[g])' /\ RowDuet(handler[g])'
  <2>1. PICK w, m : w = handler[g] /\ m = handler'[g]  OBVIOUS
  <2>2. RowSolo(w) /\ RowDuet(w) /\ w \in HandlerRow  BY <2>1, TaskRows DEF Paired
  <2>3. CASE ~p.closes
    <3>1. m = w /\ UNCHANGED <<place, request, task, nextTask>>  BY <1>2, <1>6, <2>1, <2>3
    <3>2. RowSolo(w)' /\ RowDuet(w)'  BY <2>2, <3>1, RowsStill
    <3> QED  BY <2>1, <3>1, <3>2
  <2>4. CASE p.closes /\ g # p.by
    <3>1. m.pc = "idle"  BY <1>2, <1>10, <2>1, <2>4
    <3>2. RowSolo(m)' /\ RowDuet(m)'  BY <3>1, OtherRow
    <3> QED  BY <2>1, <3>2
  <2>5. CASE p.closes /\ g = p.by
    <3>1. w.pc = "spread" /\ w.task = x /\ IsClosed(x)  BY <1>10, <2>1, <2>5
    <3>2. m.pc \in {"spread", "others"} /\ m.task = x /\ m.user = w.user
      BY <1>2, <2>1, <2>2, <3>1 DEF HandlerRow
    <3>3. w.pc \in Closing  BY <3>1 DEF Closing
    <3>4. task'[x] = task[x]  BY <1>5, <1>8, <3>1
    <3>5. OtherOpen(x) => OtherOpen(x)'
      <4>1. \A s \in TaskIds : task[s].name # task[x].name => task'[s] = task[s]
        BY <1>7 DEF Kin, Of
      <4> QED  BY <3>4, <4>1 DEF OtherOpen, IsOpen
    <3>6. RowSolo(m)'  BY <1>2, <2>2, <3>1, <3>2, <3>3, <3>4, <3>5 DEF RowSolo, Exists
    <3>7. RowDuet(m)'  BY <3>2 DEF RowDuet
    <3> QED  BY <2>1, <3>6, <3>7
  <2> QED  BY <2>3, <2>4, <2>5
<1>15. \A c \in copying' : NewCopy(c)'  BY <1>1, <1>2 DEF Placed
<1>16. Directed'  BY <1>2, DirectedSame DEF Paired
<1> QED  BY <1>9, <1>12, <1>13, <1>14, <1>15, <1>16 DEF Paired

LEMMA StillCouples ==
    ASSUME IInv, Paired, Directed', UNCHANGED <<place, request, task, nextTask, handler, copying, spreading>>
    PROVE  Paired'
<1>1. PendingKept  BY SameHandlers
<1>2. \A c \in copying' : NewCopy(c)'
  <2>1. ASSUME NEW c \in copying PROVE NewCopy(c)'
    <3>1. NewCopy(c)  BY DEF Paired
    <3>2. PICK r : r = task[c.task].request  OBVIOUS
    <3>3. Done(r)' => Done(r)  BY DEF Done, IsClosed
    <3> QED  BY <3>1, <3>2, <3>3 DEF NewCopy, Held, TasksOf, Exists
  <2> QED  BY <2>1
<1>3. ASSUME NEW g \in Handlers PROVE RowSolo(handler[g])' /\ RowDuet(handler[g])'
  <2>1. PICK w : w = handler[g]  OBVIOUS
  <2>2. RowSolo(w)' /\ RowDuet(w)'  BY <2>1, RowsStill DEF Paired
  <2> QED  BY <2>1, <2>2
<1>4. \A r \in RequestIds : ClosingOn(r) => ClosingOn(r)'  BY DEF ClosingOn
<1> QED  BY <1>1, <1>2, <1>3, <1>4, PairedSame

LEMMA PairedToday ==
    ASSUME IInv, Paired, NEW d \in DelegationIds, NEW w \in {"current", "past"}, Today(d, w)
    PROVE  Paired'
<1>1. UNCHANGED <<place, request, task, nextTask, nextDelegation, handler, copying, spreading>>  BY DEF Today
<1>2. delegation' = [delegation EXCEPT ![d].window = w]  BY DEF Today
<1>3. ASSUME NEW e \in DelegationIds
      PROVE  delegation'[e].from = delegation[e].from /\ delegation'[e].to = delegation[e].to
  <2>1. delegation \in [DelegationIds -> DelegationRow]  BY DEF IInv, TypeOK
  <2>2. PICK row : row = [delegation[d] EXCEPT !.window = w]  OBVIOUS
  <2>3. delegation'[e] = IF e = d THEN row ELSE delegation[e]  BY <1>2, <2>1, <2>2
  <2>4. row.from = delegation[d].from /\ row.to = delegation[d].to  BY <2>1, <2>2 DEF DelegationRow
  <2> QED  BY <2>3, <2>4
<1>4. Directed'  BY <1>1, <1>3 DEF Paired, Directed, MadeDelegations
<1> QED  BY <1>1, <1>4, StillCouples

(* A request that is walked once more stays so.                             *)
LEMMA WalkedOnce ==
    ASSUME IInv, [Next]_vars, FirstWalk' PROVE FirstWalk
<1>1. request \in [RequestIds -> RequestRow]  BY DEF IInv, TypeOK
<1>2. CASE UNCHANGED request  BY <1>2 DEF FirstWalk
<1>3. ASSUME NEW r, NEW s, NEW b, request' = [request EXCEPT ![r].state = s, ![r].again = @ \/ b]
      PROVE  FirstWalk
  <2>1. ASSUME NEW q \in RequestIds PROVE ~request[q].again
    <3>1. ~request'[q].again  BY DEF FirstWalk
    <3>2. request[q].again => request'[q].again  BY <1>1, <1>3 DEF RequestRow
    <3> QED  BY <3>1, <3>2
  <2> QED  BY <2>1 DEF FirstWalk
<1>4. ASSUME NEW r, NEW s, request' = [request EXCEPT ![r].state = s] PROVE FirstWalk
  BY <1>1, <1>4 DEF FirstWalk, RequestRow
<1>5. ASSUME NEW h \in Handlers, Call(h) PROVE FirstWalk
  <2>1. ASSUME NEW u, NEW r, OpenRequest(h, u, r) PROVE FirstWalk  BY <1>4, <2>1 DEF OpenRequest
  <2>2. CASE UNCHANGED request  BY <1>2, <2>2
  <2>3. (\A u, r : ~OpenRequest(h, u, r)) => UNCHANGED request
    BY <1>5 DEF Call, SubmitTask, CreateDelegation, UpdateDelegation,
       DeleteDelegation, DeletesRow, ExpireDaily, TriggerDaily
  <2> QED  BY <2>1, <2>2, <2>3
<1>6. ASSUME NEW h \in Handlers, Proceed(h) PROVE FirstWalk
  <2>1. CASE AdvanceRequest(h)
    <3>1. PICK me, r, s : me = handler[h] /\ r = task[me.task].request /\ s = StateAt(me.at + 1)
      OBVIOUS
    <3>2. PICK b : b = (me.ended /\ s = "running")  OBVIOUS
    <3>3. \/ request' = [request EXCEPT ![r].state = s, ![r].again = @ \/ b]
          \/ UNCHANGED request
      BY <2>1, <3>1, <3>2 DEF AdvanceRequest
    <3> QED  BY <1>2, <1>3, <3>3
  <2>2. CASE ~AdvanceRequest(h)
    BY <1>2, <1>6, <2>2 DEF Proceed, FindTask, InsertTask, InsertFails, GiveOwner, Rebind, GiveDelegates,
       FindShare, AddShare, UpdateTask, RereadTask, ReadRequest, CheckOthers, Trigger, DeleteShares,
       FindRivals, WithdrawCopies
  <2> QED  BY <2>1, <2>2
<1>7. CASE SpreadStep
  BY <1>2, <1>7 DEF SpreadStep, FindAbove, WriteAbove, FindBelow, WriteBelow
<1>8. CASE CopyStep
  BY <1>2, <1>8 DEF CopyStep, FindCopyShare, AddCopyShare, FindCopy, AddCopy
<1>9. ASSUME NEW d, NEW w, Today(d, w) PROVE FirstWalk  BY <1>2, <1>9 DEF Today
<1>10. CASE UNCHANGED vars  BY <1>2, <1>10 DEF vars
<1> QED  BY <1>5, <1>6, <1>7, <1>8, <1>9, <1>10 DEF Next

LEMMA NextPaired ==
    ASSUME IInv, Turnwise, Single, Placed, Sorted, Shut, FirstWalk => Paired,
           Alone = Calls, ~UpdatesMayFail, LastLevel <= 2, OneDelegate, [Next]_vars
    PROVE  (FirstWalk => Paired)'
<1> SUFFICES ASSUME FirstWalk' PROVE Paired'  OBVIOUS
<1>0. FirstWalk /\ Paired  BY WalkedOnce
<1>1. ASSUME NEW h \in Handlers, Call(h) PROVE Paired'  BY <1>0, <1>1, PairedCall
<1>2. ASSUME NEW h \in Handlers, Proceed(h) PROVE Paired'
  <2>1. CASE FindTask(h) \/ InsertFails(h) \/ GiveOwner(h) \/ GiveDelegates(h) \/ FindShare(h) \/ AddShare(h)
    BY <1>0, <2>1, PairedItems
  <2>2. CASE InsertTask(h)  BY <1>0, <2>2, PairedInsert
  <2>3. CASE Rebind(h)  BY <1>0, <2>3, PairedRebind
  <2>4. CASE Plain(h)  BY <1>0, <2>4, PairedPlain
  <2>5. CASE AdvanceRequest(h)  BY <1>0, <2>5, PairedAdvance
  <2>6. CASE Trigger(h)  BY <1>0, <2>6, PairedTrigger
  <2>7. CASE DeleteShares(h) \/ FindRivals(h)  BY <1>0, <2>7, PairedEnd
  <2>8. CASE WithdrawCopies(h)  BY <1>0, <2>8, PairedWithdraw
  <2> QED  BY <1>2, <2>1, <2>2, <2>3, <2>4, <2>5, <2>6, <2>7, <2>8 DEF Proceed, Plain
<1>3. CASE SpreadStep  BY <1>0, <1>3, PairedSpread
<1>4. CASE CopyStep  BY <1>0, <1>4, PairedCopy
<1>5. ASSUME NEW d \in DelegationIds, NEW w \in {"current", "past"}, Today(d, w) PROVE Paired'
  BY <1>0, <1>5, PairedToday
<1>6. CASE UNCHANGED vars
  <2>1. UNCHANGED <<place, request, task, delegation, nextTask, nextDelegation, handler, copying, spreading>>
    BY <1>6 DEF vars
  <2>2. Directed'  BY <1>0, <2>1, DirectedSame DEF Paired
  <2> QED  BY <1>0, <2>1, <2>2, StillCouples
<1> QED  BY <1>1, <1>2, <1>3, <1>4, <1>5, <1>6 DEF Next

(* All of it, step by step.                                                 *)
LEMMA PairedAlways ==
    ASSUME Alone = Calls, ~UpdatesMayFail, LastLevel <= 2, OneDelegate
    PROVE  Spec => [](IInv /\ Placed /\ Shut /\ AllLeft /\ (FirstWalk => Paired))
<1>1. Init => IInv /\ Turnwise /\ Single /\ Placed /\ Sorted /\ Shut /\ AllLeft /\ (FirstWalk => Paired)
  BY Starts, InitSingle, InitPlaced, InitSorted, InitShut, InitLeft, InitPaired
<1>2. IInv /\ Turnwise /\ Single /\ Placed /\ Sorted /\ Shut /\ AllLeft /\ (FirstWalk => Paired) /\ [Next]_vars
         => (IInv /\ Turnwise /\ Single /\ Placed /\ Sorted /\ Shut /\ AllLeft /\ (FirstWalk => Paired))'
  BY Keeps, NextSingle, NextPlaced, NextSorted, NextShut, NextLeft, NextPaired
<1> QED  BY <1>1, <1>2, PTL DEF Spec

(* When nobody is at work, a task and its copy are open together and closed *)
(* together, whoever closed which of them (UpdateDelegated,                 *)
(* utils.go:283-336): for every workflow of at most two steps, when all     *)
(* delegate to one user who delegates to nobody, every call waits until     *)
(* nobody is at work and no UPDATE is refused, and until a request that has *)
(* ended is walked once more.                                               *)
THEOREM ClosedTogetherCorrect ==
    ASSUME Alone = Calls, ~UpdatesMayFail, LastLevel <= 2, OneDelegate
    PROVE  Spec => []ClosedTogether
<1>1. IInv /\ Shut /\ (FirstWalk => Paired) => ClosedTogether
  <2> SUFFICES ASSUME IInv, Shut, Paired, AtRest, NEW t \in TaskIds, Exists(t),
                      NEW o, o = task[t].bound, o # 0, Exists(o)
               PROVE  IsOpen(t) <=> IsOpen(o)
    BY DEF ClosedTogether
  <2>1. spreading = {} /\ \A h \in Handlers : handler[h].pc \notin {"reread", "read"}  BY DEF AtRest
  <2>2. o \in TaskIds  BY TaskRows DEF TaskRow
  <2> QED  BY <2>1, <2>2, Together DEF Paired
<1> QED  BY <1>1, PairedAlways, PTL

(* When nobody is at work, every open task belongs to the step its request  *)
(* is at: UpdateDelegated has closed the copy or original of what was       *)
(* closed before the request moved on (task_service.go:130-218,             *)
(* utils.go:283-336), under the same conditions.                            *)
THEOREM OpenHereCorrect ==
    ASSUME Alone = Calls, ~UpdatesMayFail, LastLevel <= 2, OneDelegate
    PROVE  Spec => []OpenHere
<1>1. IInv /\ AllLeft /\ (FirstWalk => Paired) => OpenHere
  <2> SUFFICES ASSUME IInv, AllLeft, Paired, AtRest, FirstWalk, NEW t \in TaskIds, IsOpen(t),
                      Level[task[t].name] # place[task[t].request]
               PROVE  FALSE
    BY DEF OpenHere
  <2>1. PICK x \in TaskIds : /\ IsClosed(x) /\ ~Bound(x, t) /\ ~Bound(t, x)
                             /\ task[x].request = task[t].request /\ task[x].name = task[t].name
    BY DEF AllLeft, Behind, Left
  <2>2. Same(x, t) /\ x # t  BY <2>1 DEF Same, Alike, IsOpen, IsClosed, Exists
  <2>3. ~Pending(x, t) /\ ~Pending(t, x)  BY DEF Pending, AtRest
  <2> QED  BY <2>1, <2>2, <2>3 DEF Paired, Couples, AllTied, Tied
<1> QED  BY <1>1, PairedAlways, PTL
============================================================================
