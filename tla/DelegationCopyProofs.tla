------------------------ MODULE DelegationCopyProofs ------------------------
(***************************************************************************)
(* The copies of a delegate last no longer than the delegation, and have   *)
(* the shares they need, when every call waits until nobody is at work.    *)
(*                                                                         *)
(* On top of the invariants of DelegationProofs and DelegationTurnProofs   *)
(* stand Backing, which says of every row, and of all that a call or a     *)
(* goroutine remembers and may still write, which delegation stands behind *)
(* it, and Showing, which says the same of its share.                      *)
(***************************************************************************)
EXTENDS DelegationTurnProofs
USE DEF RequestIds, TaskIds, DelegationIds

----------------------------------------------------------------------------
(***************************************************************************)
(* Copies.  A copy is made because of a delegation that has begun, and the *)
(* end of the delegation withdraws it.  In between, bindings are written   *)
(* by what creates tasks and by the goroutines of UpdateDelegated, from    *)
(* what they read before; the invariant says of everything they remember   *)
(* that it is backed by a delegation.  Only the task of the user in charge *)
(* is ever bound to the task of another owner, the one whose delegate      *)
(* closed the step before: this needs that owner's task to be there before *)
(* any delegate's is created, which the order of the things to do brings   *)
(* about unless the INSERT of the owner's task is refused.                 *)
(***************************************************************************)
NoChain == \A u \in Users : \A v \in Delegates[u] : Delegates[v] = {}
Ends3 == {"unshare", "rivals", "withdraw"}
Quiet == \A h \in Handlers : handler[h].pc \in Ends3 => spreading = {}

Lasts(d) == d \in DelegationIds /\ delegation[d].exists /\ delegation[d].window # "coming"
Backed(u, v) == \E d \in Between(u, v) : Lasts(d)
Ending(u, v) == \E h \in Handlers : handler[h].pc \in Ends3 /\ handler[h].delegation \in Between(u, v)
Allowed(u, v, n) == Sole(n) => v = Assignee[n] \/ Backed(u, v)

Stands(t) == t \in TaskIds /\ Exists(t)
Belongs(t, u) == t \in Made /\ task[t].user = u
(* The owner of b, whose delegate has closed a task, has the next one too.  *)
Served(b, r, n) == b = 0 \/ (b \in Made /\ ~Exists(b)) \/ (b \in Made /\ Held(r, n, task[b].user))
Mine(x, b) == Stands(b) /\ x.user = task[b].user
Follows(x) == Stands(x.task) /\ task[x.task].user = x.user

FirstCopy(x) == x.bound = 0 /\ x.task = 0 /\ x.user = Assignee[x.name]
DelegateCopy(x, b) == /\ x.task = 0 /\ Stands(x.bound) /\ Allowed(task[x.bound].user, x.user, x.name)
                      /\ Served(b, x.request, x.name)
OwnerCopy(x, b) == /\ x.bound = 0 /\ x.task # 0 /\ Mine(x, b)
                   /\ Belongs(x.task, Assignee[x.name]) \/ Served(b, x.request, x.name)
Fine(x, b) ==
    /\ x.kind \in {"create", "insert"} => FirstCopy(x) \/ DelegateCopy(x, b) \/ OwnerCopy(x, b)
    /\ x.kind = "owner" => Belongs(x.task, Assignee[x.name]) \/ Served(b, x.request, x.name)
    /\ x.kind = "delegates" => Follows(x) /\ Served(b, x.request, x.name)
    /\ x.kind = "rebind" => Belongs(x.task, Assignee[x.name])
FineItem(b) == {x \in Item : Fine(x, b)}
(* The first thing will see to the owner, before the second.                *)
Leads(x, y, b) ==
    /\ x.kind = "owner" \/ (x.kind \in {"create", "insert"} /\ Mine(x, b))
    /\ y.kind = "delegates" /\ Follows(y) /\ x.request = y.request /\ x.name = y.name
Neat(T, b) ==
    \/ T \in Seq(FineItem(b))
    \/ /\ T \in Seq(Item) /\ T # <<>> /\ Tail(T) # <<>> /\ Head(T) \in FineItem(b)
       /\ Leads(Head(T), Head(Tail(T)), b) /\ Tail(Tail(T)) \in Seq(FineItem(b))

Honest(d) == /\ delegation[d].to \in Delegates[delegation[d].from]
             /\ delegation[d].task # 0 => Belongs(delegation[d].task, delegation[d].from)
RowFine(m) ==
    /\ m.pc \in {"read", "spread", "others", "advance", "create"} => m.bound = 0 \/ m.bound \in Made
    /\ m.pc = "create" => Neat(m.todo, m.bound)
    /\ m.pc = "read" => Stands(m.task)
    /\ m.pc = "trigger" => Lasts(m.delegation)
    /\ m.pc \in Ends3 => m.user = delegation[m.delegation].from
CopyFine(c) ==
    /\ Stands(c.task) /\ Lasts(c.delegation)
    /\ Sole(task[c.task].name) => delegation[c.delegation].from = task[c.task].user
RunFine(p) ==
    /\ Stands(p.task) /\ (p.pc = "upWrite" => Stands(p.bound))
    /\ \A t \in p.rows : /\ Stands(t)
                         /\ t = p.task \/ Allowed(task[p.task].user, task[t].user, task[t].name)
Copied == \A t \in TaskIds : IsCopy(t) =>
             Stands(task[t].bound) /\ (Backed(Owner(t), task[t].user) \/ Ending(Owner(t), task[t].user))
Backing ==
    /\ \A d \in MadeDelegations : Honest(d)
    /\ \A h \in Handlers : RowFine(handler[h])
    /\ \A c \in copying : CopyFine(c)
    /\ \A p \in spreading : RunFine(p)
    /\ Quiet /\ Copied

LEMMA InitBacking == ASSUME Init PROVE Backing
<1>1. MadeDelegations = {}  BY DEF Init, MadeDelegations
<1>2. \A t \in TaskIds : ~IsCopy(t)  BY DEF Init, IsCopy, Personal, IsOpen, NoTask
<1>3. copying = {} /\ spreading = {} /\ \A h \in Handlers : handler[h] = Idle  BY DEF Init
<1>4. RowFine(Idle)  BY DEF RowFine, Idle, Ends3
<1> QED  BY <1>1, <1>2, <1>3, <1>4 DEF Backing, Quiet, Copied, Ends3

(* A step that changes no delegation and takes no task away.                *)
Calm == /\ UNCHANGED delegation /\ Made \subseteq Made'
        /\ \A t \in Made : /\ task'[t].request = task[t].request /\ task'[t].name = task[t].name
                           /\ task'[t].user = task[t].user
                           /\ (task'[t].state # "none" <=> task[t].state # "none")

LEMMA StandsMade == ASSUME IInv, NEW t, Stands(t) PROVE t \in Made /\ t \in TaskIds
BY ExistsMade DEF Stands

LEMMA CalmBacked ==
    ASSUME Calm
    PROVE  /\ \A u, v : Backed(u, v)' <=> Backed(u, v)
           /\ \A d : Lasts(d) <=> Lasts(d)'
           /\ \A u, v, n : Allowed(u, v, n) <=> Allowed(u, v, n)'
<1>1. \A d : Lasts(d) <=> Lasts(d)'  BY DEF Calm, Lasts
<1>2. \A u, v : Between(u, v)' = Between(u, v)  BY DEF Calm, Between
<1>3. \A u, v : Backed(u, v)' <=> Backed(u, v)  BY <1>1, <1>2 DEF Backed
<1> QED  BY <1>1, <1>3 DEF Allowed

LEMMA CalmTasks ==
    ASSUME IInv, Calm
    PROVE  /\ \A t : Stands(t) => Stands(t)' /\ task'[t].user = task[t].user
           /\ \A t, u : Belongs(t, u) => Belongs(t, u)'
           /\ \A r, n, u : Held(r, n, u) => Held(r, n, u)'
           /\ \A b, r, n : Served(b, r, n) => Served(b, r, n)'
<1>1. ASSUME NEW t, Stands(t) PROVE Stands(t)' /\ task'[t].user = task[t].user
  <2>1. t \in Made /\ t \in TaskIds  BY <1>1, StandsMade
  <2> QED  BY <1>1, <2>1 DEF Calm, Stands, Exists
<1>2. \A t, u : Belongs(t, u) => Belongs(t, u)'  BY DEF Belongs, Calm
<1>3. ASSUME NEW r, NEW n, NEW u, Held(r, n, u) PROVE Held(r, n, u)'
  <2>1. PICK t \in TaskIds : Exists(t) /\ task[t].request = r /\ task[t].name = n /\ task[t].user = u
    BY <1>3 DEF Held, TasksOf
  <2>2. t \in Made  BY <2>1, ExistsMade
  <2>3. Exists(t)' /\ task'[t].request = r /\ task'[t].name = n /\ task'[t].user = u
    BY <2>1, <2>2 DEF Calm, Exists
  <2> QED  BY <2>3 DEF Held, TasksOf
<1>4. ASSUME NEW b, NEW r, NEW n, Served(b, r, n) PROVE Served(b, r, n)'
  <2>1. CASE b = 0  BY <2>1 DEF Served
  <2>2. CASE b \in Made /\ ~Exists(b)  BY <2>2 DEF Served, Calm, Exists
  <2>3. CASE b \in Made /\ Held(r, n, task[b].user)
    <3>1. PICK u : u = task[b].user  OBVIOUS
    <3>2. Held(r, n, u)' /\ task'[b].user = u /\ b \in Made'  BY <1>3, <2>3, <3>1 DEF Calm
    <3> QED  BY <3>2 DEF Served
  <2> QED  BY <1>4, <2>1, <2>2, <2>3 DEF Served
<1> QED  BY <1>1, <1>2, <1>3, <1>4

LEMMA CalmFine ==
    ASSUME IInv, Calm, NEW x, NEW b, Fine(x, b)
    PROVE  Fine(x, b)'
<1>1. Mine(x, b) => Mine(x, b)'  BY CalmTasks DEF Mine
<1>2. Follows(x) => Follows(x)'  BY CalmTasks DEF Follows
<1>3. DelegateCopy(x, b) => DelegateCopy(x, b)'
  <2> SUFFICES ASSUME DelegateCopy(x, b) PROVE DelegateCopy(x, b)'  OBVIOUS
  <2>1. PICK u : u = task[x.bound].user  OBVIOUS
  <2>2. Allowed(u, x.user, x.name)'  BY <2>1, CalmBacked DEF DelegateCopy
  <2>3. Stands(x.bound)' /\ task'[x.bound].user = u  BY <2>1, CalmTasks DEF DelegateCopy
  <2> QED  BY <2>2, <2>3, CalmTasks DEF DelegateCopy
<1>4. OwnerCopy(x, b) => OwnerCopy(x, b)'  BY <1>1, CalmTasks DEF OwnerCopy
<1>5. FirstCopy(x)' <=> FirstCopy(x)  BY DEF FirstCopy
<1> QED  BY <1>2, <1>3, <1>4, <1>5, CalmTasks DEF Fine

LEMMA CalmNeat ==
    ASSUME IInv, Calm
    PROVE  /\ \A b : FineItem(b) \subseteq FineItem(b)' /\ Seq(FineItem(b)) \subseteq Seq(FineItem(b)')
           /\ \A T, b : Neat(T, b) => Neat(T, b)'
<1>1. ASSUME NEW b PROVE FineItem(b) \subseteq FineItem(b)'
  BY CalmFine DEF FineItem
<1>2. \A b : Seq(FineItem(b)) \subseteq Seq(FineItem(b)')
  <2> SUFFICES ASSUME NEW b PROVE Seq(FineItem(b)) \subseteq Seq(FineItem(b)')  OBVIOUS
  <2>1. PICK S, R : S = FineItem(b) /\ R = FineItem(b)'  OBVIOUS
  <2>2. S \subseteq R  BY <1>1, <2>1
  <2>3. Seq(S) \subseteq Seq(R)  BY <2>2
  <2> QED  BY <2>1, <2>3
<1>3. ASSUME NEW x, NEW y, NEW b, Leads(x, y, b) PROVE Leads(x, y, b)'
  <2>1. Mine(x, b) => Mine(x, b)'  BY CalmTasks DEF Mine
  <2>2. Follows(y)'  BY <1>3, CalmTasks DEF Follows, Leads
  <2> QED  BY <1>3, <2>1, <2>2 DEF Leads
<1>4. ASSUME NEW T, NEW b, Neat(T, b) PROVE Neat(T, b)'
  <2>1. CASE T \in Seq(FineItem(b))  BY <1>2, <2>1 DEF Neat
  <2>2. CASE T \notin Seq(FineItem(b))
    <3>1. PICK x, y : x = Head(T) /\ y = Head(Tail(T))  OBVIOUS
    <3>2. /\ T \in Seq(Item) /\ T # <<>> /\ Tail(T) # <<>> /\ x \in FineItem(b)
          /\ Leads(x, y, b) /\ Tail(Tail(T)) \in Seq(FineItem(b))
      BY <1>4, <2>2, <3>1 DEF Neat
    <3>3. x \in FineItem(b)' /\ Leads(x, y, b)' /\ Tail(Tail(T)) \in Seq(FineItem(b)')
      BY <1>1, <1>2, <1>3, <3>2
    <3> QED  BY <3>1, <3>2, <3>3 DEF Neat
  <2> QED  BY <2>1, <2>2
<1> QED  BY <1>1, <1>2, <1>4

LEMMA CalmRow == ASSUME IInv, Calm, NEW m, RowFine(m) PROVE RowFine(m)'
<1>1. m.pc = "create" => Neat(m.todo, m.bound)'  BY CalmNeat DEF RowFine
<1>2. m.pc = "read" => Stands(m.task)'  BY CalmTasks DEF RowFine
<1>3. m.pc = "trigger" => Lasts(m.delegation)'  BY CalmBacked DEF RowFine
<1>4. m.pc \in Ends3 => m.user = delegation'[m.delegation].from  BY DEF RowFine, Calm
<1>5. m.pc \in {"read", "spread", "others", "advance", "create"} => m.bound = 0 \/ m.bound \in Made'
  BY DEF RowFine, Calm
<1> QED  BY <1>1, <1>2, <1>3, <1>4, <1>5 DEF RowFine, Ends3

LEMMA CalmCopy == ASSUME IInv, Calm, NEW c, CopyFine(c) PROVE CopyFine(c)'
<1>1. Stands(c.task) /\ c.task \in Made  BY StandsMade DEF CopyFine
<1>2. Stands(c.task)' /\ Lasts(c.delegation)'  BY <1>1, CalmTasks, CalmBacked DEF CopyFine
<1>3. task'[c.task].name = task[c.task].name /\ task'[c.task].user = task[c.task].user
  BY <1>1 DEF Calm
<1>4. delegation'[c.delegation].from = delegation[c.delegation].from  BY DEF Calm
<1> QED  BY <1>2, <1>3, <1>4 DEF CopyFine, Sole

LEMMA CalmRun == ASSUME IInv, Calm, NEW p \in spreading, RunFine(p) PROVE RunFine(p)'
<1>1. Stands(p.task)' /\ task'[p.task].user = task[p.task].user /\ (p.pc = "upWrite" => Stands(p.bound)')
  BY CalmTasks DEF RunFine
<1>2. ASSUME NEW t \in p.rows
      PROVE  Stands(t)' /\ (t = p.task \/ Allowed(task[p.task].user, task[t].user, task[t].name)')
  <2>0. Stands(t)'  BY CalmTasks DEF RunFine
  <2>1. PICK u, v, n : u = task[p.task].user /\ v = task[t].user /\ n = task[t].name  OBVIOUS
  <2>2. t = p.task \/ Allowed(u, v, n)  BY <2>1 DEF RunFine
  <2>3. t \in Made  BY DEF IInv, RunsGood, GoodSpread, Kin, Of
  <2>4. task'[p.task].user = u /\ task'[t].user = v /\ task'[t].name = n
    BY <1>1, <2>1, <2>3 DEF Calm
  <2>5. t = p.task \/ Allowed(u, v, n)'  BY <2>2, CalmBacked
  <2> QED  BY <2>0, <2>4, <2>5
<1> QED  BY <1>1, <1>2 DEF RunFine

(* What a task that is or becomes a copy must show.                         *)
Same(t) == IsCopy(t) /\ task'[t].bound = task[t].bound
NewCopy(t) == Stands(task[t].bound) /\ Backed(Owner(t), task[t].user)

LEMMA CalmCopied ==
    ASSUME IInv, Calm, Copied,
           \A g \in Handlers : handler'[g] = handler[g] \/ handler[g].pc \notin Ends3,
           \A t \in TaskIds : IsCopy(t)' => Same(t) \/ NewCopy(t)'
    PROVE  Copied'
<1> SUFFICES ASSUME NEW t \in TaskIds, IsCopy(t)'
             PROVE  (/\ Stands(task[t].bound)
                     /\ Backed(Owner(t), task[t].user) \/ Ending(Owner(t), task[t].user))'
  BY DEF Copied
<1>1. CASE NewCopy(t)'  BY <1>1 DEF NewCopy
<1>2. CASE Same(t)
  <2>1. PICK o, u, v : o = task[t].bound /\ u = task[o].user /\ v = task[t].user  OBVIOUS
  <2>2. Stands(o) /\ (Backed(u, v) \/ Ending(u, v))  BY <1>2, <2>1 DEF Copied, Same, Owner
  <2>3. t \in Made  BY <1>2, ExistsMade DEF Same, IsCopy, Personal, IsOpen, Exists
  <2>4. Stands(o)' /\ task'[t].bound = o /\ task'[o].user = u /\ task'[t].user = v
    BY <1>2, <2>1, <2>2, <2>3, CalmTasks DEF Same, Calm
  <2>5. Backed(u, v)' \/ Ending(u, v)'
    <3>1. CASE Backed(u, v)  BY <3>1, CalmBacked
    <3>2. CASE Ending(u, v)
      <4>1. PICK g \in Handlers : handler[g].pc \in Ends3 /\ handler[g].delegation \in Between(u, v)
        BY <3>2 DEF Ending
      <4>2. handler'[g] = handler[g]  BY <4>1
      <4>3. Between(u, v)' = Between(u, v)  BY DEF Calm, Between
      <4> QED  BY <4>1, <4>2, <4>3 DEF Ending, Ends3
    <3> QED  BY <2>2, <3>1, <3>2
  <2> QED  BY <2>4, <2>5 DEF Owner
<1> QED  BY <1>1, <1>2

LEMMA BackingCalm ==
    ASSUME IInv, Backing, Calm, UNCHANGED nextDelegation,
           \A g \in Handlers : handler'[g] = handler[g] \/ (handler[g].pc \notin Ends3 /\ RowFine(handler[g])'),
           \A c \in copying' : c \in copying \/ CopyFine(c)',
           \A p \in spreading' : p \in spreading \/ RunFine(p)',
           \A t \in TaskIds : IsCopy(t)' => Same(t) \/ NewCopy(t)',
           Quiet'
    PROVE  Backing'
<1>1. \A d \in MadeDelegations' : Honest(d)'
  <2> SUFFICES ASSUME NEW d \in MadeDelegations' PROVE Honest(d)'  OBVIOUS
  <2>1. Honest(d)  BY DEF Backing, MadeDelegations
  <2> QED  BY <2>1, CalmTasks DEF Honest, Calm
<1>2. ASSUME NEW g \in Handlers PROVE RowFine(handler[g])'
  <2>1. CASE handler'[g] = handler[g]
    <3>1. PICK m : m = handler[g]  OBVIOUS
    <3>2. RowFine(m)'  BY <3>1, CalmRow DEF Backing
    <3> QED  BY <2>1, <3>1, <3>2
  <2> QED  BY <2>1
<1>3. \A c \in copying' : CopyFine(c)'  BY CalmCopy DEF Backing
<1>4. \A p \in spreading' : RunFine(p)'  BY CalmRun DEF Backing
<1>5. Copied'  BY CalmCopied DEF Backing
<1> QED  BY <1>1, <1>2, <1>3, <1>4, <1>5 DEF Backing

(* A call's own step.                                                       *)
LEMMA BackingRow ==
    ASSUME IInv, Turnwise, Backing, Calm, UNCHANGED <<nextDelegation, copying, spreading>>,
           NEW h \in Handlers, NEW m, handler' = [handler EXCEPT ![h] = m],
           handler[h].pc \notin Ends3, m.pc \notin Ends3, RowFine(m)',
           \A t \in TaskIds : IsCopy(t)' => Same(t) \/ NewCopy(t)'
    PROVE  Backing'
<1>1. \A g \in Handlers : handler'[g] = IF g = h THEN m ELSE handler[g]  BY OneRow
<1>2. ASSUME NEW g \in Handlers
      PROVE  handler'[g] = handler[g] \/ (handler[g].pc \notin Ends3 /\ RowFine(handler[g])')
  <2>1. CASE g = h
    <3>1. handler'[g] = m  BY <1>1, <2>1
    <3>2. RowFine(handler[g])'  BY <3>1
    <3> QED  BY <2>1, <3>2
  <2>2. CASE g # h  BY <1>1, <2>2
  <2> QED  BY <2>1, <2>2
<1>3. Quiet'
  <2> SUFFICES ASSUME NEW g \in Handlers, handler'[g].pc \in Ends3 PROVE spreading' = {}
    BY DEF Quiet, Ends3
  <2>1. g # h  BY <1>1
  <2>2. handler'[g] = handler[g]  BY <1>1, <2>1
  <2> QED  BY <2>2 DEF Backing, Quiet
<1> QED  BY <1>2, <1>3, BackingCalm

(* Nothing is written in dbtask.                                            *)
LEMMA SameCalm ==
    ASSUME UNCHANGED <<task, delegation, nextTask>>
    PROVE  Calm /\ \A t \in TaskIds : IsCopy(t)' => Same(t)
BY DEF Calm, Made, IsCopy, Personal, IsOpen, Same

LEMMA RowIdle == RowFine(Idle)'
BY DEF RowFine, Idle, Ends3

----------------------------------------------------------------------------
(* Sequences of things to do.                                               *)
LEMMA Joined ==
    ASSUME NEW S, NEW a \in Seq(S), NEW b \in Seq(S)
    PROVE  a \o b \in Seq(S)
OBVIOUS

LEMMA Follow ==
    ASSUME NEW S, NEW x \in S, NEW T \in Seq(S)
    PROVE  <<x>> \o T \in Seq(S) /\ <<x>> \o T # <<>> /\ Head(<<x>> \o T) = x /\ Tail(<<x>> \o T) = T
OBVIOUS

LEMMA Settled ==
    ASSUME NEW S, NEW R, NEW T \in Seq(R), T # <<>>, Head(T) \in S, Tail(T) \in Seq(S)
    PROVE  T \in Seq(S)
<1>1. T = <<Head(T)>> \o Tail(T)  OBVIOUS
<1>2. PICK x, U : x = Head(T) /\ U = Tail(T)  OBVIOUS
<1>3. <<x>> \o U \in Seq(S)  BY <1>2, Follow
<1> QED  BY <1>1, <1>2, <1>3

LEMMA Pair ==
    ASSUME NEW S, NEW x \in S, NEW y \in S
    PROVE  <<x, y>> = <<x>> \o <<y>>
<1>1. PICK a, b : a = <<x>> /\ b = <<y>>  OBVIOUS
<1>2. PICK c : c = a \o b  OBVIOUS
<1>3. a \in Seq(S) /\ b \in Seq(S) /\ Len(a) = 1 /\ Len(b) = 1 /\ a[1] = x /\ b[1] = y  BY <1>1
<1>4. c \in Seq(S)  BY <1>2, <1>3
<1>5. Len(c) = 2
  <2>1. Len(c) = Len(a) + Len(b)  BY <1>2, <1>3, ConcatProperties
  <2> QED  BY <1>3, <2>1
<1>6. c[1] = x  BY <1>2, <1>3, ConcatProperties
<1>7. c[2] = y  BY <1>2, <1>3, ConcatProperties
<1>8. PICK d : d = <<x, y>>  OBVIOUS
<1>9. d \in Seq(S) /\ Len(d) = 2 /\ d[1] = x /\ d[2] = y  BY <1>8
<1>10. c = d  BY <1>4, <1>5, <1>6, <1>7, <1>9
<1> QED  BY <1>1, <1>2, <1>8, <1>10

LEMMA TwoFirst ==
    ASSUME NEW S, NEW x \in S, NEW y \in S, NEW T \in Seq(S)
    PROVE  /\ <<x, y>> \o T \in Seq(S) /\ <<x, y>> \o T # <<>>
           /\ Head(<<x, y>> \o T) = x /\ Tail(<<x, y>> \o T) = <<y>> \o T
<1>1. <<x>> \in Seq(S) /\ <<y>> \in Seq(S)  OBVIOUS
<1>2. PICK U : U = <<y>> \o T  OBVIOUS
<1>3. U \in Seq(S)  BY <1>2
<1>4. <<x, y>> \o T = <<x>> \o U  BY <1>1, <1>2, Pair, ConcatAssociative
<1>5. PICK V : V = <<x>> \o U  OBVIOUS
<1>6. V \in Seq(S) /\ V # <<>> /\ Head(V) = x /\ Tail(V) = U  BY <1>3, <1>5, Follow
<1> QED  BY <1>2, <1>4, <1>5, <1>6

LEMMA BackingStack ==
    ASSUME IInv, Turnwise, Backing, NEW h \in Handlers, handler[h].pc = "create",
           NEW items \in Seq(Item), Replace(h, items), Calm,
           UNCHANGED <<nextDelegation, copying, spreading>>,
           NEW b, b = handler[h].bound, NEW T, T = items \o Tail(handler[h].todo),
           T = <<>> \/ Neat(T, b)',
           \A t \in TaskIds : IsCopy(t)' => Same(t) \/ NewCopy(t)'
    PROVE  Backing'
<1>1. PICK m : /\ handler' = [handler EXCEPT ![h] = m]
               /\ \/ m = Idle
                  \/ /\ m.pc = "create" /\ m.todo = items \o Tail(handler[h].todo)
                     /\ m.todo # <<>> /\ m.bound = handler[h].bound
  BY StackRow
<1>2. handler[h].pc \notin Ends3  BY DEF Ends3
<1>3. CASE m = Idle
  <2>1. RowFine(m)'  BY <1>3, RowIdle
  <2>2. m.pc \notin Ends3  BY <1>3 DEF Idle, Ends3
  <2> QED  BY <1>1, <1>2, <2>1, <2>2, BackingRow
<1>4. CASE m.pc = "create" /\ m.todo = T /\ T # <<>> /\ m.bound = b
  <2>1. b = 0 \/ b \in Made'  BY DEF Backing, RowFine, Calm
  <2>2. Neat(m.todo, m.bound)'  BY <1>4
  <2>3. RowFine(m)'  BY <1>4, <2>1, <2>2 DEF RowFine, Ends3
  <2>4. m.pc \notin Ends3  BY <1>4 DEF Ends3
  <2> QED  BY <1>1, <1>2, <2>3, <2>4, BackingRow
<1> QED  BY <1>1, <1>3, <1>4

(* What is known of the things that a call has to do.                       *)
LEMMA NeatTodo ==
    ASSUME IInv, Backing, NEW h \in Handlers, handler[h].pc = "create", NEW b, b = handler[h].bound,
           NEW x, x = Head(handler[h].todo), NEW T, T = Tail(handler[h].todo)
    PROVE  /\ x \in FineItem(b) /\ x \in GoodItem /\ T \in Seq(Item)
           /\ b = 0 \/ b \in Made
           /\ \/ T \in Seq(FineItem(b))
              \/ T # <<>> /\ Leads(x, Head(T), b) /\ Tail(T) \in Seq(FineItem(b)) /\ Head(T) \in Item
<1>1. handler[h].todo # <<>> /\ handler[h].todo \in Seq(Item) /\ x \in GoodItem /\ T \in Seq(Item)
  BY Stack
<1>2. Neat(handler[h].todo, b) /\ (b = 0 \/ b \in Made)  BY DEF Backing, RowFine
<1>3. CASE handler[h].todo \in Seq(FineItem(b))
  <2>1. T \in Seq(FineItem(b)) /\ x \in FineItem(b)
    <3>1. PICK S, todo : S = FineItem(b) /\ todo = handler[h].todo  OBVIOUS
    <3>2. todo \in Seq(S) /\ todo # <<>>  BY <1>1, <1>3, <3>1
    <3>3. Head(todo) \in S /\ Tail(todo) \in Seq(S)  BY <3>2
    <3> QED  BY <3>1, <3>3
  <2> QED  BY <1>1, <1>2, <2>1
<1>4. CASE handler[h].todo \notin Seq(FineItem(b))
  <2>1. T # <<>> /\ Leads(x, Head(T), b) /\ Tail(T) \in Seq(FineItem(b)) /\ x \in FineItem(b)
    BY <1>2, <1>4 DEF Neat
  <2>2. Head(T) \in Item  BY <1>1, <2>1
  <2> QED  BY <1>1, <1>2, <2>1, <2>2
<1> QED  BY <1>3, <1>4

(* Once the owner has the task, the delegates' turn may come.               *)
LEMMA Turns ==
    ASSUME NEW b, NEW x, NEW T \in Seq(Item), T # <<>>, Leads(x, Head(T), b),
           Tail(T) \in Seq(FineItem(b)), Served(b, x.request, x.name)
    PROVE  T \in Seq(FineItem(b))
<1>1. PICK y, S : y = Head(T) /\ S = FineItem(b)  OBVIOUS
<1>2. y \in Item  BY <1>1
<1>3. y \in S  BY <1>1, <1>2 DEF Leads, FineItem, Fine
<1> QED  BY <1>1, <1>3, Settled

LEMMA NeatAlways ==
    ASSUME IInv, Calm, NEW b, NEW T, T \in Seq(FineItem(b))
    PROVE  Neat(T, b)'
<1>1. T \in Seq(FineItem(b)')  BY CalmNeat
<1> QED  BY <1>1 DEF Neat

LEMMA NeatThen ==
    ASSUME IInv, Calm, NEW b, NEW x \in FineItem(b), NEW y \in FineItem(b), NEW T \in Seq(Item),
           \/ T \in Seq(FineItem(b))
           \/ T # <<>> /\ Leads(x, Head(T), b) /\ Tail(T) \in Seq(FineItem(b)),
           y.request = x.request, y.name = x.name,
           y.kind \in {"create", "insert"} /\ Mine(x, b) => Mine(y, b),
           x.kind = "owner" => Mine(y, b), y.kind \in {"create", "insert"}
    PROVE  Neat(<<y>> \o T, b)'
<1>1. PICK U : U = <<y>> \o T  OBVIOUS
<1>2. y \in Item  BY DEF FineItem
<1>3. U \in Seq(Item) /\ U # <<>> /\ Head(U) = y /\ Tail(U) = T  BY <1>1, <1>2, Follow
<1>4. CASE T \in Seq(FineItem(b))
  <2>1. PICK S : S = FineItem(b)  OBVIOUS
  <2>2. U \in Seq(S)  BY <1>1, <1>4, <2>1, Follow
  <2> QED  BY <1>1, <2>1, <2>2, NeatAlways
<1>5. CASE T # <<>> /\ Leads(x, Head(T), b) /\ Tail(T) \in Seq(FineItem(b))
  <2>1. Leads(y, Head(T), b)  BY <1>5 DEF Leads
  <2>2. Neat(U, b)  BY <1>3, <1>5, <2>1 DEF Neat
  <2> QED  BY <1>1, <2>2, CalmNeat
<1> QED  BY <1>4, <1>5

LEMMA BackingFindTask ==
    ASSUME IInv, Turnwise, Backing, NEW h \in Handlers, FindTask(h)
    PROVE  Backing'
<1>1. PICK x, y, items :
            /\ x = Head(handler[h].todo) /\ x \in Item /\ x.kind = "create"
            /\ handler[h].pc = "create"
            /\ y = [x EXCEPT !.kind = "insert"] /\ y \in Item /\ y.kind = "insert"
            /\ \/ /\ items = <<>>
                  /\ \E t \in TasksOf(x.request) : task[t].name = x.name /\ task[t].user = x.user
               \/ /\ items = <<y>>
                  /\ ~\E t \in TasksOf(x.request) : task[t].name = x.name /\ task[t].user = x.user
            /\ items \in Seq(Item) /\ Replace(h, items)
  BY FindTaskEffect
<1>2. Calm /\ \A t \in TaskIds : IsCopy(t)' => Same(t)  BY SameCalm DEF FindTask
<1>3. PICK b, tail, T : b = handler[h].bound /\ tail = Tail(handler[h].todo) /\ T = items \o tail  OBVIOUS
<1>4. /\ x \in FineItem(b) /\ tail \in Seq(Item)
      /\ \/ tail \in Seq(FineItem(b))
         \/ tail # <<>> /\ Leads(x, Head(tail), b) /\ Tail(tail) \in Seq(FineItem(b))
  BY <1>1, <1>3, NeatTodo
<1>5. Neat(T, b)'
  <2>1. CASE items = <<>> /\ Held(x.request, x.name, x.user)
    <3>1. T = tail  BY <1>3, <1>4, <2>1
    <3>2. tail \in Seq(FineItem(b))
      <4>1. CASE tail \in Seq(FineItem(b))  BY <4>1
      <4>2. CASE tail # <<>> /\ Leads(x, Head(tail), b) /\ Tail(tail) \in Seq(FineItem(b))
        <5>1. Mine(x, b)  BY <1>1, <4>2 DEF Leads
        <5>2. Served(b, x.request, x.name)  BY <2>1, <5>1, StandsMade DEF Mine, Served
        <5> QED  BY <1>4, <4>2, <5>2, Turns
      <4> QED  BY <1>4, <4>1, <4>2
    <3> QED  BY <1>2, <3>1, <3>2, NeatAlways
  <2>2. CASE items = <<y>>
    <3>1. /\ y.request = x.request /\ y.name = x.name /\ y.user = x.user /\ y.bound = x.bound
          /\ y.task = x.task
      BY <1>1 DEF Item
    <3>2. Mine(x, b) => Mine(y, b)  BY <3>1 DEF Mine
    <3>3. y \in FineItem(b)
      BY <1>1, <1>4, <3>1, <3>2 DEF FineItem, Fine, FirstCopy, DelegateCopy, OwnerCopy
    <3> QED  BY <1>1, <1>2, <1>3, <1>4, <2>2, <3>1, <3>2, <3>3, NeatThen
  <2> QED  BY <1>1, <2>1, <2>2 DEF Held
<1> QED  BY <1>1, <1>2, <1>3, <1>5, BackingStack DEF FindTask

LEMMA BackingGiveOwner ==
    ASSUME IInv, Turnwise, Backing, NEW h \in Handlers, GiveOwner(h)
    PROVE  Backing'
<1>1. PICK x, b, y, items :
            /\ x = Head(handler[h].todo) /\ x \in Item /\ x.kind = "owner"
            /\ handler[h].pc = "create"
            /\ b = handler[h].bound /\ b \in 0 .. MaxTasks
            /\ y = Create(x.request, x.name, task[b].user, 0, x.task)
            /\ \/ items = <<>> /\ (b = 0 \/ ~Exists(b))
               \/ items = <<y>> /\ b # 0 /\ Exists(b) /\ y \in Item
            /\ items \in Seq(Item) /\ Replace(h, items)
  BY GiveOwnerEffect
<1>2. Calm /\ \A t \in TaskIds : IsCopy(t)' => Same(t)  BY SameCalm DEF GiveOwner
<1>3. PICK tail, T : tail = Tail(handler[h].todo) /\ T = items \o tail  OBVIOUS
<1>4. /\ x \in FineItem(b) /\ x \in GoodItem /\ tail \in Seq(Item) /\ (b = 0 \/ b \in Made)
      /\ \/ tail \in Seq(FineItem(b))
         \/ tail # <<>> /\ Leads(x, Head(tail), b) /\ Tail(tail) \in Seq(FineItem(b))
  BY <1>1, <1>3, NeatTodo
<1>5. Neat(T, b)'
  <2>1. CASE items = <<>> /\ (b = 0 \/ ~Exists(b))
    <3>1. T = tail  BY <1>3, <1>4, <2>1
    <3>2. Served(b, x.request, x.name)  BY <1>4, <2>1 DEF Served
    <3>3. tail \in Seq(FineItem(b))  BY <1>4, <3>2, Turns
    <3> QED  BY <1>2, <3>1, <3>3, NeatAlways
  <2>2. CASE items = <<y>> /\ b # 0 /\ Exists(b) /\ y \in Item
    <3>1. /\ y.kind = "create" /\ y.request = x.request /\ y.name = x.name
          /\ y.user = task[b].user /\ y.bound = 0 /\ y.task = x.task
      BY <1>1 DEF Create
    <3>2. b \in TaskIds  BY <1>1, <2>2, Sizes
    <3>3. Mine(y, b)  BY <2>2, <3>1, <3>2 DEF Mine, Stands
    <3>4. x.task # 0
      <4>1. x \in GoodItem /\ x.kind = "owner"  BY <1>1, <1>4
      <4>2. x.task \in Made  BY <4>1 DEF GoodItem, Of
      <4> QED  BY <4>2, Sizes DEF Made
    <3>5. Belongs(x.task, Assignee[x.name]) \/ Served(b, x.request, x.name)
      BY <1>1, <1>4 DEF FineItem, Fine
    <3>6. OwnerCopy(y, b)  BY <3>1, <3>3, <3>4, <3>5 DEF OwnerCopy
    <3>7. y \in FineItem(b)  BY <2>2, <3>1, <3>6 DEF FineItem, Fine
    <3> QED  BY <1>2, <1>3, <1>4, <2>2, <3>1, <3>3, <3>7, NeatThen
  <2> QED  BY <1>1, <2>1, <2>2
<1> QED  BY <1>1, <1>2, <1>3, <1>5, BackingStack DEF GiveOwner

----------------------------------------------------------------------------
(* Nothing that leads comes first, so all that follows is fine.             *)
LEMMA NeatRest ==
    ASSUME IInv, Backing, NEW h \in Handlers, handler[h].pc = "create", NEW b, b = handler[h].bound,
           NEW x, x = Head(handler[h].todo), x.kind \in {"delegates", "rebind", "share", "addShare"}
    PROVE  Tail(handler[h].todo) \in Seq(FineItem(b)) /\ x \in FineItem(b) /\ x \in GoodItem
<1>1. PICK T : T = Tail(handler[h].todo)  OBVIOUS
<1>2. /\ x \in FineItem(b) /\ x \in GoodItem
      /\ \/ T \in Seq(FineItem(b))
         \/ T # <<>> /\ Leads(x, Head(T), b) /\ Tail(T) \in Seq(FineItem(b)) /\ Head(T) \in Item
  BY <1>1, NeatTodo
<1>3. ~Leads(x, Head(T), b)  BY DEF Leads
<1> QED  BY <1>1, <1>2, <1>3

LEMMA AllIn ==
    ASSUME NEW S, NEW R, NEW items \in Seq(R), \A i \in 1 .. Len(items) : items[i] \in S
    PROVE  items \in Seq(S)
OBVIOUS

LEMMA BackingGiveDelegates ==
    ASSUME IInv, Turnwise, Backing, NEW h \in Handlers, GiveDelegates(h)
    PROVE  Backing'
<1>1. PICK x, items :
            /\ x = Head(handler[h].todo) /\ x \in Item /\ x.kind = "delegates"
            /\ handler[h].pc = "create" /\ Of(x.task, x.request, x.name)
            /\ items \in Seq(Item) /\ Replace(h, items)
            /\ \A i \in 1 .. Len(items) : FromDelegation(x, items[i])
  BY GiveDelegatesEffect
<1>2. Calm /\ \A t \in TaskIds : IsCopy(t)' => Same(t)  BY SameCalm DEF GiveDelegates
<1>3. PICK b, tail, T : b = handler[h].bound /\ tail = Tail(handler[h].todo) /\ T = items \o tail  OBVIOUS
<1>4. x \in FineItem(b) /\ tail \in Seq(FineItem(b))  BY <1>1, <1>3, NeatRest
<1>5. Follows(x) /\ Served(b, x.request, x.name)  BY <1>1, <1>4 DEF FineItem, Fine
<1>6. ASSUME NEW i \in 1 .. Len(items) PROVE items[i] \in FineItem(b)
  <2>1. PICK y : y = items[i]  OBVIOUS
  <2>2. y \in Item  BY <1>1, <2>1
  <2>3. PICK d \in MadeDelegations :
               /\ Current(d) /\ delegation[d].from = x.user
               /\ \/ y = Create(x.request, x.name, delegation[d].to, x.task, 0)
                  \/ y = [x EXCEPT !.kind = "share", !.delegation = d]
    BY <1>1, <2>1 DEF FromDelegation
  <2>4. CASE y = Create(x.request, x.name, delegation[d].to, x.task, 0)
    <3>1. PICK v : v = delegation[d].to  OBVIOUS
    <3>2. /\ y.kind = "create" /\ y.request = x.request /\ y.name = x.name /\ y.user = v
          /\ y.bound = x.task /\ y.task = 0
      BY <2>4, <3>1 DEF Create
    <3>3. Backed(x.user, v)
      <4>1. d \in Between(x.user, v)  BY <2>3, <3>1 DEF Between, MadeDelegations
      <4>2. Lasts(d)  BY <2>3 DEF Lasts, Current, MadeDelegations
      <4> QED  BY <4>1, <4>2 DEF Backed
    <3>4. Stands(x.task) /\ task[x.task].user = x.user  BY <1>5 DEF Follows
    <3>5. DelegateCopy(y, b)  BY <1>5, <3>2, <3>3, <3>4 DEF DelegateCopy, Allowed
    <3> QED  BY <2>1, <2>2, <3>2, <3>5 DEF FineItem, Fine
  <2>5. CASE y = [x EXCEPT !.kind = "share", !.delegation = d]
    <3>1. y.kind = "share"  BY <1>1, <2>5 DEF Item
    <3> QED  BY <2>1, <2>2, <3>1 DEF FineItem, Fine
  <2> QED  BY <2>3, <2>4, <2>5
<1>7. Neat(T, b)'
  <2>1. PICK S : S = FineItem(b)  OBVIOUS
  <2>2. items \in Seq(S) /\ tail \in Seq(S)  BY <1>1, <1>4, <1>6, <2>1, AllIn
  <2>3. T \in Seq(S)  BY <1>3, <2>2, Joined
  <2> QED  BY <1>2, <2>1, <2>3, NeatAlways
<1> QED  BY <1>1, <1>2, <1>3, <1>7, BackingStack DEF GiveDelegates

LEMMA BackingShare ==
    ASSUME IInv, Turnwise, Backing, NEW h \in Handlers, FindShare(h) \/ AddShare(h)
    PROVE  Backing'
<1>1. PICK x : x = Head(handler[h].todo)  OBVIOUS
<1>2. handler[h].pc = "create" /\ x.kind \in {"share", "addShare"}
  BY <1>1 DEF FindShare, AddShare, Does
<1>3. PICK b, tail : b = handler[h].bound /\ tail = Tail(handler[h].todo)  OBVIOUS
<1>4. x \in GoodItem /\ tail \in Seq(FineItem(b))  BY <1>1, <1>2, <1>3, NeatRest
<1>5. x \in Item  BY <1>4 DEF GoodItem
<1>6. PICK y : y = [x EXCEPT !.kind = "addShare"]  OBVIOUS
<1>7. y \in Item /\ y.kind = "addShare"  BY <1>5, <1>6 DEF Item
<1>8. y \in FineItem(b)  BY <1>7 DEF FineItem, Fine
<1>9. PICK items : (items = <<>> \/ items = <<y>>) /\ Replace(h, items)
  BY <1>1, <1>6 DEF FindShare, AddShare
<1>10. items \in Seq(FineItem(b)) /\ items \in Seq(Item)
  <2>1. PICK S : S = FineItem(b)  OBVIOUS
  <2>2. items \in Seq(S)  BY <1>8, <1>9, <2>1, AtMostOne
  <2> QED  BY <1>7, <1>9, <2>1, <2>2, AtMostOne
<1>11. PICK T : T = items \o tail  OBVIOUS
<1>12. Calm /\ \A t \in TaskIds : IsCopy(t)' => Same(t)  BY SameCalm DEF FindShare, AddShare
<1>13. Neat(T, b)'
  <2>1. PICK S : S = FineItem(b)  OBVIOUS
  <2>2. T \in Seq(S)  BY <1>4, <1>10, <1>11, <2>1, Joined
  <2> QED  BY <1>12, <2>1, <2>2, NeatAlways
<1> QED  BY <1>2, <1>3, <1>9, <1>10, <1>11, <1>12, <1>13, BackingStack DEF FindShare, AddShare

LEMMA BackingRebind ==
    ASSUME IInv, Turnwise, Backing, NEW h \in Handlers, Rebind(h)
    PROVE  Backing'
<1>1. PICK x : x = Head(handler[h].todo)  OBVIOUS
<1>2. /\ handler[h].pc = "create" /\ x.kind = "rebind" /\ Replace(h, <<>>)
      /\ task' = IF Exists(x.task) THEN [task EXCEPT ![x.task].bound = x.bound] ELSE task
      /\ UNCHANGED <<delegation, nextTask, nextDelegation, copying, spreading>>
  BY <1>1 DEF Rebind, Does
<1>3. PICK b, tail : b = handler[h].bound /\ tail = Tail(handler[h].todo)  OBVIOUS
<1>4. x \in GoodItem /\ x \in FineItem(b) /\ tail \in Seq(FineItem(b))  BY <1>1, <1>2, <1>3, NeatRest
<1>5. Of(x.task, x.request, x.name) /\ Belongs(x.task, Assignee[x.name])
  BY <1>2, <1>4 DEF GoodItem, FineItem, Fine
<1>6. PICK k \in TaskIds : k = x.task  BY <1>5 DEF Of, Made
<1>7. \A t \in TaskIds : task'[t] = task[t] \/ (t = k /\ task'[t] = [task[t] EXCEPT !.bound = x.bound])
  BY <1>2, <1>6 DEF IInv, TypeOK
<1>8. \A t \in TaskIds : /\ task'[t].request = task[t].request /\ task'[t].name = task[t].name
                         /\ task'[t].user = task[t].user /\ task'[t].state = task[t].state
                         /\ t # k => task'[t] = task[t]
  BY <1>7, TaskRows DEF TaskRow
<1>9. Calm  BY <1>2, <1>8 DEF Calm, Made
<1>10. ASSUME NEW t \in TaskIds, IsCopy(t)' PROVE Same(t)
  <2>1. CASE t = k
    <3>1. task'[t].user = Assignee[task'[t].name]  BY <1>5, <1>6, <1>8, <2>1 DEF Of, Belongs
    <3> QED  BY <1>10, <3>1 DEF IsCopy, Personal
  <2>2. CASE t # k  BY <1>8, <1>10, <2>2 DEF Same, IsCopy, Personal, IsOpen
  <2> QED  BY <2>1, <2>2
<1>11. PICK T : T = <<>> \o tail  OBVIOUS
<1>12. Neat(T, b)'
  <2>1. T = tail
    <3>1. PICK S : S = FineItem(b)  OBVIOUS
    <3>2. tail \in Seq(S)  BY <1>4, <3>1
    <3> QED  BY <1>11, <3>2
  <2> QED  BY <1>4, <1>9, <2>1, NeatAlways
<1>13. <<>> \in Seq(Item)  OBVIOUS
<1> QED  BY <1>2, <1>3, <1>9, <1>10, <1>11, <1>12, <1>13, BackingStack

----------------------------------------------------------------------------
(* A task is added.                                                         *)
LEMMA AddCalm ==
    ASSUME IInv, UNCHANGED delegation, nextTask' = nextTask + 1, NEW n \in TaskIds, n \notin Made, NEW row,
           \A t \in TaskIds : task'[t] = IF t = n THEN row ELSE task[t]
    PROVE  Calm
<1>1. nextTask \in Int  BY Sizes DEF IInv, TypeOK
<1>2. Made \subseteq Made'
  <2> SUFFICES ASSUME NEW t \in Made PROVE t \in Made'  OBVIOUS
  <2> QED  BY <1>1 DEF Made
<1>3. \A t \in Made : task'[t] = task[t]  BY DEF Made
<1> QED  BY <1>2, <1>3 DEF Calm

(* What follows is fine once the owner has the new task.                    *)
LEMMA RestServed ==
    ASSUME IInv, Calm, NEW b, NEW x, NEW T \in Seq(Item),
           \/ T \in Seq(FineItem(b))
           \/ T # <<>> /\ Leads(x, Head(T), b) /\ Tail(T) \in Seq(FineItem(b)),
           Mine(x, b) => Served(b, x.request, x.name)', x.kind = "insert"
    PROVE  T \in Seq(FineItem(b)')
<1>1. CASE T \in Seq(FineItem(b))  BY <1>1, CalmNeat
<1>2. CASE T # <<>> /\ Leads(x, Head(T), b) /\ Tail(T) \in Seq(FineItem(b))
  <2>1. PICK y, S : y = Head(T) /\ S = FineItem(b)'  OBVIOUS
  <2>2. y \in Item  BY <1>2, <2>1
  <2>3. y.kind = "delegates" /\ Follows(y) /\ Mine(x, b) /\ x.request = y.request /\ x.name = y.name
    BY <1>2, <2>1 DEF Leads
  <2>4. Follows(y)'  BY <2>3, CalmTasks DEF Follows
  <2>5. Served(b, y.request, y.name)'  BY <2>3
  <2>6. y \in S  BY <2>1, <2>2, <2>3, <2>4, <2>5 DEF FineItem, Fine
  <2>7. Tail(T) \in Seq(S)  BY <1>2, <2>1, CalmNeat
  <2> QED  BY <1>2, <2>1, <2>6, <2>7, Settled
<1> QED  BY <1>1, <1>2

LEMMA BackingInsert ==
    ASSUME IInv, Turnwise, Single, Backing, NEW h \in Handlers, InsertTask(h)
    PROVE  Backing'
<1>1. PICK x, n, row, y, z, w, items :
         /\ x = Head(handler[h].todo) /\ x \in Item /\ x.kind = "insert"
         /\ handler[h].pc = "create"
         /\ n \in TaskIds /\ ~Exists(n) /\ n \notin Made
         /\ row = [state |-> "open", request |-> x.request, name |-> x.name,
                   user |-> x.user, bound |-> x.bound, entity |-> Entity[x.name]]
         /\ \A t \in TaskIds : task'[t] = IF t = n THEN row ELSE task[t]
         /\ y = [x EXCEPT !.kind = "owner", !.task = n] /\ y \in Item
         /\ z = [x EXCEPT !.kind = "delegates", !.task = n] /\ z \in Item
         /\ w = [x EXCEPT !.kind = "rebind", !.bound = n] /\ w \in Item
         /\ (x.task = 0 /\ items = <<y, z>>) \/ (x.task # 0 /\ items = <<y, z>> \o <<w>>)
         /\ items \in Seq(Item) /\ Replace(h, items)
  BY InsertEffect
<1>2. PICK b, tail, T : b = handler[h].bound /\ tail = Tail(handler[h].todo) /\ T = items \o tail  OBVIOUS
<1>3. /\ x \in FineItem(b) /\ tail \in Seq(Item) /\ (b = 0 \/ b \in Made)
      /\ \/ tail \in Seq(FineItem(b))
         \/ tail # <<>> /\ Leads(x, Head(tail), b) /\ Tail(tail) \in Seq(FineItem(b))
  BY <1>1, <1>2, NeatTodo
<1>4. Calm
  <2>1. UNCHANGED delegation /\ nextTask' = nextTask + 1  BY DEF InsertTask, AddTask
  <2>2. /\ n \in TaskIds /\ n \notin Made
        /\ \A t \in TaskIds : task'[t] = IF t = n THEN row ELSE task[t]
    BY <1>1
  <2> QED  BY <2>1, <2>2, AddCalm
<1>5. /\ task'[n] = row /\ row.state = "open" /\ row.request = x.request /\ row.name = x.name
      /\ row.user = x.user /\ row.bound = x.bound
  BY <1>1
<1>6. Stands(n)' /\ task'[n].user = x.user /\ n \in Made'
  <2>1. nextTask' = nextTask + 1 /\ nextTask \in Int  BY Sizes DEF InsertTask, AddTask, IInv, TypeOK
  <2>2. n = nextTask
    <3>1. PICK r : task' = [task EXCEPT ![nextTask] = r]  BY DEF InsertTask, AddTask
    <3>2. task[n] = NoTask /\ n \in TaskIds \ Made  BY <1>1 DEF IInv, RowsGood
    <3>3. task'[n] # task[n]  BY <1>5, <3>2 DEF NoTask
    <3> QED  BY <3>1, <3>3 DEF IInv, TypeOK
  <2>3. n \in Made'  BY <1>1, <2>1, <2>2 DEF Made
  <2> QED  BY <1>1, <1>5, <2>3 DEF Stands, Exists
<1>7. Held(x.request, x.name, x.user)'
  <2>1. Exists(n)'  BY <1>6 DEF Stands
  <2> QED  BY <1>1, <1>5, <2>1 DEF Held, TasksOf
<1>8. Mine(x, b) => Served(b, x.request, x.name)'
  <2> SUFFICES ASSUME Mine(x, b) PROVE Served(b, x.request, x.name)'  OBVIOUS
  <2>1. PICK u : u = x.user  OBVIOUS
  <2>2. Stands(b) /\ task[b].user = u  BY <2>1 DEF Mine
  <2>0. b \in Made  BY <2>2, StandsMade
  <2>6. task'[b].user = u  BY <1>4, <2>2, CalmTasks
  <2>3. b \in Made /\ task'[b].user = u  BY <2>0, <2>6
  <2>4. b \in Made'  BY <1>4, <2>3 DEF Calm
  <2>5. Held(x.request, x.name, u)'  BY <1>7, <2>1
  <2> QED  BY <2>3, <2>4, <2>5 DEF Served
<1>9. tail \in Seq(FineItem(b)')  BY <1>1, <1>3, <1>4, <1>8, RestServed
<1>10. /\ y.kind = "owner" /\ y.request = x.request /\ y.name = x.name /\ y.task = n
       /\ z.kind = "delegates" /\ z.request = x.request /\ z.name = x.name /\ z.task = n /\ z.user = x.user
       /\ w.kind = "rebind" /\ w.name = x.name /\ w.task = x.task
  BY <1>1 DEF Item
<1>11. Follows(z)'  BY <1>6, <1>10 DEF Follows
<1>12. Neat(T, b)'
  <2>1. CASE FirstCopy(x)
    <3>1. items = <<y, z>>  BY <1>1, <2>1 DEF FirstCopy
    <3>2. Belongs(n, Assignee[x.name])'  BY <1>6, <2>1 DEF FirstCopy, Belongs
    <3>3. y \in FineItem(b)'  BY <1>1, <1>10, <3>2 DEF FineItem, Fine
    <3>4. Leads(y, z, b)'  BY <1>10, <1>11 DEF Leads
    <3>5. /\ T \in Seq(Item) /\ T # <<>> /\ Head(T) = y /\ Tail(T) = <<z>> \o tail
      <4>1. y \in Item /\ z \in Item /\ tail \in Seq(Item)  BY <1>1, <1>3
      <4>2. T = <<y, z>> \o tail  BY <1>2, <3>1
      <4>3. /\ <<y, z>> \o tail \in Seq(Item) /\ <<y, z>> \o tail # <<>>
            /\ Head(<<y, z>> \o tail) = y /\ Tail(<<y, z>> \o tail) = <<z>> \o tail
        BY <4>1, TwoFirst
      <4> QED  BY <4>2, <4>3
    <3>6. PICK U : U = Tail(T)  OBVIOUS
    <3>7. U # <<>> /\ Head(U) = z /\ Tail(U) = tail
      <4>1. U = <<z>> \o tail  BY <3>5, <3>6
      <4>2. z \in Item /\ tail \in Seq(Item)  BY <1>1, <1>3
      <4>3. <<z>> \o tail # <<>> /\ Head(<<z>> \o tail) = z /\ Tail(<<z>> \o tail) = tail
        BY <4>2, Follow
      <4> QED  BY <4>1, <4>3
    <3> QED  BY <1>9, <3>3, <3>4, <3>5, <3>6, <3>7 DEF Neat
  <2>2. CASE DelegateCopy(x, b) \/ OwnerCopy(x, b)
    <3>1. Served(b, x.request, x.name)'
      <4>1. CASE DelegateCopy(x, b)  BY <1>4, <4>1, CalmTasks DEF DelegateCopy
      <4>2. CASE OwnerCopy(x, b)  BY <1>8, <4>2 DEF OwnerCopy
      <4> QED  BY <2>2, <4>1, <4>2
    <3>2. y \in FineItem(b)' /\ z \in FineItem(b)'
      <4>1. Fine(y, b)'  BY <1>10, <3>1 DEF Fine
      <4>2. Fine(z, b)'  BY <1>10, <1>11, <3>1 DEF Fine
      <4> QED  BY <1>1, <4>1, <4>2 DEF FineItem
    <3>3. x.task # 0 => w \in FineItem(b)'
      <4> SUFFICES ASSUME x.task # 0 PROVE w \in FineItem(b)'  OBVIOUS
      <4>1. OwnerCopy(x, b)  BY <2>2 DEF DelegateCopy
      <4>2. ~Held(x.request, x.name, x.user)  BY <1>1 DEF Single, Ready
      <4>3. ~Served(b, x.request, x.name)
        <5>1. Stands(b) /\ task[b].user = x.user  BY <4>1 DEF OwnerCopy, Mine
        <5>2. b # 0 /\ Exists(b)  BY <5>1 DEF Stands
        <5> QED  BY <4>2, <5>1, <5>2 DEF Served
      <4>4. Belongs(x.task, Assignee[x.name])'  BY <1>4, <4>1, <4>3, CalmTasks DEF OwnerCopy
      <4> QED  BY <1>1, <1>10, <4>4 DEF FineItem, Fine
    <3>4. PICK S : S = FineItem(b)'  OBVIOUS
    <3>5. items \in Seq(S)
      <4>1. CASE x.task = 0
        <5>1. items = <<y, z>>  BY <1>1, <4>1
        <5>2. y \in S /\ z \in S  BY <3>2, <3>4
        <5> QED  BY <5>1, <5>2
      <4>2. CASE x.task # 0
        <5>1. items = <<y, z>> \o <<w>>  BY <1>1, <4>2
        <5>2. y \in S /\ z \in S /\ w \in S  BY <3>2, <3>3, <3>4, <4>2
        <5> QED  BY <5>1, <5>2, TwoOrThree
      <4> QED  BY <4>1, <4>2
    <3>6. T \in Seq(S)  BY <1>2, <1>9, <3>4, <3>5, Joined
    <3> QED  BY <3>4, <3>6 DEF Neat
  <2> QED  BY <1>1, <1>3, <2>1, <2>2 DEF FineItem, Fine
<1>13. ASSUME NEW t \in TaskIds, IsCopy(t)' PROVE Same(t) \/ NewCopy(t)'
  <2>1. CASE t # n
    <3>1. task'[t] = task[t]  BY <1>1, <2>1
    <3> QED  BY <1>13, <3>1 DEF Same, IsCopy, Personal, IsOpen
  <2>2. CASE t = n
    <3>1. PICK o, v : o = x.bound /\ v = x.user  OBVIOUS
    <3>2. /\ task'[t].bound = o /\ task'[t].user = v /\ o # 0 /\ v # Assignee[x.name]
          /\ Sole(x.name)
      BY <1>5, <1>13, <2>2, <3>1 DEF IsCopy, Personal, Sole
    <3>3. DelegateCopy(x, b)
      BY <1>1, <1>3, <3>1, <3>2 DEF FineItem, Fine, FirstCopy, OwnerCopy
    <3>4. PICK u : u = task[o].user  OBVIOUS
    <3>5. Stands(o) /\ Backed(u, v)  BY <3>1, <3>2, <3>3, <3>4 DEF DelegateCopy, Allowed
    <3>6. Stands(o)' /\ task'[o].user = u /\ Backed(u, v)'  BY <1>4, <3>4, <3>5, CalmTasks, CalmBacked
    <3> QED  BY <3>2, <3>6 DEF NewCopy, Owner
  <2> QED  BY <2>1, <2>2
<1> QED  BY <1>1, <1>2, <1>4, <1>12, <1>13, BackingStack DEF InsertTask

----------------------------------------------------------------------------
(* What a call does with its answers.                                       *)
LEMMA BackingUpdateTask ==
    ASSUME IInv, Turnwise, Backing, NEW h \in Handlers, UpdateTask(h)
    PROVE  Backing'
<1>1. PICK m : m = [handler[h] EXCEPT !.pc = "reread"]  OBVIOUS
<1>2. handler' = [handler EXCEPT ![h] = m] /\ handler[h].pc = "update"
  BY <1>1 DEF UpdateTask, IInv, TypeOK
<1>3. m.pc = "reread"  BY <1>1, TaskRows DEF HandlerRow
<1>4. RowFine(m)'  BY <1>3 DEF RowFine, Ends3
<1>5. \A t \in TaskIds : task'[t] = task[t] \/ (Exists(t) /\ task'[t] = [task[t] EXCEPT !.state = "closed"])
  BY PlainEffect DEF Plain
<1>6. \A t \in TaskIds :
         /\ task'[t].request = task[t].request /\ task'[t].name = task[t].name
         /\ task'[t].user = task[t].user /\ (task'[t].state # "none" <=> task[t].state # "none")
         /\ task'[t].state = "open" => task'[t] = task[t]
  BY <1>5, TaskRows DEF TaskRow, Exists
<1>7. Calm  BY <1>6 DEF Calm, Made, UpdateTask
<1>8. \A t \in TaskIds : IsCopy(t)' => Same(t)  BY <1>6 DEF IsCopy, Personal, IsOpen, Same
<1>9. UNCHANGED <<nextDelegation, copying, spreading>>  BY DEF UpdateTask
<1>10. handler[h].pc \notin Ends3 /\ m.pc \notin Ends3  BY <1>2, <1>3 DEF Ends3
<1> QED  BY <1>2, <1>4, <1>7, <1>8, <1>9, <1>10, BackingRow

LEMMA BackingReread ==
    ASSUME IInv, Turnwise, Backing, NEW h \in Handlers, RereadTask(h)
    PROVE  Backing'
<1>1. PICK t : t = handler[h].task  OBVIOUS
<1>2. PICK b : b = task[t].bound  OBVIOUS
<1>3. PICK w : w = [handler[h] EXCEPT !.pc = "read", !.bound = b]  OBVIOUS
<1>4. PICK m : /\ handler' = [handler EXCEPT ![h] = m] /\ handler[h].pc = "reread"
               /\ m = Idle \/ (m = w /\ Exists(t))
  BY <1>1, <1>2, <1>3 DEF RereadTask
<1>5. t \in Made  BY <1>1, <1>4 DEF IInv, CallsGood, GoodHandler
<1>6. w.pc = "read" /\ w.bound = b /\ w.task = t  BY <1>1, <1>3, TaskRows DEF HandlerRow
<1>7. b = 0 \/ b \in Made  BY <1>2, <1>5 DEF IInv, RowsGood, Free, Kin
<1>8. Calm /\ \A s \in TaskIds : IsCopy(s)' => Same(s)  BY SameCalm DEF RereadTask
<1>9. Exists(t) => RowFine(w)'
  <2> SUFFICES ASSUME Exists(t) PROVE RowFine(w)'  OBVIOUS
  <2>1. Stands(t)'  BY <1>5, <1>8, CalmTasks DEF Stands, Made
  <2>2. b = 0 \/ b \in Made'  BY <1>7, <1>8 DEF Calm
  <2> QED  BY <1>6, <2>1, <2>2 DEF RowFine, Ends3
<1>10. RowFine(m)'
  <2>1. CASE m = Idle  BY <2>1, RowIdle
  <2>2. CASE m = w /\ Exists(t)  BY <1>9, <2>2
  <2> QED  BY <1>4, <2>1, <2>2
<1>11. handler[h].pc \notin Ends3 /\ m.pc \notin Ends3
  <2>1. Idle.pc = "idle"  BY DEF Idle
  <2> QED  BY <1>4, <1>6, <2>1 DEF Ends3
<1>12. UNCHANGED <<nextDelegation, copying, spreading>>  BY DEF RereadTask
<1> QED  BY <1>4, <1>8, <1>10, <1>11, <1>12, BackingRow

LEMMA BackingOthers ==
    ASSUME IInv, Turnwise, Backing, NEW h \in Handlers, CheckOthers(h)
    PROVE  Backing'
<1>1. PICK w : w = [handler[h] EXCEPT !.pc = "advance"]  OBVIOUS
<1>2. PICK m \in {Idle, w} : handler' = [handler EXCEPT ![h] = m]
  BY <1>1 DEF CheckOthers
<1>3. handler[h].pc = "others"  BY DEF CheckOthers
<1>4. w.pc = "advance" /\ w.bound = handler[h].bound  BY <1>1, TaskRows DEF HandlerRow
<1>5. Calm /\ \A t \in TaskIds : IsCopy(t)' => Same(t)  BY SameCalm DEF CheckOthers
<1>6. RowFine(w)'
  <2>1. handler[h].bound = 0 \/ handler[h].bound \in Made  BY <1>3 DEF Backing, RowFine
  <2> QED  BY <1>4, <1>5, <2>1 DEF RowFine, Ends3, Calm
<1>7. RowFine(m)'
  <2>1. CASE m = Idle  BY <2>1, RowIdle
  <2>2. CASE m = w  BY <1>6, <2>2
  <2> QED  BY <1>2, <2>1, <2>2
<1>8. handler[h].pc \notin Ends3 /\ m.pc \notin Ends3
  <2>1. Idle.pc = "idle"  BY DEF Idle
  <2> QED  BY <1>2, <1>3, <1>4, <2>1 DEF Ends3
<1>9. UNCHANGED <<nextDelegation, copying, spreading>>  BY DEF CheckOthers
<1> QED  BY <1>2, <1>5, <1>7, <1>8, <1>9, BackingRow

(* Nobody ends a delegation while another call is at work.                  *)
LEMMA NoEnd ==
    ASSUME Turnwise, NEW h \in Handlers, Busy(h), handler[h].pc \notin Ends3
    PROVE  \A g \in Handlers : handler[g].pc \notin Ends3
BY DEF Turnwise, Busy, Ends3

LEMMA RunStarts ==
    ASSUME NEW t, NEW b, NEW closes, NEW by, Stands(t)
    PROVE  RunFine(Run(t, b, closes, by))
BY DEF RunFine, Run

LEMMA BackingRead ==
    ASSUME IInv, Turnwise, Backing, NEW h \in Handlers, ReadRequest(h)
    PROVE  Backing'
<1>1. PICK me, a, e, p : /\ me = handler[h] /\ a = place[task[me.task].request]
                         /\ e = (request[task[me.task].request].state = "ended")
                         /\ p = Run(me.task, me.bound, TRUE, h)
  OBVIOUS
<1>2. PICK m : m = [me EXCEPT !.pc = "spread", !.at = a, !.ended = e]  OBVIOUS
<1>3. handler' = [handler EXCEPT ![h] = m] /\ me.pc = "read" /\ spreading' = spreading \cup {p}
  BY <1>1, <1>2 DEF ReadRequest, IInv, TypeOK
<1>4. m.pc = "spread" /\ m.bound = me.bound  BY <1>1, <1>2, TaskRows DEF HandlerRow
<1>5. Calm /\ \A t \in TaskIds : IsCopy(t)' => Same(t)  BY SameCalm DEF ReadRequest
<1>6. Stands(me.task) /\ (me.bound = 0 \/ me.bound \in Made)  BY <1>1, <1>3 DEF Backing, RowFine
<1>7. RowFine(m)'  BY <1>4, <1>5, <1>6 DEF RowFine, Ends3, Calm
<1>8. Stands(me.task)'
  <2>1. PICK t : t = me.task  OBVIOUS
  <2>2. Stands(t)'  BY <1>5, <1>6, <2>1, CalmTasks
  <2> QED  BY <2>1, <2>2 DEF Stands, Exists
<1>9. RunFine(p)'
  <2>1. Stands(p.task)' /\ p.pc = "up" /\ p.rows = {}  BY <1>1, <1>8 DEF Run
  <2> QED  BY <2>1 DEF RunFine
<1>10. \A g \in Handlers : handler'[g] = IF g = h THEN m ELSE handler[g]  BY <1>3, OneRow
<1>11. \A g \in Handlers : handler[g].pc \notin Ends3
  <2>1. Busy(h) /\ handler[h].pc \notin Ends3  BY <1>1, <1>3 DEF Busy, Ends3
  <2> QED  BY <2>1, NoEnd
<1>12. ASSUME NEW g \in Handlers
       PROVE  handler'[g] = handler[g] \/ (handler[g].pc \notin Ends3 /\ RowFine(handler[g])')
  <2>1. CASE g = h
    <3>1. handler'[g] = m  BY <1>10, <2>1
    <3>2. RowFine(handler[g])'  BY <1>7, <3>1
    <3> QED  BY <1>11, <3>2
  <2>2. CASE g # h  BY <1>10, <2>2
  <2> QED  BY <2>1, <2>2
<1>13. Quiet'  BY <1>4, <1>10, <1>11 DEF Quiet, Ends3
<1>14. UNCHANGED <<nextDelegation, copying>>  BY DEF ReadRequest
<1>15. \A q \in spreading' : q \in spreading \/ RunFine(q)'  BY <1>3, <1>9
<1> QED  BY <1>5, <1>12, <1>13, <1>14, <1>15, BackingCalm

(* The first things to do of a step.                                        *)
LEMMA BackingFirst ==
    ASSUME IInv, Turnwise, Backing, NEW h \in Handlers, NEW m, handler' = [handler EXCEPT ![h] = m],
           handler[h].pc \in {"idle", "advance"}, NEW items \in Seq(Item), NEW r,
           \A i \in 1 .. Len(items) : \E a \in Names : items[i] = Create(r, a, Assignee[a], 0, 0),
           NEW b, b = 0 \/ b \in Made,
           m = Idle \/ (m.pc = "create" /\ m.todo = items /\ items # <<>> /\ m.bound = b),
           UNCHANGED <<task, delegation, nextTask, nextDelegation, copying, spreading>>
    PROVE  Backing'
<1>1. Calm /\ \A t \in TaskIds : IsCopy(t)' => Same(t)  BY SameCalm
<1>2. ASSUME NEW i \in 1 .. Len(items) PROVE items[i] \in FineItem(b)
  <2>1. PICK x : x = items[i]  OBVIOUS
  <2>2. x \in Item  BY <2>1
  <2>3. PICK a \in Names : x = Create(r, a, Assignee[a], 0, 0)  BY <2>1
  <2>4. x.kind = "create" /\ x.name = a /\ x.user = Assignee[a] /\ x.bound = 0 /\ x.task = 0
    BY <2>3 DEF Create
  <2> QED  BY <2>1, <2>2, <2>4 DEF FineItem, Fine, FirstCopy
<1>3. items \in Seq(FineItem(b))
  <2>1. PICK S : S = FineItem(b)  OBVIOUS
  <2>2. items \in Seq(S)  BY <1>2, <2>1, AllIn
  <2> QED  BY <2>1, <2>2
<1>4. Neat(items, b)'  BY <1>1, <1>3, NeatAlways
<1>5. RowFine(m)' /\ m.pc \notin Ends3
  <2>1. CASE m = Idle
    <3>1. m.pc \notin Ends3  BY <2>1 DEF Idle, Ends3
    <3> QED  BY <2>1, <3>1, RowIdle
  <2>2. CASE m.pc = "create" /\ m.todo = items /\ m.bound = b
    <3>1. Neat(m.todo, m.bound)'  BY <1>4, <2>2
    <3>2. m.bound = 0 \/ m.bound \in Made'  BY <1>1, <2>2 DEF Calm
    <3> QED  BY <2>2, <3>1, <3>2 DEF RowFine, Ends3
  <2> QED  BY <2>1, <2>2
<1>6. handler[h].pc \notin Ends3  BY DEF Ends3
<1> QED  BY <1>1, <1>5, <1>6, BackingRow

LEMMA BackingAdvance ==
    ASSUME IInv, Turnwise, Backing, NEW h \in Handlers, AdvanceRequest(h)
    PROVE  Backing'
<1>1. PICK m, items, r :
         /\ handler' = [handler EXCEPT ![h] = m] /\ handler[h].pc = "advance"
         /\ items \in Seq(Item) /\ r \in RequestIds
         /\ \A i \in 1 .. Len(items) : \E a \in Names : items[i] = Create(r, a, Assignee[a], 0, 0)
         /\ m = Idle \/ (m.pc = "create" /\ m.todo = items /\ items # <<>>
                         /\ m.bound = handler[h].bound)
  BY AdvanceEffect
<1>2. PICK b : b = handler[h].bound  OBVIOUS
<1>3. b = 0 \/ b \in Made  BY <1>1, <1>2 DEF Backing, RowFine
<1>4. UNCHANGED <<task, delegation, nextTask, nextDelegation, copying, spreading>>  BY DEF AdvanceRequest
<1> QED  BY <1>1, <1>2, <1>3, <1>4, BackingFirst

LEMMA BackingOpen ==
    ASSUME IInv, Turnwise, Backing, NEW h \in Handlers, NEW u \in Users, NEW r \in RequestIds,
           OpenRequest(h, u, r)
    PROVE  Backing'
<1>1. PICK m, items :
         /\ handler' = [handler EXCEPT ![h] = m] /\ handler[h].pc = "idle"
         /\ items \in Seq(Item)
         /\ \A i \in 1 .. Len(items) : \E a \in Names : items[i] = Create(r, a, Assignee[a], 0, 0)
         /\ m = Idle \/ (m.pc = "create" /\ m.todo = items /\ items # <<>> /\ m.bound = 0)
  BY OpenEffect
<1>2. UNCHANGED <<task, delegation, nextTask, nextDelegation, copying, spreading>>  BY DEF OpenRequest
<1>3. PICK b : b = 0  OBVIOUS
<1> QED  BY <1>1, <1>2, <1>3, BackingFirst

----------------------------------------------------------------------------
(* What starts when nobody is at work: at most one call is busy afterwards. *)
LEMMA BackingRest ==
    ASSUME IInv, Backing, AtRest, UNCHANGED <<task, nextTask, copying, spreading>>,
           \A d \in MadeDelegations' : Honest(d)',
           \A g \in Handlers : RowFine(handler[g])',
           \A u, v : Backed(u, v) => Backed(u, v)' \/ Ending(u, v)'
    PROVE  Backing'
<1>1. copying' = {} /\ spreading' = {}  BY DEF AtRest
<1>2. Quiet'  BY <1>1 DEF Quiet
<1>3. Copied'
  <2> SUFFICES ASSUME NEW t \in TaskIds, IsCopy(t)'
               PROVE  (/\ Stands(task[t].bound)
                       /\ Backed(Owner(t), task[t].user) \/ Ending(Owner(t), task[t].user))'
    BY DEF Copied
  <2>1. PICK o, u, v : o = task[t].bound /\ u = task[o].user /\ v = task[t].user  OBVIOUS
  <2>2. IsCopy(t)  BY DEF IsCopy, Personal, IsOpen
  <2>3. Stands(o) /\ (Backed(u, v) \/ Ending(u, v))  BY <2>1, <2>2 DEF Backing, Copied, Owner
  <2>4. ~Ending(u, v)  BY DEF Ending, AtRest, Ends3
  <2>5. Backed(u, v)' \/ Ending(u, v)'  BY <2>3, <2>4
  <2>6. Stands(o)'  BY <2>3 DEF Stands, Exists
  <2>7. task'[t].bound = o /\ task'[o].user = u /\ task'[t].user = v  BY <2>1
  <2> QED  BY <2>5, <2>6, <2>7 DEF Owner
<1> QED  BY <1>1, <1>2, <1>3 DEF Backing

(* The only call at work after a call has started.                          *)
LEMMA RowsRest ==
    ASSUME IInv, AtRest, NEW h \in Handlers, NEW m, handler' = [handler EXCEPT ![h] = m], RowFine(m)'
    PROVE  \A g \in Handlers : RowFine(handler[g])'
<1> SUFFICES ASSUME NEW g \in Handlers PROVE RowFine(handler[g])'  OBVIOUS
<1>1. \A k \in Handlers : handler'[k] = IF k = h THEN m ELSE handler[k]  BY OneRow
<1>2. CASE g = h
  <2>1. handler'[g] = m  BY <1>1, <1>2
  <2> QED  BY <2>1
<1>3. CASE g # h
  <2>1. handler'[g].pc = "idle"  BY <1>1, <1>3 DEF AtRest
  <2> QED  BY <2>1 DEF RowFine, Ends3
<1> QED  BY <1>2, <1>3

LEMMA HonestStays ==
    ASSUME IInv, Backing, UNCHANGED <<task, nextTask>>, NEW d \in MadeDelegations,
           delegation'[d].from = delegation[d].from, delegation'[d].to = delegation[d].to,
           delegation'[d].task = delegation[d].task
    PROVE  Honest(d)'
<1>1. Honest(d)  BY DEF Backing
<1> QED  BY <1>1 DEF Honest, Belongs, Made

LEMMA BackingSubmit ==
    ASSUME IInv, Backing, AtRest, NEW h \in Handlers, NEW u, NEW t, SubmitTask(h, u, t)
    PROVE  Backing'
<1>1. PICK m : m = [Idle EXCEPT !.pc = "update", !.user = u, !.task = t]  OBVIOUS
<1>2. handler' = [handler EXCEPT ![h] = m]  BY <1>1 DEF SubmitTask
<1>3. m.pc = "update"  BY <1>1 DEF Idle
<1>4. RowFine(m)'  BY <1>3 DEF RowFine, Ends3
<1>5. \A g \in Handlers : RowFine(handler[g])'  BY <1>2, <1>4, RowsRest
<1>6. UNCHANGED <<task, nextTask, nextDelegation, delegation, copying, spreading>>  BY DEF SubmitTask
<1>7. \A d \in MadeDelegations' : Honest(d)'  BY <1>6, HonestStays DEF MadeDelegations
<1>8. \A v, w : Backed(v, w) => Backed(v, w)'  BY <1>6 DEF Backed, Between, Lasts
<1> QED  BY <1>5, <1>6, <1>7, <1>8, BackingRest

(* A delegation is triggered at once when it is current.                    *)
LEMMA TriggersFine ==
    ASSUME IInv, AtRest, NEW h \in Handlers, NEW u, NEW d \in DelegationIds, Triggers(h, u, d),
           delegation'[d].exists
    PROVE  \A g \in Handlers : RowFine(handler[g])'
<1>1. PICK w : w = [Idle EXCEPT !.pc = "trigger", !.user = u, !.delegation = d]  OBVIOUS
<1>2. PICK m : /\ handler' = [handler EXCEPT ![h] = m]
               /\ m = Idle \/ (m = w /\ delegation'[d].window = "current")
  BY <1>1 DEF Triggers
<1>3. w.pc = "trigger" /\ w.delegation = d  BY <1>1 DEF Idle
<1>4. RowFine(m)'
  <2>1. CASE m = Idle  BY <2>1, RowIdle
  <2>2. CASE m = w /\ delegation'[d].window = "current"
    <3>1. Lasts(d)'  BY <2>2 DEF Lasts
    <3> QED  BY <1>3, <2>2, <3>1 DEF RowFine, Ends3
  <2> QED  BY <1>2, <2>1, <2>2
<1> QED  BY <1>2, <1>4, RowsRest

LEMMA BackingCreateDelegation ==
    ASSUME IInv, Backing, AtRest, NEW h \in Handlers, NEW u \in Users, NEW v \in Users,
           NEW t \in {0} \cup TaskIds, NEW w \in {"coming", "current"},
           t # 0 => Exists(t) /\ task[t].user = u, CreateDelegation(h, u, v, t, w)
    PROVE  Backing'
<1>1. PICK n, row :
         /\ n \in DelegationIds /\ n = nextDelegation /\ nextDelegation' = nextDelegation + 1
         /\ row = [exists |-> TRUE, window |-> w, from |-> u, to |-> v, task |-> t]
         /\ \A d \in DelegationIds : delegation'[d] = IF d = n THEN row ELSE delegation[d]
  <2>1. nextDelegation \in DelegationIds  BY Sizes DEF CreateDelegation, IInv, TypeOK
  <2> QED  BY <2>1 DEF CreateDelegation, IInv, TypeOK
<1>2. UNCHANGED <<task, nextTask, copying, spreading>> /\ v \in Delegates[u] /\ Triggers(h, u, n)
  BY <1>1 DEF CreateDelegation
<1>3. n \notin MadeDelegations /\ MadeDelegations' = MadeDelegations \cup {n}
  <2>1. n \in Int  BY <1>1
  <2> QED  BY <1>1, <2>1 DEF MadeDelegations
<1>4. delegation'[n] = row /\ \A d \in MadeDelegations : delegation'[d] = delegation[d]
  BY <1>1, <1>3 DEF MadeDelegations
<1>5. ASSUME NEW d \in MadeDelegations' PROVE Honest(d)'
  <2>1. CASE d = n
    <3>1. t # 0 => Belongs(t, u)'
      <4>1. t # 0 => t \in Made /\ task[t].user = u  BY ExistsMade
      <4> QED  BY <1>2, <4>1 DEF Belongs, Made
    <3>2. delegation'[d].to = v /\ delegation'[d].from = u /\ delegation'[d].task = t  BY <1>1, <1>4, <2>1
    <3> QED  BY <1>2, <3>1, <3>2 DEF Honest
  <2>2. CASE d \in MadeDelegations  BY <1>2, <1>4, <2>2, HonestStays
  <2> QED  BY <1>3, <2>1, <2>2
<1>6. ASSUME NEW a, NEW c, Backed(a, c) PROVE Backed(a, c)'
  <2>1. PICK d \in Between(a, c) : Lasts(d)  BY <1>6 DEF Backed
  <2>2. d \in MadeDelegations  BY <2>1, CurrentMade DEF Lasts
  <2>3. d \in Between(a, c)' /\ Lasts(d)'  BY <1>4, <2>1, <2>2 DEF Between, Lasts
  <2> QED  BY <2>3 DEF Backed
<1>7. \A g \in Handlers : RowFine(handler[g])'
  <2>1. delegation'[n].exists /\ n \in DelegationIds /\ Triggers(h, u, n)  BY <1>1, <1>2, <1>4
  <2> QED  BY <2>1, TriggersFine
<1> QED  BY <1>2, <1>5, <1>6, <1>7, BackingRest

LEMMA BackingUpdateDelegation ==
    ASSUME IInv, Backing, AtRest, NEW h \in Handlers, NEW u \in Users, NEW d \in DelegationIds,
           UpdateDelegation(h, u, d)
    PROVE  Backing'
<1>1. UNCHANGED <<task, nextTask, nextDelegation, delegation, copying, spreading>> /\ Triggers(h, u, d)
      /\ delegation[d].exists
  BY DEF UpdateDelegation
<1>2. \A g \in Handlers : RowFine(handler[g])'  BY <1>1, TriggersFine
<1>3. \A e \in MadeDelegations' : Honest(e)'  BY <1>1, HonestStays DEF MadeDelegations
<1>4. \A v, w : Backed(v, w) => Backed(v, w)'  BY <1>1 DEF Backed, Between, Lasts
<1> QED  BY <1>1, <1>2, <1>3, <1>4, BackingRest

LEMMA BackingToday ==
    ASSUME IInv, Backing, AtRest, NEW d \in DelegationIds, NEW w \in {"current", "past"}, Today(d, w)
    PROVE  Backing'
<1>1. PICK row : row = [delegation[d] EXCEPT !.window = w]  OBVIOUS
<1>2. \A e \in DelegationIds : delegation'[e] = IF e = d THEN row ELSE delegation[e]
  BY <1>1 DEF Today, IInv, TypeOK
<1>3. /\ row.window = w /\ row.from = delegation[d].from /\ row.to = delegation[d].to
      /\ row.task = delegation[d].task /\ row.exists = delegation[d].exists
  BY <1>1, TaskRows DEF DelegationRow
<1>4. UNCHANGED <<task, nextTask, nextDelegation, handler, copying, spreading>>  BY DEF Today
<1>5. ASSUME NEW e \in MadeDelegations' PROVE Honest(e)'
  <2>1. e \in MadeDelegations /\ e \in DelegationIds  BY <1>4 DEF MadeDelegations
  <2>2. /\ delegation'[e].from = delegation[e].from /\ delegation'[e].to = delegation[e].to
        /\ delegation'[e].task = delegation[e].task
    BY <1>2, <1>3, <2>1
  <2> QED  BY <1>4, <2>1, <2>2, HonestStays
<1>6. ASSUME NEW a, NEW c, Backed(a, c) PROVE Backed(a, c)'
  <2>1. PICK e \in Between(a, c) : Lasts(e)  BY <1>6 DEF Backed
  <2>2. e \in DelegationIds  BY <2>1 DEF Lasts
  <2>3. delegation'[e].from = delegation[e].from /\ delegation'[e].to = delegation[e].to
        /\ delegation'[e].exists = delegation[e].exists
        /\ (delegation'[e].window = delegation[e].window \/ delegation'[e].window = w)
    BY <1>2, <1>3, <2>2
  <2>4. e \in Between(a, c)'  BY <2>1, <2>3 DEF Between
  <2>5. Lasts(e)'  BY <2>1, <2>2, <2>3 DEF Lasts
  <2> QED  BY <2>4, <2>5 DEF Backed
<1>7. \A g \in Handlers : RowFine(handler[g])'
  <2> SUFFICES ASSUME NEW g \in Handlers PROVE RowFine(handler[g])'  OBVIOUS
  <2>1. handler'[g].pc = "idle"  BY <1>4 DEF AtRest
  <2> QED  BY <2>1 DEF RowFine, Ends3
<1> QED  BY <1>4, <1>5, <1>6, <1>7, BackingRest

LEMMA BackingDelete ==
    ASSUME IInv, Backing, AtRest, NEW h \in Handlers, NEW u \in Users, NEW d \in DelegationIds,
           DeleteDelegation(h, u, d)
    PROVE  Backing'
<1>1. PICK row, m : /\ row = [delegation[d] EXCEPT !.exists = FALSE]
                    /\ m = [Idle EXCEPT !.pc = "unshare", !.user = u, !.delegation = d]
  OBVIOUS
<1>2. /\ handler' = [handler EXCEPT ![h] = m]
      /\ \A e \in DelegationIds : delegation'[e] = IF e = d THEN row ELSE delegation[e]
      /\ UNCHANGED <<task, nextTask, nextDelegation, copying, spreading>>
      /\ delegation[d].from = u
  BY <1>1 DEF DeleteDelegation, DeletesRow, IInv, TypeOK
<1>3. /\ row.from = delegation[d].from /\ row.to = delegation[d].to /\ row.task = delegation[d].task
  BY <1>1, TaskRows DEF DelegationRow
<1>4. m.pc = "unshare" /\ m.user = u /\ m.delegation = d  BY <1>1 DEF Idle
<1>5. RowFine(m)'
  <2>1. delegation'[m.delegation].from = m.user  BY <1>2, <1>3, <1>4
  <2> QED  BY <1>4, <2>1 DEF RowFine, Ends3
<1>6. \A g \in Handlers : RowFine(handler[g])'  BY <1>2, <1>5, RowsRest
<1>7. ASSUME NEW e \in MadeDelegations' PROVE Honest(e)'
  <2>1. e \in MadeDelegations /\ e \in DelegationIds  BY <1>2 DEF MadeDelegations
  <2>2. /\ delegation'[e].from = delegation[e].from /\ delegation'[e].to = delegation[e].to
        /\ delegation'[e].task = delegation[e].task
    BY <1>2, <1>3, <2>1
  <2> QED  BY <1>2, <2>1, <2>2, HonestStays
<1>8. ASSUME NEW a, NEW c, Backed(a, c) PROVE Backed(a, c)' \/ Ending(a, c)'
  <2>1. PICK e \in Between(a, c) : Lasts(e)  BY <1>8 DEF Backed
  <2>2. e \in DelegationIds  BY <2>1 DEF Lasts
  <2>3. e \in Between(a, c)'  BY <1>2, <1>3, <2>1, <2>2 DEF Between
  <2>4. CASE e = d
    <3>0. handler' = [handler EXCEPT ![h] = m]  BY <1>2
    <3>1. handler'[h] = m  BY <3>0 DEF IInv, TypeOK
    <3>2. handler'[h].pc \in Ends3 /\ handler'[h].delegation = e  BY <1>4, <2>4, <3>1 DEF Ends3
    <3> QED  BY <2>3, <3>2 DEF Ending, Ends3
  <2>5. CASE e # d
    <3>1. delegation'[e] = delegation[e]  BY <1>2, <2>2, <2>5
    <3>2. Lasts(e)'  BY <2>1, <3>1 DEF Lasts
    <3> QED  BY <2>3, <3>2 DEF Backed
  <2> QED  BY <2>4, <2>5
<1> QED  BY <1>2, <1>6, <1>7, <1>8, BackingRest

LEMMA BackingCall ==
    ASSUME IInv, Turnwise, Backing, Alone = Calls, ~Daily, NEW h \in Handlers, Call(h)
    PROVE  Backing'
<1>1. AtRest
  <2>1. \A call \in Calls : Accept(h, call) => AtRest  BY DEF Accept
  <2> QED  BY <2>1 DEF Call, Calls, OpenRequest, SubmitTask, CreateDelegation, UpdateDelegation,
                   DeleteDelegation, ExpireDaily, TriggerDaily, DeletesRow
<1>2. ASSUME NEW u \in Users, NEW r \in RequestIds, OpenRequest(h, u, r) PROVE Backing'
  BY <1>2, BackingOpen
<1>3. ASSUME NEW u \in Users, NEW t \in TaskIds, SubmitTask(h, u, t) PROVE Backing'
  BY <1>1, <1>3, BackingSubmit
<1>4. ASSUME NEW u \in Users, NEW v \in Users, NEW w \in {"coming", "current"},
             NEW t \in {0} \cup (IF Singles THEN TaskIds ELSE {}),
             t # 0 => Exists(t) /\ task[t].user = u, CreateDelegation(h, u, v, t, w)
      PROVE  Backing'
  <2>1. t \in {0} \cup TaskIds  OBVIOUS
  <2> QED  BY <1>1, <1>4, <2>1, BackingCreateDelegation
<1>5. ASSUME NEW u \in Users, NEW d \in DelegationIds, UpdateDelegation(h, u, d) \/ DeleteDelegation(h, u, d)
      PROVE  Backing'
  BY <1>1, <1>5, BackingUpdateDelegation, BackingDelete
<1>6. \A d \in DelegationIds : ~ExpireDaily(h, d) /\ ~TriggerDaily(h, d)  BY DEF ExpireDaily, TriggerDaily
<1> QED  BY <1>2, <1>3, <1>4, <1>5, <1>6 DEF Call

----------------------------------------------------------------------------
(* A delegation is triggered.                                               *)
LEMMA BackingTrigger ==
    ASSUME IInv, Turnwise, Backing, NEW h \in Handlers, Trigger(h)
    PROVE  Backing'
<1>1. PICK d : d = handler[h].delegation  OBVIOUS
<1>2. PICK rows : rows = {t \in TaskIds : IsOpen(t) /\ IF delegation[d].task = 0
                                                       THEN \/ task[t].user = delegation[d].from
                                                            \/ task[t].entity \in
                                                                  EntitiesOf(delegation[d].from)
                                                       ELSE t = delegation[d].task}
  OBVIOUS
<1>3. /\ handler[h].pc = "trigger" /\ handler' = [handler EXCEPT ![h] = Idle]
      /\ copying' = copying \cup {[delegation |-> d, task |-> t, pc |-> "share"] : t \in rows}
      /\ UNCHANGED <<task, delegation, nextTask, nextDelegation, spreading>>
  BY <1>1, <1>2 DEF Trigger
<1>4. Calm /\ \A t \in TaskIds : IsCopy(t)' => Same(t)  BY <1>3, SameCalm
<1>5. Lasts(d) /\ d \in MadeDelegations
  BY <1>1, <1>3 DEF Backing, RowFine, IInv, CallsGood, GoodHandler
<1>6. ASSUME NEW t \in rows
      PROVE  Stands(t) /\ (Sole(task[t].name) => delegation[d].from = task[t].user)
  <2>1. t \in TaskIds /\ IsOpen(t)  BY <1>2
  <2>2. Stands(t)  BY <2>1 DEF Stands, Exists, IsOpen
  <2>3. CASE delegation[d].task = 0
    <3>1. t \in Made  BY <2>2, StandsMade
    <3>2. task[t].entity \in {NoEntity, Entity[task[t].name]}  BY <3>1 DEF IInv, RowsGood
    <3>3. Sole(task[t].name) => task[t].entity = NoEntity  BY <3>2 DEF Sole
    <3>4. Sole(task[t].name) => task[t].entity \notin EntitiesOf(delegation[d].from)
      BY <3>3 DEF EntitiesOf
    <3> QED  BY <1>2, <2>2, <2>3, <3>4
  <2>4. CASE delegation[d].task # 0
    <3>1. t = delegation[d].task  BY <1>2, <2>4
    <3>2. Honest(d)  BY <1>5 DEF Backing
    <3> QED  BY <2>2, <2>4, <3>1, <3>2 DEF Honest, Belongs
  <2> QED  BY <2>3, <2>4
<1>7. ASSUME NEW c \in copying' PROVE c \in copying \/ CopyFine(c)'
  <2>1. CASE c \in copying  BY <2>1
  <2>2. CASE c \notin copying
    <3>1. PICK t \in rows : c = [delegation |-> d, task |-> t, pc |-> "share"]  BY <1>3, <2>2
    <3>2. c.task = t /\ c.delegation = d  BY <3>1
    <3>3. CopyFine(c)  BY <1>5, <1>6, <3>2 DEF CopyFine
    <3> QED  BY <1>4, <3>3, CalmCopy
  <2> QED  BY <2>1, <2>2
<1>8. \A g \in Handlers : handler'[g] = IF g = h THEN Idle ELSE handler[g]  BY <1>3 DEF IInv, TypeOK
<1>9. \A g \in Handlers : handler[g].pc \notin Ends3
  <2>1. Busy(h) /\ handler[h].pc \notin Ends3  BY <1>3 DEF Busy, Ends3
  <2> QED  BY <2>1, NoEnd
<1>10. ASSUME NEW g \in Handlers
       PROVE  handler'[g] = handler[g] \/ (handler[g].pc \notin Ends3 /\ RowFine(handler[g])')
  <2>1. CASE g = h
    <3>1. handler'[g] = Idle  BY <1>8, <2>1
    <3>2. RowFine(handler[g])'  BY <3>1, RowIdle
    <3> QED  BY <1>9, <3>2
  <2>2. CASE g # h  BY <1>8, <2>2
  <2> QED  BY <2>1, <2>2
<1>11. Quiet'
  <2>1. Idle.pc \notin Ends3  BY DEF Idle, Ends3
  <2> QED  BY <1>8, <1>9, <2>1 DEF Quiet, Ends3
<1>12. \A p \in spreading' : p \in spreading \/ RunFine(p)'  BY <1>3
<1> QED  BY <1>3, <1>4, <1>7, <1>10, <1>11, <1>12, BackingCalm

----------------------------------------------------------------------------
(* The end of a delegation.                                                 *)
LEMMA BackingEnding ==
    ASSUME IInv, Turnwise, Backing, NEW h \in Handlers, handler[h].pc \in Ends3, NEW m,
           handler' = [handler EXCEPT ![h] = m], RowFine(m)',
           UNCHANGED <<delegation, nextDelegation, nextTask, copying, spreading>>,
           \A t \in TaskIds : task'[t].user = task[t].user, Copied'
    PROVE  Backing'
<1>1. Busy(h)  BY DEF Busy, Ends3
<1>2. copying' = {} /\ spreading' = {}  BY <1>1 DEF Turnwise, Backing, Quiet
<1>3. \A g \in Handlers : handler'[g] = IF g = h THEN m ELSE handler[g]  BY OneRow
<1>4. ASSUME NEW g \in Handlers PROVE RowFine(handler[g])'
  <2>1. CASE g = h
    <3>1. handler'[g] = m  BY <1>3, <2>1
    <3> QED  BY <3>1
  <2>2. CASE g # h
    <3>1. handler'[g] = handler[g] /\ handler[g].pc = "idle"  BY <1>1, <1>3, <2>2 DEF Turnwise, Busy
    <3> QED  BY <3>1 DEF RowFine, Ends3
  <2> QED  BY <2>1, <2>2
<1>5. ASSUME NEW d \in MadeDelegations' PROVE Honest(d)'
  <2>1. Honest(d)  BY DEF Backing, MadeDelegations
  <2> QED  BY <2>1 DEF Honest, Belongs, Made
<1>6. Quiet'  BY <1>2 DEF Quiet
<1> QED  BY <1>2, <1>4, <1>5, <1>6 DEF Backing

(* Whose end it is that waits.                                              *)
LEMMA OneEnding ==
    ASSUME Turnwise, NEW h \in Handlers, handler[h].pc \in Ends3, NEW u, NEW v, Ending(u, v)
    PROVE  handler[h].delegation \in Between(u, v)
<1>1. PICK g \in Handlers : handler[g].pc \in Ends3 /\ handler[g].delegation \in Between(u, v)
  BY DEF Ending
<1>2. Busy(h) /\ Busy(g)  BY <1>1 DEF Busy, Ends3
<1>3. g = h  BY <1>2 DEF Turnwise
<1> QED  BY <1>1, <1>3

LEMMA BackingDeleteShares ==
    ASSUME IInv, Turnwise, Backing, NEW h \in Handlers, DeleteShares(h)
    PROVE  Backing'
<1>1. PICK d, m : d = handler[h].delegation /\ m = [handler[h] EXCEPT !.pc = "rivals"]  OBVIOUS
<1>2. /\ handler[h].pc = "unshare" /\ handler' = [handler EXCEPT ![h] = m]
      /\ UNCHANGED <<task, delegation, nextDelegation, nextTask, copying, spreading>>
  BY <1>1 DEF DeleteShares, IInv, TypeOK
<1>3. m.pc = "rivals" /\ m.delegation = d /\ m.user = handler[h].user
  BY <1>1, TaskRows DEF HandlerRow
<1>4. handler[h].pc \in Ends3  BY <1>2 DEF Ends3
<1>5. handler[h].user = delegation[d].from  BY <1>1, <1>4 DEF Backing, RowFine
<1>6. RowFine(m)'
  <2>1. m.user = delegation'[m.delegation].from  BY <1>2, <1>3, <1>5
  <2> QED  BY <1>3, <2>1 DEF RowFine, Ends3
<1>7. Copied'
  <2> SUFFICES ASSUME NEW t \in TaskIds, IsCopy(t)'
               PROVE  (/\ Stands(task[t].bound)
                       /\ Backed(Owner(t), task[t].user) \/ Ending(Owner(t), task[t].user))'
    BY DEF Copied
  <2>1. PICK o, u, v : o = task[t].bound /\ u = task[o].user /\ v = task[t].user  OBVIOUS
  <2>2. IsCopy(t)  BY <1>2 DEF IsCopy, Personal, IsOpen
  <2>3. Stands(o) /\ (Backed(u, v) \/ Ending(u, v))  BY <2>1, <2>2 DEF Backing, Copied, Owner
  <2>4. Backed(u, v) => Backed(u, v)'  BY <1>2 DEF Backed, Between, Lasts
  <2>5. Ending(u, v) => Ending(u, v)'
    <3> SUFFICES ASSUME Ending(u, v) PROVE Ending(u, v)'  OBVIOUS
    <3>1. d \in Between(u, v)  BY <1>1, <1>4, OneEnding
    <3>2. d \in Between(u, v)'  BY <1>2, <3>1 DEF Between
    <3>3. handler'[h] = m  BY <1>2 DEF IInv, TypeOK
    <3>4. handler'[h].pc \in Ends3 /\ handler'[h].delegation = d  BY <1>3, <3>3 DEF Ends3
    <3> QED  BY <3>2, <3>4 DEF Ending, Ends3
  <2>6. Stands(o)'  BY <1>2, <2>3 DEF Stands, Exists
  <2>7. task'[t].bound = o /\ task'[o].user = u /\ task'[t].user = v  BY <1>2, <2>1
  <2> QED  BY <2>3, <2>4, <2>5, <2>6, <2>7 DEF Owner
<1>8. \A t \in TaskIds : task'[t].user = task[t].user  BY <1>2
<1> QED  BY <1>2, <1>4, <1>6, <1>7, <1>8, BackingEnding

LEMMA BackingFindRivals ==
    ASSUME IInv, Turnwise, Backing, NEW h \in Handlers, FindRivals(h)
    PROVE  Backing'
<1>1. PICK d, w : d = handler[h].delegation /\ w = [handler[h] EXCEPT !.pc = "withdraw"]  OBVIOUS
<1>2. /\ handler[h].pc = "rivals"
      /\ UNCHANGED <<task, delegation, nextDelegation, nextTask, copying, spreading>>
  BY DEF FindRivals
<1>3. PICK m : /\ handler' = [handler EXCEPT ![h] = m]
               /\ (m = Idle /\ Rivals(d) # {}) \/ m = w
  BY <1>1 DEF FindRivals, IInv, TypeOK
<1>4. w.pc = "withdraw" /\ w.delegation = d /\ w.user = handler[h].user
  BY <1>1, TaskRows DEF HandlerRow
<1>5. handler[h].pc \in Ends3  BY <1>2 DEF Ends3
<1>6. handler[h].user = delegation[d].from  BY <1>1, <1>5 DEF Backing, RowFine
<1>7. RowFine(w)'
  <2>1. w.user = delegation'[w.delegation].from  BY <1>2, <1>4, <1>6
  <2> QED  BY <1>4, <2>1 DEF RowFine, Ends3
<1>8. RowFine(m)'
  <2>1. CASE m = Idle  BY <2>1, RowIdle
  <2>2. CASE m = w  BY <1>7, <2>2
  <2> QED  BY <1>3, <2>1, <2>2
<1>9. Copied'
  <2> SUFFICES ASSUME NEW t \in TaskIds, IsCopy(t)'
               PROVE  (/\ Stands(task[t].bound)
                       /\ Backed(Owner(t), task[t].user) \/ Ending(Owner(t), task[t].user))'
    BY DEF Copied
  <2>1. PICK o, u, v : o = task[t].bound /\ u = task[o].user /\ v = task[t].user  OBVIOUS
  <2>2. IsCopy(t)  BY <1>2 DEF IsCopy, Personal, IsOpen
  <2>3. Stands(o) /\ (Backed(u, v) \/ Ending(u, v))  BY <2>1, <2>2 DEF Backing, Copied, Owner
  <2>4. Backed(u, v) => Backed(u, v)'  BY <1>2 DEF Backed, Between, Lasts
  <2>5. Ending(u, v) => Backed(u, v)' \/ Ending(u, v)'
    <3> SUFFICES ASSUME Ending(u, v) PROVE Backed(u, v)' \/ Ending(u, v)'  OBVIOUS
    <3>1. d \in Between(u, v)  BY <1>1, <1>5, OneEnding
    <3>2. d \in Between(u, v)'  BY <1>2, <3>1 DEF Between
    <3>3. handler'[h] = m  BY <1>3 DEF IInv, TypeOK
    <3>4. CASE m = w
      <4>1. handler'[h].pc \in Ends3 /\ handler'[h].delegation = d  BY <1>4, <3>3, <3>4 DEF Ends3
      <4> QED  BY <3>2, <4>1 DEF Ending, Ends3
    <3>5. CASE Rivals(d) # {}
      <4>1. PICK e \in DelegationIds : /\ Current(e) /\ delegation[e].from = delegation[d].from
                                       /\ delegation[e].to = delegation[d].to
        BY <3>5 DEF Rivals
      <4>2. e \in Between(u, v) /\ Lasts(e)  BY <3>1, <4>1 DEF Between, Lasts, Current
      <4>3. Backed(u, v)  BY <4>2 DEF Backed
      <4> QED  BY <2>4, <4>3
    <3> QED  BY <1>3, <3>4, <3>5
  <2>6. Stands(o)'  BY <1>2, <2>3 DEF Stands, Exists
  <2>7. task'[t].bound = o /\ task'[o].user = u /\ task'[t].user = v  BY <1>2, <2>1
  <2> QED  BY <2>3, <2>4, <2>5, <2>6, <2>7 DEF Owner
<1>10. \A t \in TaskIds : task'[t].user = task[t].user  BY <1>2
<1> QED  BY <1>2, <1>3, <1>5, <1>8, <1>9, <1>10, BackingEnding

(* A delegate delegates to nobody.                                          *)
LEMMA NoSecond ==
    ASSUME IInv, Backing, NoChain, NEW d \in MadeDelegations, NEW u, NEW v, Backed(u, v)
    PROVE  u # delegation[d].to
<1>1. PICK e \in Between(u, v) : Lasts(e)  BY DEF Backed
<1>2. e \in MadeDelegations  BY <1>1, CurrentMade DEF Lasts
<1>3. Honest(e) /\ Honest(d)  BY <1>2 DEF Backing
<1>4. v \in Delegates[u]  BY <1>1, <1>3 DEF Honest, Between
<1>5. delegation[d].to \in Delegates[delegation[d].from]  BY <1>3 DEF Honest
<1>6. delegation[d].from \in Users  BY DEF IInv, RowsGood
<1>7. Delegates[delegation[d].to] = {}  BY <1>5, <1>6 DEF NoChain
<1> QED  BY <1>4, <1>7

LEMMA BackingWithdraw ==
    ASSUME IInv, Turnwise, Backing, NoChain, NEW h \in Handlers, WithdrawCopies(h)
    PROVE  Backing'
<1>1. PICK me, d, mine : /\ me = handler[h] /\ d = me.delegation
                         /\ mine = {t \in TaskIds : Exists(t) /\ task[t].user = me.user}
  OBVIOUS
<1>2. PICK copies : copies = {t \in TaskIds : /\ IsOpen(t) /\ task[t].user = delegation[d].to
                                              /\ task[t].bound \in mine}
  OBVIOUS
<1>3. /\ me.pc = "withdraw" /\ handler' = [handler EXCEPT ![h] = Idle]
      /\ task' = [t \in TaskIds |-> IF t \in copies THEN [task[t] EXCEPT !.state = "none"] ELSE task[t]]
      /\ UNCHANGED <<delegation, nextDelegation, nextTask, copying, spreading>>
  BY <1>1, <1>2 DEF WithdrawCopies
<1>4. \A t \in TaskIds : /\ task'[t].user = task[t].user
                         /\ t \notin copies => task'[t] = task[t]
                         /\ t \in copies => task'[t].state = "none"
  <2> SUFFICES ASSUME NEW t \in TaskIds
               PROVE  /\ task'[t].user = task[t].user
                      /\ t \notin copies => task'[t] = task[t]
                      /\ t \in copies => task'[t].state = "none"
    OBVIOUS
  <2>1. task[t] \in TaskRow  BY TaskRows
  <2> QED  BY <1>3, <2>1 DEF TaskRow
<1>5. handler[h].pc \in Ends3 /\ d \in MadeDelegations
  BY <1>1, <1>3 DEF Ends3, IInv, CallsGood, GoodHandler
<1>6. me.user = delegation[d].from  BY <1>1, <1>5 DEF Backing, RowFine
<1>7. Copied'
  <2> SUFFICES ASSUME NEW t \in TaskIds, IsCopy(t)'
               PROVE  (/\ Stands(task[t].bound)
                       /\ Backed(Owner(t), task[t].user) \/ Ending(Owner(t), task[t].user))'
    BY DEF Copied
  <2>1. PICK o, u, v : o = task[t].bound /\ u = task[o].user /\ v = task[t].user  OBVIOUS
  <2>2. t \notin copies /\ task'[t] = task[t]  BY <1>4 DEF IsCopy, Personal, IsOpen
  <2>3. IsCopy(t)  BY <2>2 DEF IsCopy, Personal, IsOpen
  <2>4. Stands(o) /\ (Backed(u, v) \/ Ending(u, v))  BY <2>1, <2>3 DEF Backing, Copied, Owner
  <2>5. ~Ending(u, v)
    <3> SUFFICES ASSUME Ending(u, v) PROVE FALSE  OBVIOUS
    <3>1. d \in Between(u, v)  BY <1>1, <1>5, OneEnding
    <3>2. u = me.user /\ v = delegation[d].to  BY <1>6, <3>1 DEF Between
    <3>3. o \in mine  BY <1>1, <2>1, <2>4, <3>2 DEF Stands
    <3> QED  BY <1>2, <2>1, <2>2, <2>3, <3>2, <3>3 DEF IsCopy, Personal
  <2>6. Backed(u, v)  BY <2>4, <2>5
  <2>7. u # delegation[d].to  BY <1>5, <2>6, NoSecond
  <2>8. o \in TaskIds /\ o \notin copies  BY <1>2, <2>1, <2>4, <2>7 DEF Stands
  <2>9. task'[o] = task[o]  BY <1>4, <2>8
  <2>10. Stands(o)'  BY <2>4, <2>9 DEF Stands, Exists
  <2>11. Backed(u, v)'  BY <1>3, <2>6 DEF Backed, Between, Lasts
  <2>12. task'[t].bound = o /\ task'[o].user = u /\ task'[t].user = v  BY <2>1, <2>2, <2>9
  <2> QED  BY <2>10, <2>11, <2>12 DEF Owner
<1>8. RowFine(Idle)'  BY RowIdle
<1> QED  BY <1>3, <1>4, <1>5, <1>7, <1>8, BackingEnding

----------------------------------------------------------------------------
(* The goroutines of UpdateDelegated.  No delegation ends beside them.      *)
LEMMA NoEndBeside ==
    ASSUME Backing, NEW p \in spreading
    PROVE  /\ \A g \in Handlers : handler[g].pc \notin Ends3
           /\ \A u, v : ~Ending(u, v)
<1>1. \A g \in Handlers : handler[g].pc \notin Ends3  BY DEF Backing, Quiet
<1> QED  BY <1>1 DEF Ending

LEMMA BackingRuns ==
    ASSUME IInv, Backing, SpreadStep, Calm, \A q \in spreading' : q \in spreading \/ RunFine(q)',
           \A t \in TaskIds : IsCopy(t)' => Same(t) \/ NewCopy(t)'
    PROVE  Backing'
<1>1. PICK p \in spreading : TRUE  BY DEF SpreadStep
<1>2. \A g \in Handlers : handler[g].pc \notin Ends3  BY <1>1, NoEndBeside
<1>3. /\ \A g \in Handlers : \/ handler'[g] = handler[g]
                             \/ /\ handler[g].pc = "spread"
                                /\ handler'[g] = [handler[g] EXCEPT !.pc = "others"]
      /\ UNCHANGED <<nextDelegation, copying>>
  BY SpreadEffect
<1>4. ASSUME NEW g \in Handlers
      PROVE  /\ handler'[g] = handler[g] \/ RowFine(handler[g])'
             /\ handler'[g].pc \notin Ends3
  <2>1. CASE handler'[g] = handler[g]  BY <1>2, <2>1
  <2>2. CASE handler[g].pc = "spread" /\ handler'[g] = [handler[g] EXCEPT !.pc = "others"]
    <3>1. PICK m : m = handler'[g]  OBVIOUS
    <3>2. m.pc = "others" /\ m.bound = handler[g].bound  BY <2>2, <3>1, TaskRows DEF HandlerRow
    <3>3. handler[g].bound = 0 \/ handler[g].bound \in Made  BY <2>2 DEF Backing, RowFine
    <3>4. m.bound = 0 \/ m.bound \in Made'  BY <3>2, <3>3 DEF Calm
    <3>5. RowFine(m)'  BY <3>2, <3>4 DEF RowFine, Ends3
    <3>6. RowFine(handler[g])'  BY <3>1, <3>5
    <3>7. m.pc \notin Ends3  BY <3>2 DEF Ends3
    <3> QED  BY <3>1, <3>6, <3>7
  <2> QED  BY <1>3, <2>1, <2>2
<1>5. Quiet'
  <2> SUFFICES ASSUME NEW g \in Handlers, handler'[g].pc \in Ends3 PROVE FALSE  BY DEF Quiet, Ends3
  <2> QED  BY <1>4
<1>6. \A c \in copying' : c \in copying \/ CopyFine(c)'  BY <1>3
<1>7. \A g \in Handlers : handler'[g] = handler[g] \/ (handler[g].pc \notin Ends3 /\ RowFine(handler[g])')
  BY <1>2, <1>4
<1>8. UNCHANGED nextDelegation  BY <1>3
<1> QED  BY <1>5, <1>6, <1>7, <1>8, BackingCalm

(* What an UPDATE of a goroutine leaves alone.                              *)
LEMMA WritesEffect ==
    ASSUME IInv, NEW t, NEW p, NEW b, Writes(t, p, b), UNCHANGED <<delegation, nextTask>>
    PROVE  Calm /\ \A s \in TaskIds : task'[s] = task[s] \/ (s = t /\ task'[s].bound = b)
<1>1. PICK row : row = Written(task[t], p, b)  OBVIOUS
<1>2. task' = task \/ (Exists(t) /\ task' = [task EXCEPT ![t] = row])
  BY <1>1 DEF Writes
<1>3. ASSUME NEW s \in TaskIds
      PROVE  /\ task'[s].request = task[s].request /\ task'[s].name = task[s].name
             /\ task'[s].user = task[s].user
             /\ (task'[s].state # "none" <=> task[s].state # "none")
             /\ task'[s] = task[s] \/ (s = t /\ task'[s].bound = b)
  <2>1. CASE task'[s] = task[s]  BY <2>1
  <2>2. CASE task'[s] # task[s]
    <3>1. s = t /\ Exists(t) /\ task'[s] = Written(task[s], p, b)  BY <1>1, <1>2, <2>2, TaskTable
    <3>2. PICK st \in {"open", "closed"} : task'[s] = [task[s] EXCEPT !.state = st, !.bound = b]
      BY <3>1 DEF Written
    <3>3. task[s] \in TaskRow  BY TaskRows
    <3>4. /\ task'[s].request = task[s].request /\ task'[s].name = task[s].name
          /\ task'[s].user = task[s].user /\ task'[s].bound = b /\ task'[s].state = st
      BY <3>2, <3>3 DEF TaskRow
    <3> QED  BY <3>1, <3>4 DEF Exists
  <2> QED  BY <2>1, <2>2
<1>4. Calm
  <2>1. Made = Made'  BY DEF Made
  <2>2. \A s \in Made : s \in TaskIds  BY DEF Made
  <2> QED  BY <1>3, <2>1, <2>2 DEF Calm
<1> QED  BY <1>3, <1>4

LEMMA BackingFindAbove ==
    ASSUME IInv, Backing, NEW p \in spreading, FindAbove(p)
    PROVE  Backing'
<1>1. PICK a : a = task[p.bound].bound  OBVIOUS
<1>2. PICK q : /\ \/ q = [p EXCEPT !.pc = "upWrite", !.above = a] /\ p.bound # 0 /\ IsOpen(p.bound)
                  \/ q = [p EXCEPT !.pc = "down"]
               /\ spreading' = (spreading \ {p}) \cup {q}
  BY <1>1 DEF FindAbove, Becomes
<1>3. p \in Spread /\ Free(p.task, p.bound)  BY DEF IInv, TypeOK, RunsGood, GoodSpread
<1>4. /\ q.task = p.task /\ q.bound = p.bound /\ q.rows = p.rows
      /\ q.pc = "upWrite" => p.bound # 0 /\ IsOpen(p.bound)
  BY <1>2, <1>3 DEF Spread
<1>5. q.pc = "upWrite" => Stands(q.bound)
  <2> SUFFICES ASSUME q.pc = "upWrite" PROVE Stands(q.bound)  OBVIOUS
  <2>1. p.bound \in Made /\ IsOpen(p.bound)  BY <1>3, <1>4 DEF Free, Kin
  <2> QED  BY <1>4, <2>1 DEF Stands, Exists, IsOpen, Made
<1>6. UNCHANGED <<task, delegation, nextTask>>  BY DEF FindAbove
<1>7. Calm /\ \A t \in TaskIds : IsCopy(t)' => Same(t)  BY <1>6, SameCalm
<1>8. RunFine(q)
  <2>1. RunFine(p)  BY DEF Backing
  <2> QED  BY <1>4, <1>5, <2>1 DEF RunFine
<1>9. RunFine(q)'
  <2>1. \A u, v, n : Allowed(u, v, n) <=> Allowed(u, v, n)'  BY <1>7, CalmBacked
  <2> QED  BY <1>6, <1>8, <2>1 DEF RunFine, Stands, Exists
<1>10. \A r \in spreading' : r \in spreading \/ RunFine(r)'  BY <1>2, <1>9
<1>11. SpreadStep  BY DEF SpreadStep
<1> QED  BY <1>7, <1>10, <1>11, BackingRuns

LEMMA BackingWriteAbove ==
    ASSUME IInv, Backing, NEW p \in spreading, WriteAbove(p)
    PROVE  Backing'
<1>1. PICK q, s : q = [p EXCEPT !.pc = "down"] /\ s = Run(p.bound, p.above, FALSE, NoHandler)  OBVIOUS
<1>2. /\ p.pc = "upWrite" /\ Writes(p.bound, p, p.bound)
      /\ spreading' = (spreading \ {p}) \cup {q, s}
      /\ UNCHANGED <<delegation, nextTask>>
  BY <1>1 DEF WriteAbove
<1>3. Calm /\ \A t \in TaskIds : task'[t] = task[t] \/ (t = p.bound /\ task'[t].bound = p.bound)
  BY <1>2, WritesEffect
<1>4. RunFine(p)  BY DEF Backing
<1>5. RunFine(q)'
  <2>1. p \in Spread  BY DEF IInv, TypeOK
  <2>2. q.task = p.task /\ q.rows = p.rows /\ q.pc = "down"  BY <1>1, <2>1 DEF Spread
  <2>3. RunFine(p)'  BY <1>3, <1>4, CalmRun
  <2> QED  BY <2>2, <2>3 DEF RunFine
<1>6. RunFine(s)'
  <2>1. Stands(p.bound)  BY <1>2, <1>4 DEF RunFine
  <2>2. Stands(p.bound)'  BY <1>3, <2>1, CalmTasks DEF Stands, Exists
  <2>3. s.task = p.bound /\ s.pc = "up" /\ s.rows = {}  BY <1>1 DEF Run
  <2> QED  BY <2>2, <2>3 DEF RunFine
<1>7. \A t \in TaskIds : IsCopy(t)' => Same(t)
  BY <1>3 DEF IsCopy, Personal, IsOpen, Same
<1>8. \A r \in spreading' : r \in spreading \/ RunFine(r)'  BY <1>2, <1>5, <1>6
<1>9. SpreadStep  BY DEF SpreadStep
<1> QED  BY <1>3, <1>7, <1>8, <1>9, BackingRuns

(* The rows that hang on a task are those of its owner's delegates, or of   *)
(* whom the step is assigned to.                                            *)
LEMMA BelowAllowed ==
    ASSUME IInv, Backing, NEW p \in spreading, NEW t \in Below(p)
    PROVE  Stands(t) /\ (t = p.task \/ Allowed(task[p.task].user, task[t].user, task[t].name))
<1>1. t \in TaskIds /\ IsOpen(t) /\ task[t].bound = p.task  BY DEF Below
<1>2. Stands(t)  BY <1>1 DEF Stands, Exists, IsOpen
<1>3. p.task # 0  BY DEF IInv, RunsGood, GoodSpread, Made
<1>4. CASE t # p.task /\ task[t].user # Assignee[task[t].name] /\ Sole(task[t].name)
  <2>1. IsCopy(t)  BY <1>1, <1>3, <1>4 DEF IsCopy, Personal, Sole
  <2>2. Backed(Owner(t), task[t].user) \/ Ending(Owner(t), task[t].user)
    BY <1>1, <2>1 DEF Backing, Copied
  <2>3. Backed(Owner(t), task[t].user)  BY <2>2, NoEndBeside
  <2> QED  BY <1>1, <1>2, <2>3 DEF Allowed, Owner
<1> QED  BY <1>2, <1>4 DEF Allowed

LEMMA BackingFindBelow ==
    ASSUME IInv, Backing, NEW p \in spreading, FindBelow(p)
    PROVE  Backing'
<1>1. PICK q : q = [p EXCEPT !.pc = "downWrite", !.rows = Below(p)]  OBVIOUS
<1>2. /\ \/ spreading' = spreading \ {p}
         \/ spreading' = (spreading \ {p}) \cup {q}
      /\ UNCHANGED <<task, delegation, nextTask>>
  BY <1>1 DEF FindBelow, Becomes, Ends
<1>3. Calm /\ \A t \in TaskIds : IsCopy(t)' => Same(t)  BY <1>2, SameCalm
<1>4. RunFine(q)
  <2>1. p \in Spread /\ RunFine(p)  BY DEF IInv, TypeOK, Backing
  <2>2. q.task = p.task /\ q.rows = Below(p) /\ q.pc = "downWrite"  BY <1>1, <2>1 DEF Spread
  <2> QED  BY <2>1, <2>2, BelowAllowed DEF RunFine
<1>5. RunFine(q)'
  <2>1. \A u, v, n : Allowed(u, v, n) <=> Allowed(u, v, n)'  BY <1>3, CalmBacked
  <2> QED  BY <1>2, <1>4, <2>1 DEF RunFine, Stands, Exists
<1>6. \A r \in spreading' : r \in spreading \/ RunFine(r)'  BY <1>2, <1>5
<1>7. SpreadStep  BY DEF SpreadStep
<1> QED  BY <1>3, <1>6, <1>7, BackingRuns

LEMMA BackingWriteBelow ==
    ASSUME IInv, Backing, NEW p \in spreading, NEW t \in p.rows, WriteBelow(p, t)
    PROVE  Backing'
<1>1. PICK q, s : q = [p EXCEPT !.rows = @ \ {t}] /\ s = Run(t, p.task, FALSE, NoHandler)  OBVIOUS
<1>2. /\ Writes(t, p, p.task)
      /\ \A r \in spreading' : r \in spreading \/ r = q \/ r = s
      /\ UNCHANGED <<delegation, nextTask>>
  BY <1>1 DEF WriteBelow
<1>3. Calm /\ \A k \in TaskIds : task'[k] = task[k] \/ (k = t /\ task'[k].bound = p.task)
  BY <1>2, WritesEffect
<1>4. RunFine(p) /\ p \in Spread  BY DEF Backing, IInv, TypeOK
<1>5. RunFine(p)'  BY <1>3, <1>4, CalmRun
<1>6. RunFine(q)'
  <2>1. q.task = p.task /\ q.rows = p.rows \ {t} /\ q.pc = p.pc /\ q.bound = p.bound
    BY <1>1, <1>4 DEF Spread
  <2> QED  BY <1>5, <2>1 DEF RunFine
<1>7. RunFine(s)'
  <2>1. Stands(t)'  BY <1>5 DEF RunFine
  <2>2. s.task = t /\ s.pc = "up" /\ s.rows = {}  BY <1>1 DEF Run
  <2> QED  BY <2>1, <2>2 DEF RunFine
<1>8. ASSUME NEW k \in TaskIds, IsCopy(k)' PROVE Same(k) \/ NewCopy(k)'
  <2>1. CASE task'[k] = task[k]  BY <1>8, <2>1 DEF IsCopy, Personal, IsOpen, Same
  <2>2. CASE k = t /\ task'[k].bound = p.task
    <3>1. PICK u, v, n : u = task'[p.task].user /\ v = task'[t].user /\ n = task'[t].name  OBVIOUS
    <3>2. k # p.task /\ v # Assignee[n] /\ Sole(n)  BY <1>8, <2>2, <3>1 DEF IsCopy, Personal, Sole
    <3>3. Allowed(u, v, n)'  BY <1>5, <2>2, <3>1, <3>2 DEF RunFine
    <3>4. Backed(u, v)'  BY <3>2, <3>3 DEF Allowed
    <3>5. Stands(p.task)'  BY <1>5 DEF RunFine
    <3> QED  BY <2>2, <3>1, <3>4, <3>5 DEF NewCopy, Owner
  <2> QED  BY <1>3, <2>1, <2>2
<1>9. \A r \in spreading' : r \in spreading \/ RunFine(r)'  BY <1>2, <1>6, <1>7
<1>10. SpreadStep  BY DEF SpreadStep
<1> QED  BY <1>3, <1>8, <1>9, <1>10, BackingRuns

LEMMA BackingSpread ==
    ASSUME IInv, Backing, SpreadStep
    PROVE  Backing'
BY BackingFindAbove, BackingWriteAbove, BackingFindBelow, BackingWriteBelow DEF SpreadStep

----------------------------------------------------------------------------
(* The goroutines of Trigger.                                               *)
LEMMA BackingCopies ==
    ASSUME IInv, Backing, Calm, UNCHANGED <<handler, spreading, nextDelegation>>,
           \A c \in copying' : c \in copying \/ CopyFine(c)',
           \A t \in TaskIds : IsCopy(t)' => Same(t) \/ NewCopy(t)'
    PROVE  Backing'
<1>1. Quiet'  BY DEF Backing, Quiet, Ends3
<1> QED  BY <1>1, BackingCalm

LEMMA BackingLooks ==
    ASSUME IInv, Backing, NEW c \in copying, FindCopyShare(c) \/ AddCopyShare(c) \/ FindCopy(c)
    PROVE  Backing'
<1>1. UNCHANGED <<task, delegation, nextTask, handler, spreading, nextDelegation>>
  BY DEF FindCopyShare, AddCopyShare, FindCopy
<1>2. Calm /\ \A t \in TaskIds : IsCopy(t)' => Same(t)  BY <1>1, SameCalm
<1>3. ASSUME NEW e \in copying' PROVE e \in copying \/ CopyFine(e)'
  <2>1. e \in copying \/ \E pc : e = [c EXCEPT !.pc = pc]
    BY DEF FindCopyShare, AddCopyShare, FindCopy, Goes
  <2>2. ASSUME NEW pc, e = [c EXCEPT !.pc = pc] PROVE CopyFine(e)'
    <3>1. c \in Copy /\ CopyFine(c)  BY DEF IInv, TypeOK, Backing
    <3>2. e.task = c.task /\ e.delegation = c.delegation  BY <2>2, <3>1 DEF Copy
    <3>3. CopyFine(e)  BY <3>1, <3>2 DEF CopyFine
    <3> QED  BY <1>2, <3>3, CalmCopy
  <2> QED  BY <2>1, <2>2
<1> QED  BY <1>1, <1>2, <1>3, BackingCopies

LEMMA BackingAddCopy ==
    ASSUME IInv, Backing, NEW c \in copying, AddCopy(c)
    PROVE  Backing'
<1>1. /\ copying' = copying \ {c}
      /\ UNCHANGED <<delegation, handler, spreading, nextDelegation>>
  BY DEF AddCopy
<1>2. c \in Copy /\ CopyFine(c)  BY DEF IInv, TypeOK, Backing
<1>3. CASE UNCHANGED <<task, nextTask>>
  <2>1. Calm /\ \A t \in TaskIds : IsCopy(t)' => Same(t)  BY <1>1, <1>3, SameCalm
  <2> QED  BY <1>1, <2>1, BackingCopies
<1>4. CASE ~UNCHANGED <<task, nextTask>>
  <2>1. PICK v, row : /\ v = delegation[c.delegation].to
                      /\ row = [task[c.task] EXCEPT !.state = "open", !.bound = c.task,
                                                     !.entity = NoEntity, !.user = v]
                      /\ AddTask(row)
    BY <1>4 DEF AddCopy
  <2>2. PICK n \in TaskIds : /\ n = nextTask /\ ~Exists(n) /\ n \notin Made
                             /\ \A t \in TaskIds : task'[t] = IF t = n THEN row ELSE task[t]
    BY <2>1, AddedRow
  <2>3. nextTask' = nextTask + 1  BY <2>1 DEF AddTask
  <2>4. Calm  BY <1>1, <2>2, <2>3, AddCalm
  <2>5. ASSUME NEW t \in TaskIds, IsCopy(t)' PROVE Same(t) \/ NewCopy(t)'
    <3>1. CASE t # n
      <4>1. task'[t] = task[t]  BY <2>2, <3>1
      <4> QED  BY <2>5, <4>1 DEF IsCopy, Personal, IsOpen, Same
    <3>2. CASE t = n
      <4>1. PICK o, u : o = c.task /\ u = task[o].user  OBVIOUS
      <4>3. task'[t].bound = o /\ task'[t].user = v /\ task'[t].name = task[o].name
        <5>1. task[c.task] \in TaskRow  BY <1>2, TaskRows DEF Copy
        <5>2. row.bound = c.task /\ row.user = v /\ row.name = task[c.task].name
          BY <2>1, <5>1 DEF TaskRow
        <5> QED  BY <2>2, <3>2, <4>1, <5>2
      <4>2. Stands(o) /\ Lasts(c.delegation) /\ delegation[c.delegation].from = u
        <5>1. Sole(task[c.task].name)  BY <2>5, <4>1, <4>3 DEF IsCopy, Personal, Sole
        <5> QED  BY <1>2, <4>1, <5>1 DEF CopyFine
      <4>4. Backed(u, v)
        <5>1. c.delegation \in Between(u, v)  BY <2>1, <4>2 DEF Between, Lasts
        <5> QED  BY <4>2, <5>1 DEF Backed
      <4>5. Stands(o)' /\ task'[o].user = u /\ Backed(u, v)'
        BY <2>4, <4>1, <4>2, <4>4, CalmTasks, CalmBacked
      <4> QED  BY <4>3, <4>5 DEF NewCopy, Owner
    <3> QED  BY <3>1, <3>2
  <2> QED  BY <1>1, <2>4, <2>5, BackingCopies
<1> QED  BY <1>3, <1>4

LEMMA BackingStutter ==
    ASSUME IInv, Backing, UNCHANGED vars
    PROVE  Backing'
<1>1. UNCHANGED <<task, delegation, nextTask, handler, spreading, copying, nextDelegation>>  BY DEF vars
<1>2. Calm /\ \A t \in TaskIds : IsCopy(t)' => Same(t)  BY <1>1, SameCalm
<1> QED  BY <1>1, <1>2, BackingCopies

LEMMA BackingProceed ==
    ASSUME IInv, Turnwise, Single, Backing, ~InsertsMayFail, NoChain, NEW h \in Handlers, Proceed(h)
    PROVE  Backing'
<1>1. CASE FindTask(h) \/ InsertTask(h) \/ GiveOwner(h) \/ Rebind(h) \/ GiveDelegates(h)
           \/ FindShare(h) \/ AddShare(h)
  BY <1>1, BackingFindTask, BackingInsert, BackingGiveOwner, BackingRebind, BackingGiveDelegates, BackingShare
<1>2. CASE UpdateTask(h) \/ RereadTask(h) \/ ReadRequest(h) \/ CheckOthers(h) \/ AdvanceRequest(h)
  BY <1>2, BackingUpdateTask, BackingReread, BackingRead, BackingOthers, BackingAdvance
<1>3. CASE Trigger(h) \/ DeleteShares(h) \/ FindRivals(h) \/ WithdrawCopies(h)
  BY <1>3, BackingTrigger, BackingDeleteShares, BackingFindRivals, BackingWithdraw
<1>4. ~InsertFails(h)  BY DEF InsertFails
<1> QED  BY <1>1, <1>2, <1>3, <1>4 DEF Proceed

LEMMA NextBacking ==
    ASSUME IInv, Turnwise, Single, Backing, Alone = Calls, ~InsertsMayFail, ~Daily, NoChain, [Next]_vars
    PROVE  Backing'
<1>1. CASE CopyStep  BY <1>1, BackingLooks, BackingAddCopy DEF CopyStep
<1>2. ASSUME NEW d \in DelegationIds, NEW w \in {"current", "past"}, Today(d, w) PROVE Backing'
  <2>1. AtRest  BY <1>2 DEF Today, Calls
  <2> QED  BY <1>2, <2>1, BackingToday
<1> QED  BY <1>1, <1>2, BackingCall, BackingProceed, BackingSpread, BackingStutter DEF Next

(* A delegate has an open copy of a step of no entity only while a          *)
(* delegation that has begun stands between him and the owner of the task   *)
(* it is bound to (delegation_service.go:172-189), whatever steps are given *)
(* to entities and copied with others': for every workflow, any number of   *)
(* users and delegations, several to one user and several between the same  *)
(* two, and whatever UPDATEs are refused.  It is assumed that every call    *)
(* waits until nobody is at work, that no INSERT is refused, that           *)
(* delegations end by hand, and that no delegate delegates in turn.         *)
THEOREM CopiesDelegatedCorrect ==
    ASSUME Alone = Calls, ~InsertsMayFail, ~Daily, NoChain
    PROVE  Spec => []CopiesDelegated
<1>1. Init => IInv /\ Turnwise /\ Single /\ Backing  BY Starts, InitSingle, InitBacking
<1>2. IInv /\ Turnwise /\ Single /\ Backing /\ [Next]_vars => (IInv /\ Turnwise /\ Single /\ Backing)'
  BY Keeps, NextSingle, NextBacking
<1>3. Backing => CopiesDelegated
  <2> SUFFICES ASSUME Backing, AtRest, NEW t \in TaskIds, IsCopy(t)
               PROVE  \E d \in Between(Owner(t), task[t].user) :
                         delegation[d].exists /\ delegation[d].window # "coming"
    BY DEF CopiesDelegated
  <2>1. PICK u, v : u = Owner(t) /\ v = task[t].user  OBVIOUS
  <2>2. Backed(u, v) \/ Ending(u, v)  BY <2>1 DEF Backing, Copied
  <2>3. ~Ending(u, v)  BY DEF Ending, AtRest, Ends3
  <2>4. Backed(u, v)  BY <2>2, <2>3
  <2> QED  BY <2>1, <2>4 DEF Backed, Lasts
<1> QED  BY <1>1, <1>2, <1>3, PTL DEF Spec

----------------------------------------------------------------------------
(***************************************************************************)
(* The shares of copies.  Where one delegation was ever made between two   *)
(* users, a copy has its share, or what creates tasks has it still to add  *)
(* (the share is the next thing to do after the copy), or the end of the   *)
(* delegation, which takes the share first, is about to take the copy.     *)
(***************************************************************************)
Pairs(u, v) == {d \in MadeDelegations : delegation[d].from = u /\ delegation[d].to = v}
Only(u, v) == \A d, e \in Pairs(u, v) : d = e
Has(u, v, r) == \E s \in share : s.from = u /\ s.to = v /\ s.request = r
Gives(y, u, v, r) == y.kind \in {"share", "addShare"} /\ y.delegation \in Pairs(u, v) /\ y.request = r
Due(T, u, v, r) == \E i \in 1 .. Len(T) : Gives(T[i], u, v, r)
Coming(u, v, r) == \E h \in Handlers : handler[h].pc = "create" /\ Due(handler[h].todo, u, v, r)
Sees(u, v, r) == Only(u, v) => Has(u, v, r) \/ Coming(u, v, r)

Needy(x) == x.kind \in {"create", "insert"} /\ x.bound # 0 /\ x.user # Assignee[x.name]
Pays(x, y) == x.bound \in Made /\ Gives(y, task[x.bound].user, x.user, x.request)
Paid(T) == \A i \in 1 .. Len(T) : Needy(T[i]) => i + 1 \in 1 .. Len(T) /\ Pays(T[i], T[i + 1])
RowShows(m) == /\ m.pc = "create" => Paid(m.todo)
               /\ m.pc \in Ends3 => ~delegation[m.delegation].exists
CopyShows(c) == c.pc \in {"look", "add"} /\ Sole(task[c.task].name) =>
                   Sees(task[c.task].user, delegation[c.delegation].to, task[c.task].request)
RunShows(p) == \A t \in p.rows : \/ t = p.task \/ task[t].user = Assignee[task[t].name]
                                 \/ ~Sole(task[t].name)
                                 \/ Sees(task[p.task].user, task[t].user, task[t].request)
TaskShows(t) == Sees(Owner(t), task[t].user, task[t].request)
Showing ==
    /\ \A s \in share : s.delegation \in Pairs(s.from, s.to)
    /\ \A h \in Handlers : RowShows(handler[h])
    /\ \A c \in copying : CopyShows(c)
    /\ \A p \in spreading : RunShows(p)
    /\ \A t \in TaskIds : IsCopy(t) => TaskShows(t) \/ Ending(Owner(t), task[t].user)

LEMMA InitShowing == ASSUME Init PROVE Showing
<1>1. \A t \in TaskIds : ~IsCopy(t)  BY DEF Init, IsCopy, Personal, IsOpen, NoTask
<1>2. share = {} /\ copying = {} /\ spreading = {} /\ \A h \in Handlers : handler[h] = Idle  BY DEF Init
<1>3. RowShows(Idle)  BY DEF RowShows, Idle, Ends3
<1> QED  BY <1>1, <1>2, <1>3 DEF Showing

(* A step that adds delegations, shares and tasks, and takes none.          *)
Wide == /\ \A u, v : Pairs(u, v) \subseteq Pairs(u, v)'
        /\ share \subseteq share' /\ Made \subseteq Made'
        /\ \A t \in Made : /\ task'[t].request = task[t].request /\ task'[t].name = task[t].name
                           /\ task'[t].user = task[t].user
        /\ \A u, v, r : Coming(u, v, r) => Has(u, v, r)' \/ Coming(u, v, r)'

LEMMA WideSees ==
    ASSUME Wide
    PROVE  \A u, v, r : Sees(u, v, r) => Sees(u, v, r)'
<1>1. \A u, v, r : Has(u, v, r) => Has(u, v, r)'  BY DEF Wide, Has
<1>2. \A u, v : Only(u, v)' => Only(u, v)  BY DEF Wide, Only
<1> QED  BY <1>1, <1>2 DEF Sees, Wide

LEMMA WidePaid ==
    ASSUME Wide
    PROVE  \A T : Paid(T) => Paid(T)'
<1>1. ASSUME NEW x, NEW y, Pays(x, y) PROVE Pays(x, y)'
  <2>1. PICK u : u = task[x.bound].user  OBVIOUS
  <2>2. x.bound \in Made' /\ task'[x.bound].user = u  BY <1>1, <2>1 DEF Pays, Wide
  <2>3. Gives(y, u, x.user, x.request)'  BY <1>1, <2>1 DEF Pays, Gives, Wide
  <2> QED  BY <2>2, <2>3 DEF Pays
<1> SUFFICES ASSUME NEW T, Paid(T), NEW i \in 1 .. Len(T), Needy(T[i])
             PROVE  i + 1 \in 1 .. Len(T) /\ Pays(T[i], T[i + 1])'
  BY DEF Paid, Needy
<1>2. i + 1 \in 1 .. Len(T) /\ Pays(T[i], T[i + 1])  BY DEF Paid
<1>3. PICK x, y : x = T[i] /\ y = T[i + 1]  OBVIOUS
<1>4. Pays(x, y)'  BY <1>1, <1>2, <1>3
<1> QED  BY <1>2, <1>3, <1>4

LEMMA ShowingKept ==
    ASSUME IInv, Backing, Showing, Wide,
           \A s \in share' : s \in share \/ s.delegation \in Pairs(s.from, s.to)',
           \A g \in Handlers : RowShows(handler[g])',
           copying' = {} \/ UNCHANGED delegation,
           \A c \in copying' : c \in copying \/ CopyShows(c)',
           \A p \in spreading' : p \in spreading \/ RunShows(p)',
           \A u, v : Ending(u, v) => Ending(u, v)',
           \A t \in TaskIds : IsCopy(t)' => Same(t) \/ TaskShows(t)'
    PROVE  Showing'
<1>1. \A s \in share' : s.delegation \in Pairs(s.from, s.to)'  BY DEF Showing, Wide
<1>2. \A u, v, r : Sees(u, v, r) => Sees(u, v, r)'  BY WideSees
<1>3. ASSUME NEW c \in copying' PROVE CopyShows(c)'
  <2>1. CASE CopyShows(c)'  BY <2>1
  <2>2. CASE c \in copying /\ UNCHANGED delegation
    <3>1. PICK u, v, r, n : u = task[c.task].user /\ v = delegation[c.delegation].to
                            /\ r = task[c.task].request /\ n = task[c.task].name
      OBVIOUS
    <3>2. c.task \in Made  BY <2>2 DEF IInv, RunsGood, GoodCopy
    <3>3. /\ task'[c.task].user = u /\ delegation'[c.delegation].to = v /\ task'[c.task].request = r
          /\ task'[c.task].name = n
      BY <2>2, <3>1, <3>2 DEF Wide
    <3>4. c.pc \in {"look", "add"} /\ Sole(n) => Sees(u, v, r)
      BY <2>2, <3>1 DEF Showing, CopyShows
    <3>5. c.pc \in {"look", "add"} /\ Sole(n) => Sees(u, v, r)'  BY <1>2, <3>4
    <3> QED  BY <3>3, <3>5 DEF CopyShows, Sole
  <2> QED  BY <2>1, <2>2
<1>4. ASSUME NEW p \in spreading' PROVE RunShows(p)'
  <2>1. CASE RunShows(p)'  BY <2>1
  <2>2. CASE p \in spreading
    <3> SUFFICES ASSUME NEW t \in p.rows
                 PROVE  (\/ t = p.task \/ task[t].user = Assignee[task[t].name]
                         \/ ~Sole(task[t].name)
                         \/ Sees(task[p.task].user, task[t].user, task[t].request))'
      BY DEF RunShows
    <3>1. PICK u, v, r, n : u = task[p.task].user /\ v = task[t].user /\ r = task[t].request
                            /\ n = task[t].name
      OBVIOUS
    <3>2. p.task \in Made /\ t \in Made  BY <2>2 DEF IInv, RunsGood, GoodSpread, Kin, Of
    <3>3. task'[p.task].user = u /\ task'[t].user = v /\ task'[t].request = r /\ task'[t].name = n
      BY <3>1, <3>2 DEF Wide
    <3>4. t = p.task \/ v = Assignee[n] \/ ~Sole(n) \/ Sees(u, v, r)
      BY <2>2, <3>1 DEF Showing, RunShows
    <3>5. t = p.task \/ v = Assignee[n] \/ ~Sole(n) \/ Sees(u, v, r)'  BY <1>2, <3>4
    <3> QED  BY <3>3, <3>5 DEF Sole
  <2> QED  BY <2>1, <2>2
<1>5. ASSUME NEW t \in TaskIds, IsCopy(t)' PROVE TaskShows(t)' \/ Ending(Owner(t), task[t].user)'
  <2>1. CASE TaskShows(t)'  BY <2>1
  <2>2. CASE Same(t)
    <3>1. PICK o, u, v, r : o = task[t].bound /\ u = task[o].user /\ v = task[t].user
                            /\ r = task[t].request
      OBVIOUS
    <3>2. Stands(o) /\ t \in Made
      BY <2>2, <3>1, ExistsMade DEF Backing, Copied, Same, IsCopy, Personal, IsOpen, Exists
    <3>3. o \in Made  BY <3>2, StandsMade
    <3>4. task'[t].bound = o /\ task'[o].user = u /\ task'[t].user = v /\ task'[t].request = r
      BY <2>2, <3>1, <3>2, <3>3 DEF Same, Wide
    <3>5. Sees(u, v, r) \/ Ending(u, v)  BY <2>2, <3>1 DEF Showing, TaskShows, Owner, Same
    <3>6. Sees(u, v, r)' \/ Ending(u, v)'  BY <1>2, <3>5
    <3> QED  BY <3>4, <3>6 DEF TaskShows, Owner
  <2> QED  BY <1>5, <2>1, <2>2
<1> QED  BY <1>1, <1>3, <1>4, <1>5 DEF Showing

(* Calm steps are wide, and a call's row stays as it was.                   *)
LEMMA CalmWide ==
    ASSUME Calm, UNCHANGED nextDelegation, share \subseteq share',
           \A u, v, r : Coming(u, v, r) => Has(u, v, r)' \/ Coming(u, v, r)'
    PROVE  Wide
BY DEF Calm, Wide, Pairs, MadeDelegations

LEMMA SameShows ==
    ASSUME Wide, UNCHANGED delegation, NEW m, RowShows(m)
    PROVE  RowShows(m)'
<1>1. m.pc = "create" => Paid(m.todo)'  BY WidePaid DEF RowShows
<1> QED  BY <1>1 DEF RowShows, Ends3

----------------------------------------------------------------------------
LEMMA IdleShows == RowShows(Idle)'
BY DEF RowShows, Idle, Ends3

(* A call that is not creating, or about to, leaves the stacks alone.       *)
LEMMA RowWaits ==
    ASSUME IInv, NEW h \in Handlers, NEW m, handler' = [handler EXCEPT ![h] = m],
           handler[h].pc # "create"
    PROVE  \A u, v, r : (\A d : d \in Pairs(u, v) => d \in Pairs(u, v)')
                        => (Coming(u, v, r) => Coming(u, v, r)')
<1> SUFFICES ASSUME NEW u, NEW v, NEW r, \A d : d \in Pairs(u, v) => d \in Pairs(u, v)', Coming(u, v, r)
             PROVE  Coming(u, v, r)'
  OBVIOUS
<1>1. PICK g \in Handlers : handler[g].pc = "create" /\ Due(handler[g].todo, u, v, r)  BY DEF Coming
<1>2. handler'[g] = handler[g]
  <2>1. g # h  BY <1>1
  <2> QED  BY <2>1, OneRow
<1>3. PICK i \in 1 .. Len(handler[g].todo) : Gives(handler[g].todo[i], u, v, r)  BY <1>1 DEF Due
<1>4. PICK k : k = handler[g]  OBVIOUS
<1>5. Gives(k.todo[i], u, v, r)'  BY <1>3, <1>4 DEF Gives
<1>6. i \in 1 .. Len(k.todo)  BY <1>3, <1>4
<1>7. Due(k.todo, u, v, r)'  BY <1>5, <1>6 DEF Due
<1>8. handler'[g] = k /\ k.pc = "create"  BY <1>1, <1>2, <1>4
<1> QED  BY <1>7, <1>8 DEF Coming

(* A call's own step, which adds no share.                                  *)
LEMMA ShowingRow ==
    ASSUME IInv, Backing, Showing, Calm, UNCHANGED <<share, nextDelegation>>,
           NEW h \in Handlers, NEW m, handler' = [handler EXCEPT ![h] = m],
           handler[h].pc \notin Ends3 \cup {"create"}, RowShows(m)',
           \A c \in copying' : c \in copying \/ CopyShows(c)',
           \A p \in spreading' : p \in spreading \/ RunShows(p)',
           \A t \in TaskIds : IsCopy(t)' => Same(t)
    PROVE  Showing'
<1>1. \A g \in Handlers : handler'[g] = IF g = h THEN m ELSE handler[g]  BY OneRow
<1>2. \A u, v : Between(u, v)' = Between(u, v) /\ Pairs(u, v)' = Pairs(u, v)
  BY DEF Calm, Between, Pairs, MadeDelegations
<1>3. \A u, v, r : Coming(u, v, r) => Coming(u, v, r)'  BY <1>2, RowWaits
<1>4. Wide  BY <1>3, CalmWide
<1>5. ASSUME NEW g \in Handlers PROVE RowShows(handler[g])'
  <2>1. CASE g = h
    <3>1. handler'[g] = m  BY <1>1, <2>1
    <3> QED  BY <3>1
  <2>2. CASE g # h
    <3>1. PICK k : k = handler[g]  OBVIOUS
    <3>2. RowShows(k)  BY <3>1 DEF Showing
    <3>3. RowShows(k)'  BY <1>4, <3>2, SameShows DEF Calm
    <3>4. handler'[g] = k  BY <1>1, <2>2, <3>1
    <3> QED  BY <3>3, <3>4
  <2> QED  BY <2>1, <2>2
<1>6. ASSUME NEW u, NEW v, Ending(u, v) PROVE Ending(u, v)'
  <2>1. PICK g \in Handlers : handler[g].pc \in Ends3 /\ handler[g].delegation \in Between(u, v)
    BY <1>6 DEF Ending
  <2>2. handler'[g] = handler[g]  BY <1>1, <2>1
  <2> QED  BY <1>2, <2>1, <2>2 DEF Ending, Ends3
<1>7. UNCHANGED delegation  BY DEF Calm
<1> QED  BY <1>4, <1>5, <1>6, <1>7, ShowingKept

(* A call that starts when nobody is at work.                               *)
LEMMA ShowingRest ==
    ASSUME IInv, Backing, Showing, AtRest, UNCHANGED <<task, nextTask, share, copying, spreading>>,
           \A u, v : Pairs(u, v) \subseteq Pairs(u, v)',
           \A g \in Handlers : RowShows(handler[g])'
    PROVE  Showing'
<1>1. \A u, v, r : ~Coming(u, v, r)  BY DEF Coming, AtRest
<1>2. \A u, v : ~Ending(u, v)  BY DEF Ending, AtRest, Ends3
<1>3. Made' = Made  BY DEF Made
<1>4. Wide  BY <1>1, <1>3 DEF Wide
<1>5. copying' = {} /\ spreading' = {}  BY DEF AtRest
<1>6. \A t \in TaskIds : IsCopy(t)' => Same(t)  BY DEF IsCopy, Personal, IsOpen, Same
<1> QED  BY <1>2, <1>4, <1>5, <1>6, ShowingKept

LEMMA ShowsRest ==
    ASSUME IInv, AtRest, NEW h \in Handlers, NEW m, handler' = [handler EXCEPT ![h] = m], RowShows(m)'
    PROVE  \A g \in Handlers : RowShows(handler[g])'
<1> SUFFICES ASSUME NEW g \in Handlers PROVE RowShows(handler[g])'  OBVIOUS
<1>1. \A k \in Handlers : handler'[k] = IF k = h THEN m ELSE handler[k]  BY OneRow
<1>2. CASE g = h
  <2>1. handler'[g] = m  BY <1>1, <1>2
  <2> QED  BY <2>1
<1>3. CASE g # h
  <2>1. handler'[g].pc = "idle"  BY <1>1, <1>3 DEF AtRest
  <2> QED  BY <2>1 DEF RowShows, Ends3
<1> QED  BY <1>2, <1>3

(* First things to do are bound to nothing.                                 *)
LEMMA FirstPaid ==
    ASSUME NEW items \in Seq(Item), NEW r,
           \A i \in 1 .. Len(items) : \E a \in Names : items[i] = Create(r, a, Assignee[a], 0, 0)
    PROVE  Paid(items)
<1> SUFFICES ASSUME NEW i \in 1 .. Len(items), Needy(items[i]) PROVE FALSE  BY DEF Paid
<1>1. PICK a \in Names : items[i] = Create(r, a, Assignee[a], 0, 0)  OBVIOUS
<1>2. items[i].bound = 0  BY <1>1 DEF Create
<1> QED  BY <1>2 DEF Needy

LEMMA FirstShows ==
    ASSUME NEW items \in Seq(Item), NEW r, NEW m,
           \A i \in 1 .. Len(items) : \E a \in Names : items[i] = Create(r, a, Assignee[a], 0, 0),
           m = Idle \/ (m.pc = "create" /\ m.todo = items), Wide
    PROVE  RowShows(m)'
<1>1. CASE m = Idle  BY <1>1, IdleShows
<1>2. CASE m.pc = "create" /\ m.todo = items
  <2>1. Paid(items)'  BY FirstPaid, WidePaid
  <2> QED  BY <1>2, <2>1 DEF RowShows, Ends3
<1> QED  BY <1>1, <1>2

LEMMA ShowingOpen ==
    ASSUME IInv, Backing, Showing, AtRest, NEW h \in Handlers, NEW u \in Users, NEW r \in RequestIds,
           OpenRequest(h, u, r)
    PROVE  Showing'
<1>1. PICK m, items :
         /\ handler' = [handler EXCEPT ![h] = m]
         /\ items \in Seq(Item)
         /\ \A i \in 1 .. Len(items) : \E a \in Names : items[i] = Create(r, a, Assignee[a], 0, 0)
         /\ m = Idle \/ (m.pc = "create" /\ m.todo = items /\ items # <<>> /\ m.bound = 0)
  BY OpenEffect
<1>2. UNCHANGED <<task, delegation, nextDelegation, share, nextTask, copying, spreading>>
  BY DEF OpenRequest
<1>3. Wide
  <2>1. \A v, w, q : ~Coming(v, w, q)  BY DEF Coming, AtRest
  <2> QED  BY <1>2, <2>1 DEF Wide, Made, Pairs, MadeDelegations
<1>4. RowShows(m)'  BY <1>1, <1>3, FirstShows
<1>5. \A g \in Handlers : RowShows(handler[g])'  BY <1>1, <1>4, ShowsRest
<1>6. \A v, w : Pairs(v, w) \subseteq Pairs(v, w)'  BY <1>3 DEF Wide
<1> QED  BY <1>2, <1>5, <1>6, ShowingRest

LEMMA ShowingSubmit ==
    ASSUME IInv, Backing, Showing, AtRest, NEW h \in Handlers, NEW u, NEW t, SubmitTask(h, u, t)
    PROVE  Showing'
<1>1. PICK m : m = [Idle EXCEPT !.pc = "update", !.user = u, !.task = t]  OBVIOUS
<1>2. handler' = [handler EXCEPT ![h] = m]  BY <1>1 DEF SubmitTask
<1>3. m.pc = "update"  BY <1>1 DEF Idle
<1>4. RowShows(m)'  BY <1>3 DEF RowShows, Ends3
<1>5. \A g \in Handlers : RowShows(handler[g])'  BY <1>2, <1>4, ShowsRest
<1>6. UNCHANGED <<task, nextTask, share, delegation, nextDelegation, copying, spreading>>
  BY DEF SubmitTask
<1>7. \A v, w : Pairs(v, w) \subseteq Pairs(v, w)'  BY <1>6 DEF Pairs, MadeDelegations
<1> QED  BY <1>5, <1>6, <1>7, ShowingRest

LEMMA TriggersShow ==
    ASSUME IInv, AtRest, NEW h \in Handlers, NEW u, NEW d, Triggers(h, u, d)
    PROVE  \A g \in Handlers : RowShows(handler[g])'
<1>1. PICK w : w = [Idle EXCEPT !.pc = "trigger", !.user = u, !.delegation = d]  OBVIOUS
<1>2. PICK m \in {Idle, w} : handler' = [handler EXCEPT ![h] = m]  BY <1>1 DEF Triggers
<1>3. w.pc = "trigger"  BY <1>1 DEF Idle
<1>4. RowShows(w)'  BY <1>3 DEF RowShows, Ends3
<1>5. RowShows(m)'
  <2>1. CASE m = Idle  BY <2>1, IdleShows
  <2>2. CASE m = w  BY <1>4, <2>2
  <2> QED  BY <1>2, <2>1, <2>2
<1> QED  BY <1>2, <1>5, ShowsRest

LEMMA ShowingCreateDelegation ==
    ASSUME IInv, Backing, Showing, AtRest, NEW h \in Handlers, NEW u \in Users, NEW v \in Users,
           NEW t \in {0} \cup TaskIds, NEW w \in {"coming", "current"}, CreateDelegation(h, u, v, t, w)
    PROVE  Showing'
<1>1. PICK n, row :
         /\ n \in DelegationIds /\ n = nextDelegation /\ nextDelegation' = nextDelegation + 1
         /\ \A d \in DelegationIds : delegation'[d] = IF d = n THEN row ELSE delegation[d]
  <2>1. nextDelegation \in DelegationIds  BY Sizes DEF CreateDelegation, IInv, TypeOK
  <2> QED  BY <2>1 DEF CreateDelegation, IInv, TypeOK
<1>2. UNCHANGED <<task, nextTask, share, copying, spreading>> /\ Triggers(h, u, n)
  BY <1>1 DEF CreateDelegation
<1>3. n \notin MadeDelegations /\ MadeDelegations' = MadeDelegations \cup {n}
  <2>1. n \in Int  BY <1>1
  <2> QED  BY <1>1, <2>1 DEF MadeDelegations
<1>4. \A d \in MadeDelegations : delegation'[d] = delegation[d]  BY <1>1, <1>3 DEF MadeDelegations
<1>5. \A a, c : Pairs(a, c) \subseteq Pairs(a, c)'  BY <1>3, <1>4 DEF Pairs
<1>6. \A g \in Handlers : RowShows(handler[g])'  BY <1>2, TriggersShow
<1> QED  BY <1>2, <1>5, <1>6, ShowingRest

LEMMA ShowingUpdateDelegation ==
    ASSUME IInv, Backing, Showing, AtRest, NEW h \in Handlers, NEW u, NEW d, UpdateDelegation(h, u, d)
    PROVE  Showing'
<1>1. UNCHANGED <<task, nextTask, share, nextDelegation, delegation, copying, spreading>> /\ Triggers(h, u, d)
  BY DEF UpdateDelegation
<1>2. \A g \in Handlers : RowShows(handler[g])'  BY <1>1, TriggersShow
<1>3. \A a, c : Pairs(a, c) \subseteq Pairs(a, c)'  BY <1>1 DEF Pairs, MadeDelegations
<1> QED  BY <1>1, <1>2, <1>3, ShowingRest

(* A delegation's row is written, but not whom it is between.               *)
LEMMA PairsWritten ==
    ASSUME IInv, NEW d \in DelegationIds, NEW row, UNCHANGED nextDelegation,
           \A e \in DelegationIds : delegation'[e] = IF e = d THEN row ELSE delegation[e],
           row.from = delegation[d].from, row.to = delegation[d].to
    PROVE  \A a, c : Pairs(a, c) \subseteq Pairs(a, c)'
<1>1. \A e \in MadeDelegations : e \in DelegationIds /\ e \in MadeDelegations'  BY DEF MadeDelegations
<1> QED  BY <1>1 DEF Pairs

LEMMA ShowingToday ==
    ASSUME IInv, Backing, Showing, AtRest, NEW d \in DelegationIds, NEW w, Today(d, w)
    PROVE  Showing'
<1>1. PICK row : row = [delegation[d] EXCEPT !.window = w]  OBVIOUS
<1>2. \A e \in DelegationIds : delegation'[e] = IF e = d THEN row ELSE delegation[e]
  BY <1>1 DEF Today, IInv, TypeOK
<1>3. row.from = delegation[d].from /\ row.to = delegation[d].to
  BY <1>1, TaskRows DEF DelegationRow
<1>4. UNCHANGED <<task, nextTask, share, nextDelegation, handler, copying, spreading>>  BY DEF Today
<1>5. \A a, c : Pairs(a, c) \subseteq Pairs(a, c)'  BY <1>2, <1>3, <1>4, PairsWritten
<1>6. ASSUME NEW g \in Handlers PROVE RowShows(handler[g])'
  <2>1. handler'[g].pc = "idle"  BY <1>4 DEF AtRest
  <2> QED  BY <2>1 DEF RowShows, Ends3
<1> QED  BY <1>4, <1>5, <1>6, ShowingRest

LEMMA ShowingDelete ==
    ASSUME IInv, Backing, Showing, AtRest, NEW h \in Handlers, NEW u \in Users, NEW d \in DelegationIds,
           DeleteDelegation(h, u, d)
    PROVE  Showing'
<1>1. PICK row, m : /\ row = [delegation[d] EXCEPT !.exists = FALSE]
                    /\ m = [Idle EXCEPT !.pc = "unshare", !.user = u, !.delegation = d]
  OBVIOUS
<1>2. /\ handler' = [handler EXCEPT ![h] = m]
      /\ \A e \in DelegationIds : delegation'[e] = IF e = d THEN row ELSE delegation[e]
      /\ UNCHANGED <<task, nextTask, share, nextDelegation, copying, spreading>>
  BY <1>1 DEF DeleteDelegation, DeletesRow, IInv, TypeOK
<1>3. row.from = delegation[d].from /\ row.to = delegation[d].to /\ row.exists = FALSE
  BY <1>1, TaskRows DEF DelegationRow
<1>4. m.pc = "unshare" /\ m.delegation = d  BY <1>1 DEF Idle
<1>5. RowShows(m)'
  <2>1. delegation'[m.delegation].exists = FALSE  BY <1>2, <1>3, <1>4
  <2> QED  BY <1>4, <2>1 DEF RowShows, Ends3
<1>6. \A g \in Handlers : RowShows(handler[g])'  BY <1>2, <1>5, ShowsRest
<1>7. \A a, c : Pairs(a, c) \subseteq Pairs(a, c)'  BY <1>2, <1>3, PairsWritten
<1> QED  BY <1>2, <1>6, <1>7, ShowingRest

LEMMA ShowingCall ==
    ASSUME IInv, Backing, Showing, Alone = Calls, ~Daily, NEW h \in Handlers, Call(h)
    PROVE  Showing'
<1>1. AtRest
  <2>1. \A call \in Calls : Accept(h, call) => AtRest  BY DEF Accept
  <2> QED  BY <2>1 DEF Call, Calls, OpenRequest, SubmitTask, CreateDelegation, UpdateDelegation,
                   DeleteDelegation, ExpireDaily, TriggerDaily, DeletesRow
<1>2. ASSUME NEW u \in Users, NEW r \in RequestIds, OpenRequest(h, u, r) PROVE Showing'
  BY <1>1, <1>2, ShowingOpen
<1>3. ASSUME NEW u \in Users, NEW t \in TaskIds, SubmitTask(h, u, t) PROVE Showing'
  BY <1>1, <1>3, ShowingSubmit
<1>4. ASSUME NEW u \in Users, NEW v \in Users, NEW w \in {"coming", "current"},
             NEW t \in {0} \cup (IF Singles THEN TaskIds ELSE {}), CreateDelegation(h, u, v, t, w)
      PROVE  Showing'
  <2>1. t \in {0} \cup TaskIds  OBVIOUS
  <2> QED  BY <1>1, <1>4, <2>1, ShowingCreateDelegation
<1>5. ASSUME NEW u \in Users, NEW d \in DelegationIds, UpdateDelegation(h, u, d) \/ DeleteDelegation(h, u, d)
      PROVE  Showing'
  BY <1>1, <1>5, ShowingUpdateDelegation, ShowingDelete
<1>6. \A d \in DelegationIds : ~ExpireDaily(h, d) /\ ~TriggerDaily(h, d)  BY DEF ExpireDaily, TriggerDaily
<1> QED  BY <1>2, <1>3, <1>4, <1>5, <1>6 DEF Call

----------------------------------------------------------------------------
(* Stacks: after a copy comes its share.                                    *)
LEMMA TailAt ==
    ASSUME NEW S, NEW T \in Seq(S), T # <<>>
    PROVE  /\ Len(T) \in Nat /\ Len(T) >= 1 /\ Len(Tail(T)) = Len(T) - 1 /\ Head(T) = T[1]
           /\ \A i \in 1 .. Len(T) - 1 : Tail(T)[i] = T[i + 1]
OBVIOUS

LEMMA PaidRest ==
    ASSUME NEW T \in Seq(Item), T # <<>>, Paid(T)
    PROVE  /\ Paid(Tail(T))
           /\ Needy(Head(T)) => Tail(T) # <<>> /\ Pays(Head(T), Head(Tail(T)))
<1>1. /\ Len(T) \in Nat /\ Len(T) >= 1 /\ Len(Tail(T)) = Len(T) - 1 /\ Head(T) = T[1]
      /\ \A i \in 1 .. Len(T) - 1 : Tail(T)[i] = T[i + 1]
  BY TailAt
<1>2. PICK U, n : U = Tail(T) /\ n = Len(T)  OBVIOUS
<1>3. ASSUME NEW i \in 1 .. Len(U), Needy(U[i]) PROVE i + 1 \in 1 .. Len(U) /\ Pays(U[i], U[i + 1])
  <2>1. i \in 1 .. n - 1 /\ i + 1 \in 1 .. n /\ U[i] = T[i + 1]  BY <1>1, <1>2
  <2>2. i + 1 + 1 \in 1 .. n /\ Pays(T[i + 1], T[i + 1 + 1])  BY <1>2, <1>3, <2>1 DEF Paid
  <2>3. i + 1 \in 1 .. n - 1  BY <1>1, <1>2, <2>1, <2>2
  <2>4. U[i + 1] = T[i + 1 + 1]  BY <1>1, <1>2, <2>3
  <2> QED  BY <1>1, <1>2, <2>1, <2>2, <2>3, <2>4
<1>4. ASSUME Needy(Head(T)) PROVE Tail(T) # <<>> /\ Pays(Head(T), Head(Tail(T)))
  <2>1. 1 \in 1 .. n /\ Needy(T[1])  BY <1>1, <1>2, <1>4
  <2>2. 1 + 1 \in 1 .. n /\ Pays(T[1], T[1 + 1])  BY <1>2, <2>1 DEF Paid
  <2>3. n >= 2  BY <1>1, <1>2, <2>2
  <2>4. U \in Seq(Item) /\ U # <<>>
    <3>1. U \in Seq(Item) /\ Len(U) = n - 1 /\ n \in Nat  BY <1>1, <1>2
    <3>2. Len(U) # 0  BY <2>3, <3>1
    <3> QED  BY <3>1, <3>2
  <2>5. Head(U) = U[1]  BY <2>4
  <2>6. U[1] = T[1 + 1]  BY <1>1, <1>2, <2>3
  <2> QED  BY <1>1, <1>2, <2>2, <2>4, <2>5, <2>6
<1> QED  BY <1>2, <1>3, <1>4 DEF Paid

LEMMA JoinAt ==
    ASSUME NEW S, NEW a \in Seq(S), NEW b \in Seq(S)
    PROVE  /\ Len(a) \in Nat /\ Len(b) \in Nat /\ Len(a \o b) = Len(a) + Len(b)
           /\ \A i \in 1 .. Len(a) : (a \o b)[i] = a[i]
           /\ \A i \in 1 .. Len(b) : (a \o b)[Len(a) + i] = b[i]
OBVIOUS

LEMMA PaidJoin ==
    ASSUME NEW a \in Seq(Item), NEW b \in Seq(Item), Paid(a), Paid(b)
    PROVE  Paid(a \o b)
<1>1. PICK c : c = a \o b  OBVIOUS
<1>2. /\ Len(a) \in Nat /\ Len(b) \in Nat /\ Len(c) = Len(a) + Len(b)
      /\ \A i \in 1 .. Len(a) : c[i] = a[i]
      /\ \A i \in 1 .. Len(b) : c[Len(a) + i] = b[i]
  BY <1>1, JoinAt
<1>3. ASSUME NEW i \in 1 .. Len(c), Needy(c[i]) PROVE i + 1 \in 1 .. Len(c) /\ Pays(c[i], c[i + 1])
  <2>1. CASE i \in 1 .. Len(a)
    <3>1. c[i] = a[i]  BY <1>2, <2>1
    <3>2. i + 1 \in 1 .. Len(a) /\ Pays(a[i], a[i + 1])  BY <1>3, <2>1, <3>1 DEF Paid
    <3>3. c[i + 1] = a[i + 1]  BY <1>2, <3>2
    <3>4. i + 1 \in 1 .. Len(c)  BY <1>2, <3>2
    <3> QED  BY <3>1, <3>2, <3>3, <3>4
  <2>2. CASE i \notin 1 .. Len(a)
    <3>1. PICK j \in 1 .. Len(b) : i = Len(a) + j
      <4>1. i - Len(a) \in 1 .. Len(b) /\ i = Len(a) + (i - Len(a))  BY <1>2, <2>2
      <4> QED  BY <4>1
    <3>2. c[i] = b[j]  BY <1>2, <3>1
    <3>3. j + 1 \in 1 .. Len(b) /\ Pays(b[j], b[j + 1])  BY <1>3, <3>2 DEF Paid
    <3>4. c[Len(a) + (j + 1)] = b[j + 1]  BY <1>2, <3>3
    <3>5. i + 1 = Len(a) + (j + 1) /\ i + 1 \in 1 .. Len(c)  BY <1>2, <3>1, <3>3
    <3> QED  BY <3>2, <3>3, <3>4, <3>5
  <2> QED  BY <2>1, <2>2
<1> QED  BY <1>1, <1>3 DEF Paid

LEMMA PaidOne ==
    ASSUME NEW y \in Item, NEW T \in Seq(Item), Paid(T), Needy(y) => T # <<>> /\ Pays(y, Head(T))
    PROVE  Paid(<<y>> \o T)
<1>1. PICK a, c : a = <<y>> /\ c = a \o T  OBVIOUS
<1>2. a \in Seq(Item) /\ Len(a) = 1 /\ a[1] = y  BY <1>1
<1>3. /\ Len(T) \in Nat /\ Len(c) = 1 + Len(T)
      /\ \A i \in 1 .. 1 : c[i] = a[i]
      /\ \A i \in 1 .. Len(T) : c[1 + i] = T[i]
  BY <1>1, <1>2, JoinAt
<1>4. ASSUME NEW i \in 1 .. Len(c), Needy(c[i]) PROVE i + 1 \in 1 .. Len(c) /\ Pays(c[i], c[i + 1])
  <2>1. CASE i = 1
    <3>1. c[i] = y  BY <1>2, <1>3, <2>1
    <3>2. T # <<>> /\ Pays(y, Head(T))  BY <1>4, <3>1
    <3>3. Len(T) >= 1 /\ Head(T) = T[1]  BY <3>2
    <3>4. c[1 + 1] = T[1]  BY <1>3, <3>3
    <3> QED  BY <1>3, <2>1, <3>1, <3>2, <3>3, <3>4
  <2>2. CASE i # 1
    <3>1. PICK j \in 1 .. Len(T) : i = 1 + j
      <4>1. i - 1 \in 1 .. Len(T) /\ i = 1 + (i - 1)  BY <1>3, <2>2
      <4> QED  BY <4>1
    <3>2. c[i] = T[j]  BY <1>3, <3>1
    <3>3. j + 1 \in 1 .. Len(T) /\ Pays(T[j], T[j + 1])  BY <1>4, <3>2 DEF Paid
    <3>4. c[1 + (j + 1)] = T[j + 1]  BY <1>3, <3>3
    <3>5. i + 1 = 1 + (j + 1) /\ i + 1 \in 1 .. Len(c)  BY <1>3, <3>1, <3>3
    <3> QED  BY <3>2, <3>3, <3>4, <3>5
  <2> QED  BY <2>1, <2>2
<1> QED  BY <1>1, <1>4 DEF Paid

LEMMA DueJoin ==
    ASSUME NEW a \in Seq(Item), NEW b \in Seq(Item), NEW u, NEW v, NEW r
    PROVE  Due(b, u, v, r) => Due(a \o b, u, v, r)
<1>1. PICK c : c = a \o b  OBVIOUS
<1>2. /\ Len(a) \in Nat /\ Len(b) \in Nat /\ Len(c) = Len(a) + Len(b)
      /\ \A i \in 1 .. Len(b) : c[Len(a) + i] = b[i]
  BY <1>1, JoinAt
<1> SUFFICES ASSUME NEW i \in 1 .. Len(b), Gives(b[i], u, v, r) PROVE Due(c, u, v, r)
  BY <1>1 DEF Due
<1>3. PICK j : j = Len(a) + i  OBVIOUS
<1>4. c[j] = b[i] /\ j \in 1 .. Len(c)  BY <1>2, <1>3
<1> QED  BY <1>4 DEF Due

LEMMA DueFirst ==
    ASSUME NEW T \in Seq(Item), T # <<>>, NEW u, NEW v, NEW r
    PROVE  /\ Due(T, u, v, r) => Gives(Head(T), u, v, r) \/ Due(Tail(T), u, v, r)
           /\ Gives(Head(T), u, v, r) => Due(T, u, v, r)
<1>1. /\ Len(T) \in Nat /\ Len(T) >= 1 /\ Len(Tail(T)) = Len(T) - 1 /\ Head(T) = T[1]
      /\ \A i \in 1 .. Len(T) - 1 : Tail(T)[i] = T[i + 1]
  BY TailAt
<1>2. ASSUME NEW i \in 1 .. Len(T), Gives(T[i], u, v, r), i # 1 PROVE Due(Tail(T), u, v, r)
  <2>1. PICK j : j = i - 1  OBVIOUS
  <2>2. j \in 1 .. Len(T) - 1 /\ j + 1 = i  BY <1>1, <1>2, <2>1
  <2>3. Tail(T)[j] = T[i] /\ j \in 1 .. Len(Tail(T))  BY <1>1, <2>2
  <2> QED  BY <1>2, <2>3 DEF Due
<1>3. 1 \in 1 .. Len(T)  BY <1>1
<1> QED  BY <1>1, <1>2, <1>3 DEF Due

(* What a call does next, when a stack is left.                             *)
LEMMA StackGoes ==
    ASSUME IInv, NEW h \in Handlers, handler[h].pc = "create", NEW items, Replace(h, items),
           NEW T, T = items \o Tail(handler[h].todo)
    PROVE  /\ \A g \in Handlers : g # h => handler'[g] = handler[g]
           /\ handler'[h] = Idle \/ (handler'[h].pc = "create" /\ handler'[h].todo = T)
           /\ T # <<>> => handler'[h].pc = "create" /\ handler'[h].todo = T
<1>1. PICK m : m = Doing(handler[h], T)  OBVIOUS
<1>2. handler' = [handler EXCEPT ![h] = m]  BY <1>1 DEF Replace, IInv, TypeOK
<1>3. \A g \in Handlers : handler'[g] = IF g = h THEN m ELSE handler[g]  BY <1>2, OneRow
<1>4. handler[h] \in HandlerRow  BY TaskRows
<1>5. m = Idle \/ (m.pc = "create" /\ m.todo = T)  BY <1>1, <1>4 DEF Doing, HandlerRow
<1>6. T # <<>> => m.pc = "create" /\ m.todo = T  BY <1>1, <1>4 DEF Doing, HandlerRow
<1> QED  BY <1>3, <1>5, <1>6

LEMMA ShowingStack ==
    ASSUME IInv, Backing, Showing, NEW h \in Handlers, handler[h].pc = "create",
           NEW items \in Seq(Item), Replace(h, items),
           NEW x, x = Head(handler[h].todo),
           NEW T, T = items \o Tail(handler[h].todo),
           Calm, UNCHANGED <<nextDelegation, copying, spreading>>, share \subseteq share',
           \A s \in share' : s \in share \/ s.delegation \in Pairs(s.from, s.to)', Paid(T),
           \A u, v, r : Gives(x, u, v, r) => Has(u, v, r)' \/ Due(T, u, v, r),
           \A t \in TaskIds : IsCopy(t)' => \/ Same(t)
                                            \/ Due(T, Owner(t)', task'[t].user, task'[t].request)
    PROVE  Showing'
<1>1. /\ handler[h].todo \in Seq(Item) /\ handler[h].todo # <<>> /\ Tail(handler[h].todo) \in Seq(Item)
  BY Stack
<1>2. \A u, v : Between(u, v)' = Between(u, v) /\ Pairs(u, v)' = Pairs(u, v)
  BY DEF Calm, Between, Pairs, MadeDelegations
<1>3. /\ \A g \in Handlers : g # h => handler'[g] = handler[g]
      /\ handler'[h] = Idle \/ (handler'[h].pc = "create" /\ handler'[h].todo = T)
      /\ T # <<>> => handler'[h].pc = "create" /\ handler'[h].todo = T
  <2>1. handler[h].pc = "create" /\ Replace(h, items) /\ T = items \o Tail(handler[h].todo)  OBVIOUS
  <2>2. \A g \in Handlers : g # h => handler'[g] = handler[g]  BY <2>1, StackGoes
  <2>3. handler'[h] = Idle \/ (handler'[h].pc = "create" /\ handler'[h].todo = T)  BY <2>1, StackGoes
  <2>4. T # <<>> => handler'[h].pc = "create" /\ handler'[h].todo = T  BY <2>1, StackGoes
  <2> QED  BY <2>2, <2>3, <2>4
<1>4. \A U, u, v, r : Due(U, u, v, r) => Due(U, u, v, r)'  BY <1>2 DEF Due, Gives
<1>5. T \in Seq(Item)  BY <1>1, Joined
<1>6. ASSUME NEW u, NEW v, NEW r, Due(T, u, v, r) PROVE Coming(u, v, r)'
  <2>1. T # <<>>
    <3>1. PICK i \in 1 .. Len(T) : TRUE  BY <1>6 DEF Due
    <3> QED  BY <1>5, <3>1
  <2>2. handler'[h].pc = "create" /\ handler'[h].todo = T  BY <1>3, <2>1
  <2>3. Due(T, u, v, r)'  BY <1>4, <1>6
  <2>4. Due(handler[h].todo, u, v, r)'  BY <2>2, <2>3
  <2> QED  BY <2>2, <2>4 DEF Coming
<1>7. ASSUME NEW u, NEW v, NEW r, Coming(u, v, r) PROVE Has(u, v, r)' \/ Coming(u, v, r)'
  <2>1. PICK g \in Handlers : handler[g].pc = "create" /\ Due(handler[g].todo, u, v, r)
    BY <1>7 DEF Coming
  <2>2. CASE g # h
    <3>1. PICK U : U = handler[g].todo  OBVIOUS
    <3>2. handler'[g].pc = "create" /\ handler'[g].todo = U  BY <1>3, <2>1, <2>2, <3>1
    <3>3. Due(U, u, v, r)'  BY <1>4, <2>1, <3>1
    <3>4. Due(handler[g].todo, u, v, r)'  BY <3>2, <3>3
    <3> QED  BY <3>2, <3>4 DEF Coming
  <2>3. CASE g = h
    <3>1. Gives(x, u, v, r) \/ Due(Tail(handler[h].todo), u, v, r)  BY <1>1, <2>1, <2>3, DueFirst
    <3>2. Due(Tail(handler[h].todo), u, v, r) => Due(T, u, v, r)  BY <1>1, DueJoin
    <3> QED  BY <1>6, <3>1, <3>2
  <2> QED  BY <2>2, <2>3
<1>8. Wide  BY <1>7, CalmWide
<1>9. UNCHANGED delegation  BY DEF Calm
<1>10. ASSUME NEW g \in Handlers PROVE RowShows(handler[g])'
  <2>1. CASE g # h
    <3>1. PICK k : k = handler[g]  OBVIOUS
    <3>2. RowShows(k)  BY <3>1 DEF Showing
    <3>3. RowShows(k)'  BY <1>8, <1>9, <3>2, SameShows
    <3>4. handler'[g] = k  BY <1>3, <2>1, <3>1
    <3> QED  BY <3>3, <3>4
  <2>2. CASE g = h /\ handler'[h] = Idle
    <3>1. handler'[g] = Idle  BY <2>2
    <3> QED  BY <3>1, IdleShows
  <2>3. CASE g = h /\ handler'[h].pc = "create" /\ handler'[h].todo = T
    <3>1. Paid(T)'  BY <1>8, WidePaid
    <3>2. Paid(handler[g].todo)' /\ handler'[g].pc = "create"  BY <2>3, <3>1
    <3> QED  BY <3>2 DEF RowShows, Ends3
  <2> QED  BY <1>3, <2>1, <2>2, <2>3
<1>11. ASSUME NEW u, NEW v, Ending(u, v) PROVE Ending(u, v)'
  <2>1. PICK g \in Handlers : handler[g].pc \in Ends3 /\ handler[g].delegation \in Between(u, v)
    BY <1>11 DEF Ending
  <2>2. g # h  BY <2>1 DEF Ends3
  <2>3. handler'[g] = handler[g]  BY <1>3, <2>2
  <2> QED  BY <1>2, <2>1, <2>3 DEF Ending, Ends3
<1>12. ASSUME NEW t \in TaskIds, IsCopy(t)' PROVE Same(t) \/ TaskShows(t)'
  <2>1. CASE Same(t)  BY <2>1
  <2>2. CASE Due(T, Owner(t)', task'[t].user, task'[t].request)
    <3>1. PICK u, v, r : u = Owner(t)' /\ v = task'[t].user /\ r = task'[t].request  OBVIOUS
    <3>2. Coming(u, v, r)'  BY <1>6, <2>2, <3>1
    <3>3. Sees(u, v, r)'  BY <3>2 DEF Sees
    <3> QED  BY <3>1, <3>3 DEF TaskShows
  <2> QED  BY <1>12, <2>1, <2>2
<1> QED  BY <1>8, <1>9, <1>10, <1>11, <1>12, ShowingKept

----------------------------------------------------------------------------
LEMMA PaidNone ==
    ASSUME NEW T \in Seq(Item), \A i \in 1 .. Len(T) : ~Needy(T[i])
    PROVE  Paid(T)
BY DEF Paid

LEMMA ShowTodo ==
    ASSUME IInv, Showing, NEW h \in Handlers, handler[h].pc = "create",
           NEW x, x = Head(handler[h].todo), NEW T, T = Tail(handler[h].todo)
    PROVE  /\ T \in Seq(Item) /\ Paid(T)
           /\ Needy(x) => T # <<>> /\ Pays(x, Head(T))
<1>1. PICK U : U = handler[h].todo  OBVIOUS
<1>2. U \in Seq(Item) /\ U # <<>> /\ Tail(U) \in Seq(Item)  BY <1>1, Stack
<1>3. Paid(U)  BY <1>1 DEF Showing, RowShows
<1>4. Paid(Tail(U)) /\ (Needy(Head(U)) => Tail(U) # <<>> /\ Pays(Head(U), Head(Tail(U))))
  BY <1>2, <1>3, PaidRest
<1> QED  BY <1>1, <1>2, <1>4

LEMMA NoneFirst == ASSUME NEW T \in Seq(Item) PROVE <<>> \o T = T
OBVIOUS

(* A thing to do that is no share, and writes nothing.                      *)
LEMMA ShowingSame ==
    ASSUME IInv, Backing, Showing, NEW h \in Handlers, handler[h].pc = "create",
           NEW items \in Seq(Item), Replace(h, items),
           NEW x, x = Head(handler[h].todo), x.kind \notin {"share", "addShare"},
           NEW T, T = items \o Tail(handler[h].todo), Paid(T),
           UNCHANGED <<task, delegation, share, nextTask, nextDelegation, copying, spreading>>
    PROVE  Showing'
<1>1. Calm /\ \A t \in TaskIds : IsCopy(t)' => Same(t)  BY SameCalm
<1>2. \A u, v, r : ~Gives(x, u, v, r)  BY DEF Gives
<1>3. share \subseteq share' /\ \A s \in share' : s \in share  OBVIOUS
<1> QED  BY <1>1, <1>2, <1>3, ShowingStack

LEMMA ShowingFindTask ==
    ASSUME IInv, Backing, Showing, NEW h \in Handlers, FindTask(h)
    PROVE  Showing'
<1>1. PICK x, y, items :
            /\ x = Head(handler[h].todo) /\ x \in Item /\ x.kind = "create"
            /\ handler[h].pc = "create"
            /\ y = [x EXCEPT !.kind = "insert"] /\ y \in Item /\ y.kind = "insert"
            /\ \/ /\ items = <<>>
                  /\ \E t \in TasksOf(x.request) : task[t].name = x.name /\ task[t].user = x.user
               \/ /\ items = <<y>>
                  /\ ~\E t \in TasksOf(x.request) : task[t].name = x.name /\ task[t].user = x.user
            /\ items \in Seq(Item) /\ Replace(h, items)
  BY FindTaskEffect
<1>2. PICK tail, T : tail = Tail(handler[h].todo) /\ T = items \o tail  OBVIOUS
<1>3. tail \in Seq(Item) /\ Paid(tail) /\ (Needy(x) => tail # <<>> /\ Pays(x, Head(tail)))
  BY <1>1, <1>2, ShowTodo
<1>4. Paid(T)
  <2>1. CASE items = <<>>
    <3>1. T = tail  BY <1>2, <1>3, <2>1, NoneFirst
    <3> QED  BY <1>3, <3>1
  <2>2. CASE items = <<y>>
    <3>1. /\ y.request = x.request /\ y.name = x.name /\ y.user = x.user /\ y.bound = x.bound
      BY <1>1 DEF Item
    <3>2. Needy(y) => Needy(x)  BY <1>1, <3>1 DEF Needy
    <3>3. \A z : Pays(x, z) => Pays(y, z)  BY <3>1 DEF Pays
    <3>4. Needy(y) => tail # <<>> /\ Pays(y, Head(tail))  BY <1>3, <3>2, <3>3
    <3>5. y \in Item  BY <1>1
    <3>6. Paid(<<y>> \o tail)  BY <1>3, <3>4, <3>5, PaidOne
    <3> QED  BY <1>2, <2>2, <3>6
  <2> QED  BY <1>1, <2>1, <2>2
<1>5. UNCHANGED <<task, delegation, share, nextTask, nextDelegation, copying, spreading>>  BY DEF FindTask
<1>6. /\ x = Head(handler[h].todo) /\ x.kind \notin {"share", "addShare"} /\ handler[h].pc = "create"
      /\ items \in Seq(Item) /\ Replace(h, items) /\ T = items \o Tail(handler[h].todo)
  BY <1>1, <1>2
<1> QED  BY <1>4, <1>5, <1>6, ShowingSame

LEMMA ShowingGiveOwner ==
    ASSUME IInv, Backing, Showing, NEW h \in Handlers, GiveOwner(h)
    PROVE  Showing'
<1>1. PICK x, b, y, items :
            /\ x = Head(handler[h].todo) /\ x \in Item /\ x.kind = "owner"
            /\ handler[h].pc = "create"
            /\ b = handler[h].bound /\ b \in 0 .. MaxTasks
            /\ y = Create(x.request, x.name, task[b].user, 0, x.task)
            /\ \/ items = <<>> /\ (b = 0 \/ ~Exists(b))
               \/ items = <<y>> /\ b # 0 /\ Exists(b) /\ y \in Item
            /\ items \in Seq(Item) /\ Replace(h, items)
  BY GiveOwnerEffect
<1>2. PICK tail, T : tail = Tail(handler[h].todo) /\ T = items \o tail  OBVIOUS
<1>3. tail \in Seq(Item) /\ Paid(tail)  BY <1>1, <1>2, ShowTodo
<1>4. Paid(T)
  <2>1. CASE items = <<>>
    <3>1. T = tail  BY <1>2, <1>3, <2>1, NoneFirst
    <3> QED  BY <1>3, <3>1
  <2>2. CASE items = <<y>> /\ y \in Item
    <3>1. ~Needy(y)  BY <1>1 DEF Create, Needy
    <3>2. Paid(<<y>> \o tail)  BY <1>3, <2>2, <3>1, PaidOne
    <3> QED  BY <1>2, <2>2, <3>2
  <2> QED  BY <1>1, <2>1, <2>2
<1>5. UNCHANGED <<task, delegation, share, nextTask, nextDelegation, copying, spreading>>  BY DEF GiveOwner
<1>6. /\ x = Head(handler[h].todo) /\ x.kind \notin {"share", "addShare"} /\ handler[h].pc = "create"
      /\ items \in Seq(Item) /\ Replace(h, items) /\ T = items \o Tail(handler[h].todo)
  BY <1>1, <1>2
<1> QED  BY <1>4, <1>5, <1>6, ShowingSame

LEMMA ShowingRebind ==
    ASSUME IInv, Backing, Showing, NEW h \in Handlers, Rebind(h)
    PROVE  Showing'
<1>1. PICK x : x = Head(handler[h].todo)  OBVIOUS
<1>2. /\ handler[h].pc = "create" /\ x.kind = "rebind" /\ Replace(h, <<>>)
      /\ task' = IF Exists(x.task) THEN [task EXCEPT ![x.task].bound = x.bound] ELSE task
      /\ UNCHANGED <<delegation, share, nextTask, nextDelegation, copying, spreading>>
  BY <1>1 DEF Rebind, Does
<1>3. PICK b, tail : b = handler[h].bound /\ tail = Tail(handler[h].todo)  OBVIOUS
<1>4. x \in GoodItem /\ x \in FineItem(b)  BY <1>1, <1>2, <1>3, NeatRest
<1>5. Of(x.task, x.request, x.name) /\ Belongs(x.task, Assignee[x.name])
  BY <1>2, <1>4 DEF GoodItem, FineItem, Fine
<1>6. PICK k \in TaskIds : k = x.task  BY <1>5 DEF Of, Made
<1>7. \A t \in TaskIds : task'[t] = task[t] \/ (t = k /\ task'[t] = [task[t] EXCEPT !.bound = x.bound])
  BY <1>2, <1>6 DEF IInv, TypeOK
<1>8. \A t \in TaskIds : /\ task'[t].request = task[t].request /\ task'[t].name = task[t].name
                         /\ task'[t].user = task[t].user /\ task'[t].state = task[t].state
                         /\ t # k => task'[t] = task[t]
  BY <1>7, TaskRows DEF TaskRow
<1>9. Calm  BY <1>2, <1>8 DEF Calm, Made
<1>10. ASSUME NEW t \in TaskIds, IsCopy(t)' PROVE Same(t)
  <2>1. CASE t = k
    <3>1. task'[t].user = Assignee[task'[t].name]  BY <1>5, <1>6, <1>8, <2>1 DEF Of, Belongs
    <3> QED  BY <1>10, <3>1 DEF IsCopy, Personal
  <2>2. CASE t # k  BY <1>8, <1>10, <2>2 DEF Same, IsCopy, Personal, IsOpen
  <2> QED  BY <2>1, <2>2
<1>11. PICK items, T : items = <<>> /\ T = items \o tail  OBVIOUS
<1>12. tail \in Seq(Item) /\ Paid(tail)  BY <1>1, <1>2, <1>3, ShowTodo
<1>13. Paid(T)  BY <1>11, <1>12, NoneFirst
<1>14. \A u, v, r : ~Gives(x, u, v, r)  BY <1>2 DEF Gives
<1>15. /\ x = Head(handler[h].todo) /\ handler[h].pc = "create"
       /\ items \in Seq(Item) /\ Replace(h, items) /\ T = items \o Tail(handler[h].todo)
  BY <1>1, <1>2, <1>3, <1>11
<1>16. share \subseteq share' /\ \A s \in share' : s \in share  BY <1>2
<1> QED  BY <1>2, <1>9, <1>10, <1>13, <1>14, <1>15, <1>16, ShowingStack

----------------------------------------------------------------------------
LEMMA ShareFields ==
    ASSUME NEW d, NEW r
    PROVE  /\ ShareOf(d, r).delegation = d /\ ShareOf(d, r).from = delegation[d].from
           /\ ShareOf(d, r).to = delegation[d].to /\ ShareOf(d, r).request = r
BY DEF ShareOf

LEMMA ShowingFindShare ==
    ASSUME IInv, Backing, Showing, NEW h \in Handlers, FindShare(h)
    PROVE  Showing'
<1>1. PICK x, y : x = Head(handler[h].todo) /\ y = [x EXCEPT !.kind = "addShare"]  OBVIOUS
<1>2. handler[h].pc = "create" /\ x.kind = "share"  BY <1>1 DEF FindShare, Does
<1>3. PICK items : /\ items = IF ShareOf(x.delegation, x.request) \in share THEN <<>> ELSE <<y>>
                   /\ Replace(h, items)
  BY <1>1 DEF FindShare
<1>4. x \in Item  BY <1>1, <1>2, Stack
<1>5. /\ y \in Item /\ y.kind = "addShare" /\ y.delegation = x.delegation /\ y.request = x.request
  BY <1>1, <1>4 DEF Item
<1>6. PICK tail, T : tail = Tail(handler[h].todo) /\ T = items \o tail  OBVIOUS
<1>7. tail \in Seq(Item) /\ Paid(tail)  BY <1>1, <1>2, <1>6, ShowTodo
<1>8. items \in Seq(Item)
  <2>1. items = <<>> \/ items = <<y>>  BY <1>3
  <2> QED  BY <1>5, <2>1, AtMostOne
<1>9. Paid(T) /\ \A u, v, r : Gives(x, u, v, r) => Has(u, v, r) \/ Due(T, u, v, r)
  <2>1. CASE items = <<>> /\ ShareOf(x.delegation, x.request) \in share
    <3>1. T = tail  BY <1>6, <1>7, <2>1, NoneFirst
    <3>2. ASSUME NEW u, NEW v, NEW r, Gives(x, u, v, r) PROVE Has(u, v, r)
      <4>1. PICK s : s = ShareOf(x.delegation, x.request)  OBVIOUS
      <4>2. s \in share /\ s.from = u /\ s.to = v /\ s.request = r
        BY <2>1, <3>2, <4>1, ShareFields DEF Gives, Pairs
      <4> QED  BY <4>2 DEF Has
    <3> QED  BY <1>7, <3>1, <3>2
  <2>2. CASE items = <<y>>
    <3>1. ~Needy(y)  BY <1>5 DEF Needy
    <3>2. PICK U : U = <<y>> \o tail  OBVIOUS
    <3>3. U \in Seq(Item) /\ U # <<>> /\ Head(U) = y  BY <1>5, <1>7, <3>2, Follow
    <3>4. Paid(U)  BY <1>5, <1>7, <3>1, <3>2, PaidOne
    <3>5. \A u, v, r : Gives(x, u, v, r) => Gives(y, u, v, r)  BY <1>5 DEF Gives
    <3>6. \A u, v, r : Gives(y, u, v, r) => Due(U, u, v, r)  BY <3>3, DueFirst
    <3>7. T = U  BY <1>6, <2>2, <3>2
    <3> QED  BY <3>4, <3>5, <3>6, <3>7
  <2> QED  BY <1>3, <2>1, <2>2
<1>10. UNCHANGED <<task, delegation, share, nextTask, nextDelegation, copying, spreading>>
  BY DEF FindShare
<1>11. Calm /\ \A t \in TaskIds : IsCopy(t)' => Same(t)  BY <1>10, SameCalm
<1>12. \A u, v, r : Gives(x, u, v, r) => Has(u, v, r)' \/ Due(T, u, v, r)
  BY <1>9, <1>10 DEF Has
<1>13. share \subseteq share' /\ \A s \in share' : s \in share  BY <1>10
<1>14. /\ x = Head(handler[h].todo) /\ handler[h].pc = "create" /\ Paid(T)
       /\ items \in Seq(Item) /\ Replace(h, items) /\ T = items \o Tail(handler[h].todo)
  BY <1>1, <1>2, <1>3, <1>6, <1>8, <1>9
<1> QED  BY <1>10, <1>11, <1>12, <1>13, <1>14, ShowingStack

LEMMA ShowingAddShare ==
    ASSUME IInv, Backing, Showing, NEW h \in Handlers, AddShare(h)
    PROVE  Showing'
<1>1. PICK x, s : x = Head(handler[h].todo) /\ s = ShareOf(x.delegation, x.request)  OBVIOUS
<1>2. /\ handler[h].pc = "create" /\ x.kind = "addShare" /\ Replace(h, <<>>)
      /\ share' = share \cup {s}
      /\ UNCHANGED <<task, delegation, nextTask, nextDelegation, copying, spreading>>
  BY <1>1 DEF AddShare, Does
<1>3. x.delegation \in MadeDelegations  BY <1>1, <1>2, Stack DEF GoodItem
<1>4. /\ s.delegation = x.delegation /\ s.from = delegation[x.delegation].from
      /\ s.to = delegation[x.delegation].to /\ s.request = x.request
  BY <1>1, ShareFields
<1>5. \A u, v : Pairs(u, v)' = Pairs(u, v)  BY <1>2 DEF Pairs, MadeDelegations
<1>6. s.delegation \in Pairs(s.from, s.to)'  BY <1>3, <1>4, <1>5 DEF Pairs
<1>7. ASSUME NEW u, NEW v, NEW r, Gives(x, u, v, r) PROVE Has(u, v, r)'
  <2>1. s.from = u /\ s.to = v /\ s.request = r  BY <1>4, <1>7 DEF Gives, Pairs
  <2> QED  BY <1>2, <2>1 DEF Has
<1>8. PICK items, tail, T : items = <<>> /\ tail = Tail(handler[h].todo) /\ T = items \o tail  OBVIOUS
<1>9. tail \in Seq(Item) /\ Paid(tail)  BY <1>1, <1>2, <1>8, ShowTodo
<1>10. Paid(T)  BY <1>8, <1>9, NoneFirst
<1>11. Calm /\ \A t \in TaskIds : IsCopy(t)' => Same(t)  BY <1>2, SameCalm
<1>12. share \subseteq share' /\ \A z \in share' : z \in share \/ z.delegation \in Pairs(z.from, z.to)'
  BY <1>2, <1>6
<1>13. /\ x = Head(handler[h].todo) /\ handler[h].pc = "create"
       /\ items \in Seq(Item) /\ Replace(h, items) /\ T = items \o Tail(handler[h].todo)
  BY <1>1, <1>2, <1>8
<1> QED  BY <1>2, <1>7, <1>10, <1>11, <1>12, <1>13, ShowingStack

(* In the things to do for delegates, a share comes after each copy.        *)
LEMMA EachShared ==
    ASSUME IInv, NEW x \in GoodItem, x.kind = "delegates", NEW S \in SUBSET MadeDelegations,
           NEW f \in Seq(S), Stands(x.task), task[x.task].user = x.user,
           \A d \in S : delegation[d].from = x.user
    PROVE  DelegateItems(x, f) \in Seq(Item) /\ Paid(DelegateItems(x, f))
<1>1. PICK n \in Nat : n = Len(f)  OBVIOUS
<1>2. PICK items : items = DelegateItems(x, f)  OBVIOUS
<1>3. items \in Seq(Item)
  <2>1. items \in Seq(GoodItem)  BY <1>2, DelegateItemsGood
  <2> QED  BY <2>1 DEF GoodItem
<1>4. items = [j \in 1 .. 2 * n |->
                  IF j % 2 = 1
                  THEN Create(x.request, x.name, delegation[f[(j + 1) \div 2]].to, x.task, 0)
                  ELSE [x EXCEPT !.kind = "share", !.delegation = f[(j + 1) \div 2]]]
  BY <1>1, <1>2 DEF DelegateItems
<1>5. Len(items) = 2 * n
  <2>1. PICK k \in Nat : k = 2 * n  OBVIOUS
  <2>2. DOMAIN items = 1 .. k  BY <1>4, <2>1
  <2>3. DOMAIN items = 1 .. Len(items) /\ Len(items) \in Nat  BY <1>3
  <2> QED  BY <2>1, <2>2, <2>3
<1>6. ASSUME NEW i \in 1 .. Len(items), Needy(items[i])
      PROVE  i + 1 \in 1 .. Len(items) /\ Pays(items[i], items[i + 1])
  <2>1. i \in 1 .. 2 * n  BY <1>5
  <2>2. PICK d \in S : d = f[(i + 1) \div 2]
    <3>1. (i + 1) \div 2 \in 1 .. n  BY <2>1
    <3> QED  BY <1>1, <3>1
  <2>3. x \in Item  BY DEF GoodItem
  <2>4. i % 2 = 1
    <3> SUFFICES ASSUME i % 2 # 1 PROVE FALSE  OBVIOUS
    <3>1. items[i] = [x EXCEPT !.kind = "share", !.delegation = d]  BY <1>4, <2>1, <2>2
    <3>2. items[i].kind = "share"  BY <2>3, <3>1 DEF Item
    <3> QED  BY <1>6, <3>2 DEF Needy
  <2>5. i + 1 \in 1 .. 2 * n /\ (i + 1) % 2 # 1 /\ (i + 1 + 1) \div 2 = (i + 1) \div 2  BY <2>1, <2>4
  <2>6. items[i] = Create(x.request, x.name, delegation[d].to, x.task, 0)  BY <1>4, <2>1, <2>2, <2>4
  <2>7. items[i + 1] = [x EXCEPT !.kind = "share", !.delegation = d]  BY <1>4, <2>2, <2>5
  <2>8. PICK y, z, v : y = items[i] /\ z = items[i + 1] /\ v = delegation[d].to  OBVIOUS
  <2>9. y.user = v /\ y.bound = x.task /\ y.request = x.request  BY <2>6, <2>8 DEF Create
  <2>10. z.kind = "share" /\ z.delegation = d /\ z.request = x.request  BY <2>3, <2>7, <2>8 DEF Item
  <2>11. d \in Pairs(x.user, v)  BY <2>8 DEF Pairs
  <2>12. x.task \in Made  BY StandsMade
  <2>13. Pays(y, z)  BY <2>9, <2>10, <2>11, <2>12 DEF Pays, Gives
  <2> QED  BY <1>5, <2>5, <2>8, <2>13
<1> QED  BY <1>2, <1>3, <1>6 DEF Paid

LEMMA ShowingGiveDelegates ==
    ASSUME IInv, Backing, Showing, NEW h \in Handlers, GiveDelegates(h)
    PROVE  Showing'
<1>1. PICK x, b : x = Head(handler[h].todo) /\ b = handler[h].bound  OBVIOUS
<1>2. handler[h].pc = "create" /\ x.kind = "delegates"  BY <1>1 DEF GiveDelegates, Does
<1>3. PICK S : S = {d \in DelegationIds : /\ Current(d) /\ delegation[d].task = 0
                                          /\ delegation[d].from = x.user
                                          /\ delegation[d].to # handler[h].user}
  OBVIOUS
<1>4. S \subseteq MadeDelegations /\ \A d \in S : delegation[d].from = x.user
  BY <1>3, CurrentMade DEF Current
<1>5. IsFiniteSet(S)
  <2>1. IsFiniteSet(DelegationIds)  BY Sizes, FS_Interval
  <2> QED  BY <1>3, <2>1, FS_Subset
<1>6. PICK f \in SetToSeqs(S) : Replace(h, DelegateItems(x, f))
  BY <1>1, <1>3 DEF GiveDelegates
<1>7. f \in Seq(S)  BY <1>5, <1>6, Ordered
<1>8. x \in FineItem(b) /\ x \in GoodItem  BY <1>1, <1>2, NeatRest
<1>9. Stands(x.task) /\ task[x.task].user = x.user  BY <1>2, <1>8 DEF FineItem, Fine, Follows
<1>10. PICK items : items = DelegateItems(x, f)  OBVIOUS
<1>11. items \in Seq(Item) /\ Paid(items)  BY <1>2, <1>4, <1>7, <1>8, <1>9, <1>10, EachShared
<1>12. PICK tail, T : tail = Tail(handler[h].todo) /\ T = items \o tail  OBVIOUS
<1>13. tail \in Seq(Item) /\ Paid(tail)  BY <1>1, <1>2, <1>12, ShowTodo
<1>14. Paid(T)  BY <1>11, <1>12, <1>13, PaidJoin
<1>15. UNCHANGED <<task, delegation, share, nextTask, nextDelegation, copying, spreading>>
  BY DEF GiveDelegates
<1>16. /\ x = Head(handler[h].todo) /\ x.kind \notin {"share", "addShare"} /\ handler[h].pc = "create"
       /\ items \in Seq(Item) /\ Replace(h, items) /\ T = items \o Tail(handler[h].todo)
  BY <1>1, <1>2, <1>6, <1>10, <1>11, <1>12
<1> QED  BY <1>14, <1>15, <1>16, ShowingSame

----------------------------------------------------------------------------
LEMMA ShowingInsert ==
    ASSUME IInv, Backing, Showing, NEW h \in Handlers, InsertTask(h)
    PROVE  Showing'
<1>1. PICK x, n, row, y, z, w, items :
         /\ x = Head(handler[h].todo) /\ x \in Item /\ x.kind = "insert"
         /\ handler[h].pc = "create"
         /\ n \in TaskIds /\ ~Exists(n) /\ n \notin Made
         /\ row = [state |-> "open", request |-> x.request, name |-> x.name,
                   user |-> x.user, bound |-> x.bound, entity |-> Entity[x.name]]
         /\ \A t \in TaskIds : task'[t] = IF t = n THEN row ELSE task[t]
         /\ y = [x EXCEPT !.kind = "owner", !.task = n] /\ y \in Item
         /\ z = [x EXCEPT !.kind = "delegates", !.task = n] /\ z \in Item
         /\ w = [x EXCEPT !.kind = "rebind", !.bound = n] /\ w \in Item
         /\ (x.task = 0 /\ items = <<y, z>>) \/ (x.task # 0 /\ items = <<y, z>> \o <<w>>)
         /\ items \in Seq(Item) /\ Replace(h, items)
  BY InsertEffect
<1>2. PICK tail, T : tail = Tail(handler[h].todo) /\ T = items \o tail  OBVIOUS
<1>3. tail \in Seq(Item) /\ Paid(tail) /\ (Needy(x) => tail # <<>> /\ Pays(x, Head(tail)))
  BY <1>1, <1>2, ShowTodo
<1>4. Calm
  <2>1. UNCHANGED delegation /\ nextTask' = nextTask + 1  BY DEF InsertTask, AddTask
  <2>2. /\ n \in TaskIds /\ n \notin Made
        /\ \A t \in TaskIds : task'[t] = IF t = n THEN row ELSE task[t]
    BY <1>1
  <2> QED  BY <2>1, <2>2, AddCalm
<1>5. Paid(items)
  <2>1. y.kind = "owner" /\ z.kind = "delegates" /\ w.kind = "rebind"
    <3>1. /\ x \in Item /\ y = [x EXCEPT !.kind = "owner", !.task = n]
          /\ z = [x EXCEPT !.kind = "delegates", !.task = n]
          /\ w = [x EXCEPT !.kind = "rebind", !.bound = n]
      BY <1>1
    <3> QED  BY <3>1 DEF Item
  <2>2. PICK S : S = {i \in Item : ~Needy(i)}  OBVIOUS
  <2>3. y \in S /\ z \in S /\ w \in S  BY <1>1, <2>1, <2>2 DEF Needy
  <2>4. items = <<y, z>> \/ items = <<y, z>> \o <<w>>  BY <1>1
  <2>5. \A i \in 1 .. Len(items) : items[i] \in S  BY <2>3, <2>4, TwoOrThree
  <2>6. \A i \in 1 .. Len(items) : ~Needy(items[i])  BY <2>2, <2>5
  <2> QED  BY <1>1, <2>6, PaidNone
<1>6. Paid(T)  BY <1>1, <1>2, <1>3, <1>5, PaidJoin
<1>7. \A u, v, r : ~Gives(x, u, v, r)  BY <1>1 DEF Gives
<1>8. /\ task'[n] = row /\ row.state = "open" /\ row.request = x.request /\ row.name = x.name
      /\ row.user = x.user /\ row.bound = x.bound
  BY <1>1
<1>9. ASSUME NEW t \in TaskIds, IsCopy(t)'
      PROVE  Same(t) \/ Due(T, Owner(t)', task'[t].user, task'[t].request)
  <2>1. CASE t # n
    <3>1. task'[t] = task[t]  BY <1>1, <2>1
    <3> QED  BY <1>9, <3>1 DEF Same, IsCopy, Personal, IsOpen
  <2>2. CASE t = n
    <3>1. PICK o, u, v, r : o = x.bound /\ u = task[o].user /\ v = x.user /\ r = x.request  OBVIOUS
    <3>2. /\ task'[t].bound = o /\ task'[t].user = v /\ task'[t].request = r
          /\ o # 0 /\ v # Assignee[x.name]
      BY <1>8, <1>9, <2>2, <3>1 DEF IsCopy, Personal
    <3>3. Needy(x)  BY <1>1, <3>1, <3>2 DEF Needy
    <3>4. o \in Made /\ Gives(Head(tail), u, v, r) /\ tail # <<>>  BY <1>3, <3>1, <3>3 DEF Pays
    <3>5. Due(tail, u, v, r)  BY <1>3, <3>4, DueFirst
    <3>6. Due(T, u, v, r)
      <4>1. items \in Seq(Item)  BY <1>1
      <4>2. Due(items \o tail, u, v, r)  BY <1>3, <3>5, <4>1, DueJoin
      <4> QED  BY <1>2, <4>2
    <3>7. task'[o].user = u  BY <1>4, <3>1, <3>4 DEF Calm
    <3>8. Owner(t)' = u  BY <3>2, <3>7 DEF Owner
    <3> QED  BY <3>2, <3>6, <3>8
  <2> QED  BY <2>1, <2>2
<1>10. UNCHANGED <<share, nextDelegation, copying, spreading>>  BY DEF InsertTask
<1>11. share \subseteq share' /\ \A s \in share' : s \in share  BY <1>10
<1>12. /\ x = Head(handler[h].todo) /\ handler[h].pc = "create"
       /\ items \in Seq(Item) /\ Replace(h, items) /\ T = items \o Tail(handler[h].todo)
  BY <1>1, <1>2
<1> QED  BY <1>4, <1>6, <1>7, <1>9, <1>10, <1>11, <1>12, ShowingStack

----------------------------------------------------------------------------
LEMMA ShowingUpdateTask ==
    ASSUME IInv, Backing, Showing, NEW h \in Handlers, UpdateTask(h)
    PROVE  Showing'
<1>1. PICK m : m = [handler[h] EXCEPT !.pc = "reread"]  OBVIOUS
<1>2. handler' = [handler EXCEPT ![h] = m] /\ handler[h].pc = "update"
  BY <1>1 DEF UpdateTask, IInv, TypeOK
<1>3. m.pc = "reread"  BY <1>1, TaskRows DEF HandlerRow
<1>4. RowShows(m)'  BY <1>3 DEF RowShows, Ends3
<1>5. \A t \in TaskIds : task'[t] = task[t] \/ (Exists(t) /\ task'[t] = [task[t] EXCEPT !.state = "closed"])
  BY PlainEffect DEF Plain
<1>6. \A t \in TaskIds :
         /\ task'[t].request = task[t].request /\ task'[t].name = task[t].name
         /\ task'[t].user = task[t].user /\ (task'[t].state # "none" <=> task[t].state # "none")
         /\ task'[t].state = "open" => task'[t] = task[t]
  BY <1>5, TaskRows DEF TaskRow, Exists
<1>7. Calm  BY <1>6 DEF Calm, Made, UpdateTask
<1>8. \A t \in TaskIds : IsCopy(t)' => Same(t)  BY <1>6 DEF IsCopy, Personal, IsOpen, Same
<1>9. UNCHANGED <<share, nextDelegation, copying, spreading>>  BY DEF UpdateTask
<1>10. handler[h].pc \notin Ends3 \cup {"create"}  BY <1>2 DEF Ends3
<1> QED  BY <1>2, <1>4, <1>7, <1>8, <1>9, <1>10, ShowingRow

(* A step that only moves a call, to a place where it holds nothing.        *)
LEMMA ShowingMove ==
    ASSUME IInv, Backing, Showing, NEW h \in Handlers, handler[h].pc \notin Ends3 \cup {"create"},
           NEW m, handler' = [handler EXCEPT ![h] = m], m.pc \notin Ends3 \cup {"create"},
           UNCHANGED <<task, delegation, share, nextTask, nextDelegation>>,
           \A c \in copying' : c \in copying \/ c.pc = "share",
           \A p \in spreading' : p \in spreading \/ p.rows = {}
    PROVE  Showing'
<1>1. Calm /\ \A t \in TaskIds : IsCopy(t)' => Same(t)  BY SameCalm
<1>2. RowShows(m)'  BY DEF RowShows, Ends3
<1>3. \A c \in copying' : c \in copying \/ CopyShows(c)'  BY DEF CopyShows
<1>4. \A p \in spreading' : p \in spreading \/ RunShows(p)'  BY DEF RunShows
<1> QED  BY <1>1, <1>2, <1>3, <1>4, ShowingRow

LEMMA ShowingPlain ==
    ASSUME IInv, Backing, Showing, NEW h \in Handlers, RereadTask(h) \/ ReadRequest(h) \/ CheckOthers(h)
    PROVE  Showing'
<1>1. /\ handler[h].pc \in {"update", "reread", "read", "others"}
      /\ handler'[h].pc \in {"idle", "reread", "read", "spread", "advance"}
  BY PlainEffect DEF Plain
<1>2. UNCHANGED <<task, delegation, share, nextTask, nextDelegation, copying>>
  BY DEF RereadTask, ReadRequest, CheckOthers
<1>3. PICK m : handler' = [handler EXCEPT ![h] = m]
  <2>1. CASE RereadTask(h)  BY <2>1 DEF RereadTask
  <2>2. CASE ReadRequest(h)
    <3>1. PICK a, e : /\ a = place[task[handler[h].task].request]
                      /\ e = (request[task[handler[h].task].request].state = "ended")
      OBVIOUS
    <3>2. handler' = [handler EXCEPT ![h] = [handler[h] EXCEPT !.pc = "spread", !.at = a, !.ended = e]]
      BY <2>2, <3>1 DEF ReadRequest, IInv, TypeOK
    <3> QED  BY <3>2
  <2>3. CASE CheckOthers(h)  BY <2>3 DEF CheckOthers
  <2> QED  BY <2>1, <2>2, <2>3
<1>4. handler'[h] = m  BY <1>3 DEF IInv, TypeOK
<1>5. handler[h].pc \notin Ends3 \cup {"create"} /\ m.pc \notin Ends3 \cup {"create"}
  BY <1>1, <1>4 DEF Ends3
<1>6. \A p \in spreading' : p \in spreading \/ p.rows = {}
  BY DEF RereadTask, ReadRequest, CheckOthers, Run
<1> QED  BY <1>2, <1>3, <1>5, <1>6, ShowingMove

LEMMA ShowingTrigger ==
    ASSUME IInv, Backing, Showing, NEW h \in Handlers, Trigger(h)
    PROVE  Showing'
<1>1. PICK d, rows : /\ d = handler[h].delegation
                     /\ rows = {t \in TaskIds : IsOpen(t) /\ IF delegation[d].task = 0
                                                             THEN \/ task[t].user = delegation[d].from
                                                                  \/ task[t].entity \in
                                                                        EntitiesOf(delegation[d].from)
                                                             ELSE t = delegation[d].task}
  OBVIOUS
<1>2. PICK m : m = Idle  OBVIOUS
<1>3. /\ handler[h].pc = "trigger" /\ handler' = [handler EXCEPT ![h] = m]
      /\ copying' = copying \cup {[delegation |-> d, task |-> t, pc |-> "share"] : t \in rows}
      /\ UNCHANGED <<task, delegation, share, nextTask, nextDelegation, spreading>>
  BY <1>1, <1>2 DEF Trigger
<1>4. handler[h].pc \notin Ends3 \cup {"create"} /\ m.pc \notin Ends3 \cup {"create"}
  BY <1>2, <1>3 DEF Idle, Ends3
<1>5. \A c \in copying' : c \in copying \/ c.pc = "share"  BY <1>3
<1>6. \A p \in spreading' : p \in spreading \/ p.rows = {}  BY <1>3
<1> QED  BY <1>3, <1>4, <1>5, <1>6, ShowingMove

LEMMA ShowingAdvance ==
    ASSUME IInv, Backing, Showing, NEW h \in Handlers, AdvanceRequest(h)
    PROVE  Showing'
<1>1. PICK m, items, r :
         /\ handler' = [handler EXCEPT ![h] = m] /\ handler[h].pc = "advance"
         /\ items \in Seq(Item) /\ r \in RequestIds
         /\ \A i \in 1 .. Len(items) : \E a \in Names : items[i] = Create(r, a, Assignee[a], 0, 0)
         /\ m = Idle \/ (m.pc = "create" /\ m.todo = items /\ items # <<>>
                         /\ m.bound = handler[h].bound)
  BY AdvanceEffect
<1>2. UNCHANGED <<task, delegation, share, nextTask, nextDelegation, copying, spreading>>  BY DEF AdvanceRequest
<1>3. Calm /\ \A t \in TaskIds : IsCopy(t)' => Same(t)  BY <1>2, SameCalm
<1>4. \A u, v : Pairs(u, v)' = Pairs(u, v)  BY <1>2 DEF Pairs, MadeDelegations
<1>5. \A u, v, q : Coming(u, v, q) => Coming(u, v, q)'  BY <1>1, <1>4, RowWaits
<1>6. Wide
  <2>1. share \subseteq share'  BY <1>2
  <2> QED  BY <1>2, <1>3, <1>5, <2>1, CalmWide
<1>7. m = Idle \/ (m.pc = "create" /\ m.todo = items)  BY <1>1
<1>8. /\ items \in Seq(Item)
      /\ \A i \in 1 .. Len(items) : \E a \in Names : items[i] = Create(r, a, Assignee[a], 0, 0)
  BY <1>1
<1>9. RowShows(m)'  BY <1>6, <1>7, <1>8, FirstShows
<1>10. handler[h].pc \notin Ends3 \cup {"create"}  BY <1>1 DEF Ends3
<1> QED  BY <1>1, <1>2, <1>3, <1>9, <1>10, ShowingRow

----------------------------------------------------------------------------
(* The goroutines of UpdateDelegated.                                       *)
LEMMA SpreadWide ==
    ASSUME IInv, SpreadStep, Calm
    PROVE  Wide
<1>1. /\ \A g \in Handlers : \/ handler'[g] = handler[g]
                             \/ /\ handler[g].pc = "spread"
                                /\ handler'[g] = [handler[g] EXCEPT !.pc = "others"]
      /\ UNCHANGED <<share, nextDelegation>>
  BY SpreadEffect
<1>2. \A u, v : Pairs(u, v)' = Pairs(u, v)  BY <1>1 DEF Pairs, MadeDelegations, Calm
<1>3. ASSUME NEW u, NEW v, NEW r, Coming(u, v, r) PROVE Coming(u, v, r)'
  <2>1. PICK g \in Handlers : handler[g].pc = "create" /\ Due(handler[g].todo, u, v, r)
    BY <1>3 DEF Coming
  <2>2. PICK m : m = handler[g]  OBVIOUS
  <2>3. handler'[g] = m  BY <1>1, <2>1, <2>2
  <2>4. PICK T : T = m.todo  OBVIOUS
  <2>5. PICK i \in 1 .. Len(T) : Gives(T[i], u, v, r)  BY <2>1, <2>2, <2>4 DEF Due
  <2>6. Gives(T[i], u, v, r)'  BY <1>2, <2>5 DEF Gives
  <2>7. Due(T, u, v, r)'  BY <2>5, <2>6 DEF Due
  <2>8. Due(handler[g].todo, u, v, r)'  BY <2>3, <2>4, <2>7
  <2>9. handler'[g].pc = "create"  BY <2>1, <2>2, <2>3
  <2> QED  BY <2>8, <2>9 DEF Coming
<1> QED  BY <1>1, <1>3, CalmWide

LEMMA RunKept ==
    ASSUME Wide, NEW p, p.task \in Made, \A t \in p.rows : t \in Made, RunShows(p)
    PROVE  RunShows(p)'
<1> SUFFICES ASSUME NEW t \in p.rows
             PROVE  (\/ t = p.task \/ task[t].user = Assignee[task[t].name]
                     \/ ~Sole(task[t].name)
                     \/ Sees(task[p.task].user, task[t].user, task[t].request))'
  BY DEF RunShows
<1>1. PICK u, v, r, n : u = task[p.task].user /\ v = task[t].user /\ r = task[t].request
                        /\ n = task[t].name
  OBVIOUS
<1>2. task'[p.task].user = u /\ task'[t].user = v /\ task'[t].request = r /\ task'[t].name = n
  BY <1>1 DEF Wide
<1>3. t = p.task \/ v = Assignee[n] \/ ~Sole(n) \/ Sees(u, v, r)  BY <1>1 DEF RunShows
<1>4. Sees(u, v, r) => Sees(u, v, r)'  BY WideSees
<1> QED  BY <1>2, <1>3, <1>4 DEF Sole

LEMMA RunMade ==
    ASSUME IInv, NEW p \in spreading
    PROVE  p.task \in Made /\ \A t \in p.rows : t \in Made
BY DEF IInv, RunsGood, GoodSpread, Kin, Of

LEMMA ShowingRuns ==
    ASSUME IInv, Backing, Showing, SpreadStep, Calm, \A q \in spreading' : q \in spreading \/ RunShows(q)',
           \A t \in TaskIds : IsCopy(t)' => Same(t) \/ TaskShows(t)'
    PROVE  Showing'
<1>1. PICK p \in spreading : TRUE  BY DEF SpreadStep
<1>2. Wide  BY SpreadWide
<1>3. /\ \A g \in Handlers : \/ handler'[g] = handler[g]
                             \/ /\ handler[g].pc = "spread"
                                /\ handler'[g] = [handler[g] EXCEPT !.pc = "others"]
      /\ UNCHANGED <<share, copying, nextDelegation>>
  BY SpreadEffect
<1>4. UNCHANGED delegation  BY DEF Calm
<1>5. ASSUME NEW g \in Handlers PROVE RowShows(handler[g])'
  <2>1. CASE handler'[g] = handler[g]
    <3>1. PICK k : k = handler[g]  OBVIOUS
    <3>2. RowShows(k)  BY <3>1 DEF Showing
    <3>3. RowShows(k)'  BY <1>2, <1>4, <3>2, SameShows
    <3> QED  BY <2>1, <3>1, <3>3
  <2>2. CASE handler'[g] = [handler[g] EXCEPT !.pc = "others"]
    <3>1. handler'[g].pc = "others"  BY <2>2, TaskRows DEF HandlerRow
    <3> QED  BY <3>1 DEF RowShows, Ends3
  <2> QED  BY <1>3, <2>1, <2>2
<1>6. \A u, v : ~Ending(u, v)  BY <1>1, NoEndBeside
<1>7. /\ \A s \in share' : s \in share
      /\ \A c \in copying' : c \in copying
  BY <1>3
<1> QED  BY <1>2, <1>4, <1>5, <1>6, <1>7, ShowingKept

LEMMA ShowingFindAbove ==
    ASSUME IInv, Backing, Showing, NEW p \in spreading, FindAbove(p)
    PROVE  Showing'
<1>1. PICK a : a = task[p.bound].bound  OBVIOUS
<1>2. PICK q : /\ \/ q = [p EXCEPT !.pc = "upWrite", !.above = a]
                  \/ q = [p EXCEPT !.pc = "down"]
               /\ spreading' = (spreading \ {p}) \cup {q}
  BY <1>1 DEF FindAbove, Becomes
<1>3. p \in Spread  BY DEF IInv, TypeOK
<1>4. q.task = p.task /\ q.rows = p.rows  BY <1>2, <1>3 DEF Spread
<1>5. UNCHANGED <<task, delegation, nextTask>>  BY DEF FindAbove
<1>6. Calm /\ \A t \in TaskIds : IsCopy(t)' => Same(t)  BY <1>5, SameCalm
<1>7. SpreadStep  BY DEF SpreadStep
<1>8. RunShows(p)'  BY <1>6, <1>7, SpreadWide, RunMade, RunKept DEF Showing
<1>9. RunShows(q)'  BY <1>4, <1>8 DEF RunShows
<1>10. \A r \in spreading' : r \in spreading \/ RunShows(r)'  BY <1>2, <1>9
<1> QED  BY <1>6, <1>7, <1>10, ShowingRuns

LEMMA ShowingWriteAbove ==
    ASSUME IInv, Backing, Showing, NEW p \in spreading, WriteAbove(p)
    PROVE  Showing'
<1>1. PICK q, s : q = [p EXCEPT !.pc = "down"] /\ s = Run(p.bound, p.above, FALSE, NoHandler)  OBVIOUS
<1>2. /\ Writes(p.bound, p, p.bound)
      /\ spreading' = (spreading \ {p}) \cup {q, s}
      /\ UNCHANGED <<delegation, nextTask>>
  BY <1>1 DEF WriteAbove
<1>3. Calm /\ \A t \in TaskIds : task'[t] = task[t] \/ (t = p.bound /\ task'[t].bound = p.bound)
  BY <1>2, WritesEffect
<1>4. SpreadStep  BY DEF SpreadStep
<1>5. RunShows(p)'  BY <1>3, <1>4, SpreadWide, RunMade, RunKept DEF Showing
<1>6. RunShows(q)'
  <2>1. p \in Spread  BY DEF IInv, TypeOK
  <2>2. q.task = p.task /\ q.rows = p.rows  BY <1>1, <2>1 DEF Spread
  <2> QED  BY <1>5, <2>2 DEF RunShows
<1>7. RunShows(s)'
  <2>1. s.rows = {}  BY <1>1 DEF Run
  <2> QED  BY <2>1 DEF RunShows
<1>8. \A t \in TaskIds : IsCopy(t)' => Same(t)  BY <1>3 DEF IsCopy, Personal, IsOpen, Same
<1>9. \A r \in spreading' : r \in spreading \/ RunShows(r)'  BY <1>2, <1>6, <1>7
<1> QED  BY <1>3, <1>4, <1>8, <1>9, ShowingRuns

LEMMA ShowingFindBelow ==
    ASSUME IInv, Backing, Showing, NEW p \in spreading, FindBelow(p)
    PROVE  Showing'
<1>1. PICK q : q = [p EXCEPT !.pc = "downWrite", !.rows = Below(p)]  OBVIOUS
<1>2. /\ \/ spreading' = spreading \ {p}
         \/ spreading' = (spreading \ {p}) \cup {q}
      /\ UNCHANGED <<task, delegation, nextTask>>
  BY <1>1 DEF FindBelow, Becomes, Ends
<1>3. Calm /\ \A t \in TaskIds : IsCopy(t)' => Same(t)  BY <1>2, SameCalm
<1>4. SpreadStep  BY DEF SpreadStep
<1>5. p \in Spread /\ p.task \in Made  BY RunMade DEF IInv, TypeOK
<1>6. q.task = p.task /\ q.rows = Below(p)  BY <1>1, <1>5 DEF Spread
<1>7. ASSUME NEW t \in Below(p)
      PROVE  t \in Made /\ (\/ t = p.task \/ task[t].user = Assignee[task[t].name]
                            \/ ~Sole(task[t].name)
                            \/ Sees(task[p.task].user, task[t].user, task[t].request))
  <2>1. t \in TaskIds /\ IsOpen(t) /\ task[t].bound = p.task  BY DEF Below
  <2>2. t \in Made  BY <2>1, ExistsMade DEF Exists, IsOpen
  <2>3. CASE t # p.task /\ task[t].user # Assignee[task[t].name] /\ Sole(task[t].name)
    <3>1. IsCopy(t)  BY <1>5, <2>1, <2>3 DEF IsCopy, Personal, Made, Sole
    <3>2. ~Ending(Owner(t), task[t].user)  BY NoEndBeside
    <3>3. TaskShows(t)  BY <2>1, <3>1, <3>2 DEF Showing
    <3> QED  BY <2>1, <2>2, <3>3 DEF TaskShows, Owner
  <2> QED  BY <2>2, <2>3
<1>8. RunShows(q)  BY <1>6, <1>7 DEF RunShows
<1>9. RunShows(q)'
  <2>1. q.task \in Made /\ \A t \in q.rows : t \in Made  BY <1>5, <1>6, <1>7
  <2> QED  BY <1>3, <1>4, <1>8, <2>1, SpreadWide, RunKept
<1>10. \A r \in spreading' : r \in spreading \/ RunShows(r)'  BY <1>2, <1>9
<1> QED  BY <1>3, <1>4, <1>10, ShowingRuns

LEMMA ShowingWriteBelow ==
    ASSUME IInv, Backing, Showing, NEW p \in spreading, NEW t \in p.rows, WriteBelow(p, t)
    PROVE  Showing'
<1>1. PICK q, s : q = [p EXCEPT !.rows = @ \ {t}] /\ s = Run(t, p.task, FALSE, NoHandler)  OBVIOUS
<1>2. /\ Writes(t, p, p.task)
      /\ \A r \in spreading' : r \in spreading \/ r = q \/ r = s
      /\ UNCHANGED <<delegation, nextTask>>
  BY <1>1 DEF WriteBelow
<1>3. Calm /\ \A k \in TaskIds : task'[k] = task[k] \/ (k = t /\ task'[k].bound = p.task)
  BY <1>2, WritesEffect
<1>4. SpreadStep  BY DEF SpreadStep
<1>5. RunShows(p)'  BY <1>3, <1>4, SpreadWide, RunMade, RunKept DEF Showing
<1>6. RunShows(q)'
  <2>1. p \in Spread  BY DEF IInv, TypeOK
  <2>2. q.task = p.task /\ q.rows = p.rows \ {t}  BY <1>1, <2>1 DEF Spread
  <2> QED  BY <1>5, <2>2 DEF RunShows
<1>7. RunShows(s)'
  <2>1. s.rows = {}  BY <1>1 DEF Run
  <2> QED  BY <2>1 DEF RunShows
<1>8. ASSUME NEW k \in TaskIds, IsCopy(k)' PROVE Same(k) \/ TaskShows(k)'
  <2>1. CASE task'[k] = task[k]  BY <1>8, <2>1 DEF IsCopy, Personal, IsOpen, Same
  <2>2. CASE k = t /\ task'[k].bound = p.task
    <3>1. PICK u, v, n, r : /\ u = task'[p.task].user /\ v = task'[t].user /\ n = task'[t].name
                            /\ r = task'[t].request
      OBVIOUS
    <3>2. k # p.task /\ v # Assignee[n] /\ Sole(n)  BY <1>8, <2>2, <3>1 DEF IsCopy, Personal, Sole
    <3>3. Sees(u, v, r)'  BY <1>5, <2>2, <3>1, <3>2 DEF RunShows
    <3> QED  BY <2>2, <3>1, <3>3 DEF TaskShows, Owner
  <2> QED  BY <1>3, <2>1, <2>2
<1>9. \A r \in spreading' : r \in spreading \/ RunShows(r)'  BY <1>2, <1>6, <1>7
<1> QED  BY <1>3, <1>4, <1>8, <1>9, ShowingRuns

LEMMA ShowingSpread ==
    ASSUME IInv, Backing, Showing, SpreadStep
    PROVE  Showing'
BY ShowingFindAbove, ShowingWriteAbove, ShowingFindBelow, ShowingWriteBelow DEF SpreadStep

----------------------------------------------------------------------------
(* The goroutines of Trigger.                                               *)
LEMMA StillWide ==
    ASSUME Calm, UNCHANGED <<handler, nextDelegation>>, share \subseteq share'
    PROVE  Wide /\ \A u, v : Pairs(u, v)' = Pairs(u, v)
<1>1. \A u, v : Pairs(u, v)' = Pairs(u, v)  BY DEF Pairs, MadeDelegations, Calm
<1>2. \A x, u, v, r : Gives(x, u, v, r) => Gives(x, u, v, r)'  BY <1>1 DEF Gives
<1>3. \A T, u, v, r : Due(T, u, v, r) => Due(T, u, v, r)'  BY <1>2 DEF Due
<1>4. ASSUME NEW u, NEW v, NEW r, Coming(u, v, r) PROVE Coming(u, v, r)'
  <2>1. PICK g \in Handlers : handler[g].pc = "create" /\ Due(handler[g].todo, u, v, r)
    BY <1>4 DEF Coming
  <2>2. PICK T : T = handler[g].todo  OBVIOUS
  <2>3. Due(T, u, v, r)'  BY <1>3, <2>1, <2>2
  <2>4. Due(handler[g].todo, u, v, r)'  BY <2>2, <2>3
  <2>5. handler'[g].pc = "create"  BY <2>1
  <2> QED  BY <2>4, <2>5 DEF Coming
<1> QED  BY <1>1, <1>4, CalmWide

LEMMA ShowingCopies ==
    ASSUME IInv, Backing, Showing, Calm, UNCHANGED <<handler, spreading, nextDelegation>>,
           share \subseteq share',
           \A s \in share' : s \in share \/ s.delegation \in Pairs(s.from, s.to)',
           \A c \in copying' : c \in copying \/ CopyShows(c)',
           \A t \in TaskIds : IsCopy(t)' => Same(t) \/ TaskShows(t)'
    PROVE  Showing'
<1>1. Wide  BY StillWide
<1>2. UNCHANGED delegation  BY DEF Calm
<1>3. ASSUME NEW g \in Handlers PROVE RowShows(handler[g])'
  <2>1. PICK k : k = handler[g]  OBVIOUS
  <2>2. RowShows(k)  BY <2>1 DEF Showing
  <2>3. RowShows(k)'  BY <1>1, <1>2, <2>2, SameShows
  <2> QED  BY <2>1, <2>3
<1>4. ASSUME NEW u, NEW v, Ending(u, v) PROVE Ending(u, v)'
  BY <1>2, <1>4 DEF Ending, Between, Ends3
<1> QED  BY <1>1, <1>2, <1>3, <1>4, ShowingKept

(* Whose task a goroutine copies, and for whom.                             *)
LEMMA CopyKnown ==
    ASSUME IInv, Backing, NEW c \in copying
    PROVE  /\ c \in Copy /\ c.task \in Made /\ c.delegation \in MadeDelegations
           /\ Sole(task[c.task].name) => delegation[c.delegation].from = task[c.task].user
BY DEF IInv, TypeOK, RunsGood, GoodCopy, Backing, CopyFine

LEMMA ShowingFindCopyShare ==
    ASSUME IInv, Backing, Showing, NEW c \in copying, FindCopyShare(c)
    PROVE  Showing'
<1>1. PICK d, u, v, r : /\ d = c.delegation /\ u = delegation[d].from /\ v = delegation[d].to
                        /\ r = task[c.task].request
  OBVIOUS
<1>2. c \in Copy /\ (Sole(task[c.task].name) => task[c.task].user = u)  BY <1>1, CopyKnown
<1>3. UNCHANGED <<task, delegation, share, nextTask, nextDelegation, handler, spreading>>
  BY DEF FindCopyShare
<1>4. Calm /\ \A t \in TaskIds : IsCopy(t)' => Same(t)  BY <1>3, SameCalm
<1>5. PICK pc : /\ copying' = (copying \ {c}) \cup {[c EXCEPT !.pc = pc]}
                /\ pc = "addShare" \/ (pc = "look" /\ Has(u, v, r))
  <2>1. PICK new : new = ShareOf(d, r)  OBVIOUS
  <2>2. new.from = u /\ new.to = v /\ new.request = r  BY <1>1, <2>1, ShareFields
  <2>3. CASE Goes(c, "addShare")  BY <2>3 DEF Goes
  <2>4. CASE ~Goes(c, "addShare")
    <3>1. PICK s \in share : \/ s.from = new.from /\ s.to = new.to /\ s.request = new.request
                             \/ s = new
      BY <1>1, <2>1, <2>4 DEF FindCopyShare
    <3>2. Goes(c, "look")  BY <2>4 DEF FindCopyShare
    <3>3. Has(u, v, r)  BY <2>2, <3>1 DEF Has
    <3> QED  BY <3>2, <3>3 DEF Goes
  <2> QED  BY <2>3, <2>4
<1>6. PICK e : e = [c EXCEPT !.pc = pc]  OBVIOUS
<1>7. e.task = c.task /\ e.delegation = d /\ e.pc = pc  BY <1>1, <1>2, <1>6 DEF Copy
<1>8. CopyShows(e)'
  <2>1. CASE pc = "addShare"  BY <1>7, <2>1 DEF CopyShows
  <2>2. CASE Has(u, v, r)
    <3>1. Has(u, v, r)'  BY <1>3, <2>2 DEF Has
    <3>2. Sees(u, v, r)'  BY <3>1 DEF Sees
    <3>3. /\ Sole(task'[e.task].name) => task'[e.task].user = u
          /\ delegation'[e.delegation].to = v /\ task'[e.task].request = r
      BY <1>1, <1>2, <1>3, <1>7 DEF Sole
    <3> QED  BY <3>2, <3>3 DEF CopyShows, Sole
  <2> QED  BY <1>5, <2>1, <2>2
<1>9. \A k \in copying' : k \in copying \/ CopyShows(k)'  BY <1>5, <1>6, <1>8
<1>10. share \subseteq share' /\ \A s \in share' : s \in share  BY <1>3
<1> QED  BY <1>3, <1>4, <1>9, <1>10, ShowingCopies

LEMMA ShowingAddCopyShare ==
    ASSUME IInv, Backing, Showing, NEW c \in copying, AddCopyShare(c)
    PROVE  Showing'
<1>1. PICK d, u, v, r : /\ d = c.delegation /\ u = delegation[d].from /\ v = delegation[d].to
                        /\ r = task[c.task].request
  OBVIOUS
<1>2. /\ c \in Copy /\ d \in MadeDelegations
      /\ Sole(task[c.task].name) => task[c.task].user = u
  BY <1>1, CopyKnown
<1>3. PICK s, e : s = ShareOf(d, r) /\ e = [c EXCEPT !.pc = "look"]  OBVIOUS
<1>4. /\ UNCHANGED <<task, delegation, nextTask, nextDelegation, handler, spreading>>
      /\ share' = share \cup {s} /\ copying' = (copying \ {c}) \cup {e}
  BY <1>1, <1>3 DEF AddCopyShare, Goes
<1>5. s.delegation = d /\ s.from = u /\ s.to = v /\ s.request = r  BY <1>1, <1>3, ShareFields
<1>6. Calm /\ \A t \in TaskIds : IsCopy(t)' => Same(t)  BY <1>4, SameCalm
<1>7. s.delegation \in Pairs(s.from, s.to)'
  <2>1. d \in Pairs(u, v)  BY <1>1, <1>2 DEF Pairs
  <2>2. d \in Pairs(u, v)'  BY <1>4, <2>1 DEF Pairs, MadeDelegations
  <2> QED  BY <1>5, <2>2
<1>8. CopyShows(e)'
  <2>1. e.task = c.task /\ e.delegation = d  BY <1>1, <1>2, <1>3 DEF Copy
  <2>2. Has(u, v, r)'  BY <1>4, <1>5 DEF Has
  <2>3. Sees(u, v, r)'  BY <2>2 DEF Sees
  <2>4. /\ Sole(task'[e.task].name) => task'[e.task].user = u
        /\ delegation'[e.delegation].to = v /\ task'[e.task].request = r
    BY <1>1, <1>2, <1>4, <2>1 DEF Sole
  <2> QED  BY <2>3, <2>4 DEF CopyShows, Sole
<1>9. \A k \in copying' : k \in copying \/ CopyShows(k)'  BY <1>4, <1>8
<1>10. share \subseteq share' /\ \A z \in share' : z \in share \/ z.delegation \in Pairs(z.from, z.to)'
  BY <1>4, <1>7
<1> QED  BY <1>4, <1>6, <1>9, <1>10, ShowingCopies

LEMMA ShowingFindCopy ==
    ASSUME IInv, Backing, Showing, NEW c \in copying, FindCopy(c)
    PROVE  Showing'
<1>1. PICK e : e = [c EXCEPT !.pc = "add"]  OBVIOUS
<1>2. /\ UNCHANGED <<task, delegation, share, nextTask, nextDelegation, handler, spreading>>
      /\ c.pc = "look" /\ \A k \in copying' : k \in copying \/ k = e
  BY <1>1 DEF FindCopy, Goes
<1>3. Calm /\ \A t \in TaskIds : IsCopy(t)' => Same(t)  BY <1>2, SameCalm
<1>4. PICK u, v, r, n : /\ u = task[c.task].user /\ v = delegation[c.delegation].to
                        /\ r = task[c.task].request /\ n = task[c.task].name
  OBVIOUS
<1>5. Sole(n) => Sees(u, v, r)  BY <1>2, <1>4 DEF Showing, CopyShows
<1>6. share \subseteq share' /\ \A s \in share' : s \in share  BY <1>2
<1>7. Sole(n) => Sees(u, v, r)'  BY <1>2, <1>3, <1>5, <1>6, StillWide, WideSees
<1>8. e.task = c.task /\ e.delegation = c.delegation  BY <1>1, CopyKnown DEF Copy
<1>9. /\ task'[e.task].user = u /\ delegation'[e.delegation].to = v /\ task'[e.task].request = r
      /\ task'[e.task].name = n
  BY <1>2, <1>4, <1>8
<1>10. CopyShows(e)'  BY <1>7, <1>9 DEF CopyShows, Sole
<1> QED  BY <1>2, <1>3, <1>6, <1>10, ShowingCopies

LEMMA ShowingAddCopy ==
    ASSUME IInv, Backing, Showing, NEW c \in copying, AddCopy(c)
    PROVE  Showing'
<1>1. /\ copying' = copying \ {c} /\ c.pc = "add"
      /\ UNCHANGED <<delegation, share, handler, spreading, nextDelegation>>
  BY DEF AddCopy
<1>2. c \in Copy /\ c.task \in Made  BY CopyKnown
<1>3. share \subseteq share' /\ (\A s \in share' : s \in share) /\ \A k \in copying' : k \in copying
  BY <1>1
<1>4. CASE UNCHANGED <<task, nextTask>>
  <2>1. Calm /\ \A t \in TaskIds : IsCopy(t)' => Same(t)  BY <1>1, <1>4, SameCalm
  <2> QED  BY <1>1, <1>3, <2>1, ShowingCopies
<1>5. CASE ~UNCHANGED <<task, nextTask>>
  <2>1. PICK o, u, v, r : /\ o = c.task /\ u = task[o].user /\ v = delegation[c.delegation].to
                          /\ r = task[o].request
    OBVIOUS
  <2>2. PICK row : /\ row = [task[o] EXCEPT !.state = "open", !.bound = o,
                                            !.entity = NoEntity, !.user = v]
                   /\ AddTask(row)
    BY <1>5, <2>1 DEF AddCopy
  <2>3. PICK n \in TaskIds : /\ n = nextTask /\ ~Exists(n) /\ n \notin Made
                             /\ \A t \in TaskIds : task'[t] = IF t = n THEN row ELSE task[t]
    BY <2>2, AddedRow
  <2>4. nextTask' = nextTask + 1  BY <2>2 DEF AddTask
  <2>5. Calm  BY <1>1, <2>3, <2>4, AddCalm
  <2>6. Sole(task[o].name) => Sees(u, v, r)  BY <1>1, <2>1 DEF Showing, CopyShows
  <2>7. Sole(task[o].name) => Sees(u, v, r)'  BY <1>1, <1>3, <2>5, <2>6, StillWide, WideSees
  <2>8. ASSUME NEW t \in TaskIds, IsCopy(t)' PROVE Same(t) \/ TaskShows(t)'
    <3>1. CASE t # n
      <4>1. task'[t] = task[t]  BY <2>3, <3>1
      <4> QED  BY <2>8, <4>1 DEF IsCopy, Personal, IsOpen, Same
    <3>2. CASE t = n
      <4>1. task[o] \in TaskRow  BY <1>2, <2>1, TaskRows DEF Copy
      <4>2. row.bound = o /\ row.user = v /\ row.request = r /\ row.name = task[o].name
        BY <2>1, <2>2, <4>1 DEF TaskRow
      <4>3. /\ task'[t].bound = o /\ task'[t].user = v /\ task'[t].request = r
            /\ task'[t].name = task[o].name
        BY <2>3, <3>2, <4>2
      <4>4. task'[o].user = u  BY <1>2, <2>1, <2>5 DEF Calm
      <4>5. Owner(t)' = u  BY <4>3, <4>4 DEF Owner
      <4>6. Sole(task[o].name)  BY <2>8, <4>3 DEF IsCopy, Personal, Sole
      <4> QED  BY <2>7, <4>3, <4>5, <4>6 DEF TaskShows
    <3> QED  BY <3>1, <3>2
  <2> QED  BY <1>1, <1>3, <2>5, <2>8, ShowingCopies
<1> QED  BY <1>4, <1>5

LEMMA ShowingCopyStep ==
    ASSUME IInv, Backing, Showing, CopyStep
    PROVE  Showing'
BY ShowingFindCopyShare, ShowingAddCopyShare, ShowingFindCopy, ShowingAddCopy DEF CopyStep

----------------------------------------------------------------------------
(* The end of a delegation.  Nobody else is at work.                        *)
LEMMA NoneComing ==
    ASSUME Turnwise, NEW h \in Handlers, handler[h].pc \in Ends3
    PROVE  \A u, v, r : Sees(u, v, r) => (Only(u, v) => Has(u, v, r))
<1>1. \A g \in Handlers : handler[g].pc # "create"  BY DEF Turnwise, Busy, Ends3
<1>2. \A u, v, r : ~Coming(u, v, r)  BY <1>1 DEF Coming
<1> QED  BY <1>2 DEF Sees

LEMMA ShowingEnding ==
    ASSUME IInv, Turnwise, Backing, Showing, NEW h \in Handlers, handler[h].pc \in Ends3, NEW m,
           handler' = [handler EXCEPT ![h] = m], RowShows(m)',
           UNCHANGED <<delegation, nextDelegation, copying, spreading>>, share' \subseteq share,
           \A t \in TaskIds : IsCopy(t)' => TaskShows(t)' \/ Ending(Owner(t), task[t].user)'
    PROVE  Showing'
<1>1. Busy(h)  BY DEF Busy, Ends3
<1>2. copying' = {} /\ spreading' = {}  BY <1>1 DEF Turnwise, Backing, Quiet
<1>3. \A g \in Handlers : handler'[g] = IF g = h THEN m ELSE handler[g]  BY OneRow
<1>4. ASSUME NEW g \in Handlers PROVE RowShows(handler[g])'
  <2>1. CASE g = h
    <3>1. handler'[g] = m  BY <1>3, <2>1
    <3> QED  BY <3>1
  <2>2. CASE g # h
    <3>1. handler'[g].pc = "idle"  BY <1>1, <1>3, <2>2 DEF Turnwise, Busy
    <3> QED  BY <3>1 DEF RowShows, Ends3
  <2> QED  BY <2>1, <2>2
<1>5. \A u, v : Pairs(u, v)' = Pairs(u, v)  BY DEF Pairs, MadeDelegations
<1>6. \A s \in share' : s.delegation \in Pairs(s.from, s.to)'  BY <1>5 DEF Showing
<1> QED  BY <1>2, <1>4, <1>6 DEF Showing

(* What is said of a copy stays true of its owner and delegate.             *)
LEMMA CopyStands ==
    ASSUME Backing, Showing, NEW t \in TaskIds, IsCopy(t), NEW o, o = task[t].bound,
           NEW u, u = task[o].user, NEW v, v = task[t].user, NEW r, r = task[t].request
    PROVE  o \in TaskIds /\ (Sees(u, v, r) \/ Ending(u, v))
<1>1. o \in TaskIds  BY DEF Backing, Copied, Stands
<1>2. TaskShows(t) \/ Ending(Owner(t), task[t].user)  BY DEF Showing
<1> QED  BY <1>1, <1>2 DEF TaskShows, Owner

LEMMA ShowingDeleteShares ==
    ASSUME IInv, Turnwise, Backing, Showing, NEW h \in Handlers, DeleteShares(h)
    PROVE  Showing'
<1>1. PICK d, m : d = handler[h].delegation /\ m = [handler[h] EXCEPT !.pc = "rivals"]  OBVIOUS
<1>2. /\ handler[h].pc = "unshare" /\ handler' = [handler EXCEPT ![h] = m]
      /\ share' = share \ SharesOf(d)
      /\ UNCHANGED <<task, delegation, nextDelegation, copying, spreading>>
  BY <1>1 DEF DeleteShares, IInv, TypeOK
<1>3. m.pc = "rivals" /\ m.delegation = d  BY <1>1, TaskRows DEF HandlerRow
<1>4. handler[h].pc \in Ends3  BY <1>2 DEF Ends3
<1>5. ~delegation[d].exists  BY <1>1, <1>4 DEF Showing, RowShows
<1>6. RowShows(m)'
  <2>1. ~delegation'[m.delegation].exists  BY <1>2, <1>3, <1>5
  <2> QED  BY <1>3, <2>1 DEF RowShows
<1>7. handler'[h] = m  BY <1>2 DEF IInv, TypeOK
<1>8. \A u, v : d \in Between(u, v) => Ending(u, v)'
  <2> SUFFICES ASSUME NEW u, NEW v, d \in Between(u, v) PROVE Ending(u, v)'  OBVIOUS
  <2>1. d \in Between(u, v)'  BY <1>2 DEF Between
  <2>2. handler'[h].pc \in Ends3 /\ handler'[h].delegation = d  BY <1>3, <1>7 DEF Ends3
  <2> QED  BY <2>1, <2>2 DEF Ending, Ends3
<1>9. ASSUME NEW t \in TaskIds, IsCopy(t)'
      PROVE  TaskShows(t)' \/ Ending(Owner(t), task[t].user)'
  <2>1. PICK o, u, v, r : o = task[t].bound /\ u = task[o].user /\ v = task[t].user
                          /\ r = task[t].request
    OBVIOUS
  <2>2. IsCopy(t)  BY <1>2, <1>9 DEF IsCopy, Personal, IsOpen
  <2>3. Sees(u, v, r) \/ Ending(u, v)  BY <2>1, <2>2, CopyStands
  <2>4. Owner(t)' = u /\ task'[t].user = v /\ task'[t].request = r  BY <1>2, <2>1 DEF Owner
  <2>5. CASE d \in Between(u, v)  BY <1>8, <2>4, <2>5
  <2>6. CASE d \notin Between(u, v)
    <3>1. ~Ending(u, v)  BY <1>1, <1>4, <2>6, OneEnding
    <3>2. Only(u, v) => Has(u, v, r)  BY <1>4, <2>3, <3>1, NoneComing
    <3>3. Has(u, v, r) => Has(u, v, r)'
      <4> SUFFICES ASSUME NEW s \in share, s.from = u, s.to = v, s.request = r PROVE Has(u, v, r)'
        BY DEF Has
      <4>1. s.delegation \in Between(u, v)  BY DEF Showing, Pairs, Between, MadeDelegations
      <4>2. s \in share'  BY <1>2, <2>6, <4>1 DEF SharesOf
      <4> QED  BY <4>2 DEF Has
    <3>4. Only(u, v)' => Only(u, v)  BY <1>2 DEF Only, Pairs, MadeDelegations
    <3>5. Sees(u, v, r)'  BY <3>2, <3>3, <3>4 DEF Sees
    <3> QED  BY <2>4, <3>5 DEF TaskShows
  <2> QED  BY <2>5, <2>6
<1>10. share' \subseteq share  BY <1>2
<1> QED  BY <1>2, <1>4, <1>6, <1>9, <1>10, ShowingEnding

LEMMA ShowingFindRivals ==
    ASSUME IInv, Turnwise, Backing, Showing, NEW h \in Handlers, FindRivals(h)
    PROVE  Showing'
<1>1. PICK d, w : d = handler[h].delegation /\ w = [handler[h] EXCEPT !.pc = "withdraw"]  OBVIOUS
<1>2. /\ handler[h].pc = "rivals"
      /\ UNCHANGED <<task, delegation, share, nextDelegation, copying, spreading>>
  BY DEF FindRivals
<1>3. PICK m : /\ handler' = [handler EXCEPT ![h] = m]
               /\ (m = Idle /\ Rivals(d) # {}) \/ m = w
  BY <1>1 DEF FindRivals, IInv, TypeOK
<1>4. w.pc = "withdraw" /\ w.delegation = d  BY <1>1, TaskRows DEF HandlerRow
<1>5. handler[h].pc \in Ends3  BY <1>2 DEF Ends3
<1>6. ~delegation[d].exists /\ d \in MadeDelegations
  <2>1. ~delegation[d].exists  BY <1>1, <1>5 DEF Showing, RowShows
  <2>2. d \in MadeDelegations  BY <1>1, <1>2 DEF IInv, CallsGood, GoodHandler
  <2> QED  BY <2>1, <2>2
<1>7. RowShows(m)'
  <2>1. CASE m = Idle  BY <2>1, IdleShows
  <2>2. CASE m = w
    <3>1. ~delegation'[m.delegation].exists /\ m.pc = "withdraw"  BY <1>2, <1>4, <1>6, <2>2
    <3> QED  BY <3>1 DEF RowShows
  <2> QED  BY <1>3, <2>1, <2>2
<1>8. handler'[h] = m  BY <1>3 DEF IInv, TypeOK
<1>9. \A u, v : Pairs(u, v)' = Pairs(u, v)  BY <1>2 DEF Pairs, MadeDelegations
<1>10. ASSUME NEW u, NEW v, NEW r, d \in Between(u, v) PROVE Sees(u, v, r)' \/ Ending(u, v)'
  <2>1. CASE m = w
    <3>1. d \in Between(u, v)'  BY <1>2, <1>10 DEF Between
    <3>2. handler'[h].pc \in Ends3 /\ handler'[h].delegation = d  BY <1>4, <1>8, <2>1 DEF Ends3
    <3> QED  BY <3>1, <3>2 DEF Ending, Ends3
  <2>2. CASE Rivals(d) # {}
    <3>1. PICK e \in DelegationIds : /\ Current(e) /\ delegation[e].from = delegation[d].from
                                     /\ delegation[e].to = delegation[d].to
      BY <2>2 DEF Rivals
    <3>2. e # d  BY <1>6, <3>1 DEF Current
    <3>3. e \in MadeDelegations  BY <3>1, CurrentMade DEF Current
    <3>4. d \in Pairs(u, v) /\ e \in Pairs(u, v)  BY <1>6, <1>10, <3>1, <3>3 DEF Pairs, Between
    <3>5. ~Only(u, v)  BY <3>2, <3>4 DEF Only
    <3>6. ~Only(u, v)'  BY <1>9, <3>5 DEF Only
    <3> QED  BY <3>6 DEF Sees
  <2> QED  BY <1>3, <2>1, <2>2
<1>11. ASSUME NEW t \in TaskIds, IsCopy(t)'
       PROVE  TaskShows(t)' \/ Ending(Owner(t), task[t].user)'
  <2>1. PICK o, u, v, r : o = task[t].bound /\ u = task[o].user /\ v = task[t].user
                          /\ r = task[t].request
    OBVIOUS
  <2>2. IsCopy(t)  BY <1>2, <1>11 DEF IsCopy, Personal, IsOpen
  <2>3. Sees(u, v, r) \/ Ending(u, v)  BY <2>1, <2>2, CopyStands
  <2>4. Owner(t)' = u /\ task'[t].user = v /\ task'[t].request = r  BY <1>2, <2>1 DEF Owner
  <2>5. Sees(u, v, r)' \/ Ending(u, v)'
    <3>1. CASE d \in Between(u, v)  BY <1>10, <3>1
    <3>2. CASE d \notin Between(u, v)
      <4>1. ~Ending(u, v)  BY <1>1, <1>5, <3>2, OneEnding
      <4>2. Only(u, v) => Has(u, v, r)  BY <1>5, <2>3, <4>1, NoneComing
      <4>3. Has(u, v, r) => Has(u, v, r)'  BY <1>2 DEF Has
      <4>4. Only(u, v)' => Only(u, v)  BY <1>9 DEF Only
      <4> QED  BY <4>2, <4>3, <4>4 DEF Sees
    <3> QED  BY <3>1, <3>2
  <2> QED  BY <2>4, <2>5 DEF TaskShows
<1>12. share' \subseteq share  BY <1>2
<1> QED  BY <1>2, <1>3, <1>5, <1>7, <1>11, <1>12, ShowingEnding

LEMMA ShowingWithdraw ==
    ASSUME IInv, Turnwise, Backing, Showing, NEW h \in Handlers, WithdrawCopies(h)
    PROVE  Showing'
<1>1. PICK me, d, mine : /\ me = handler[h] /\ d = me.delegation
                         /\ mine = {t \in TaskIds : Exists(t) /\ task[t].user = me.user}
  OBVIOUS
<1>2. PICK copies : copies = {t \in TaskIds : /\ IsOpen(t) /\ task[t].user = delegation[d].to
                                              /\ task[t].bound \in mine}
  OBVIOUS
<1>3. PICK m : m = Idle  OBVIOUS
<1>4. /\ me.pc = "withdraw" /\ handler' = [handler EXCEPT ![h] = m]
      /\ task' = [t \in TaskIds |-> IF t \in copies THEN [task[t] EXCEPT !.state = "none"] ELSE task[t]]
      /\ UNCHANGED <<delegation, share, nextDelegation, copying, spreading>>
  BY <1>1, <1>2, <1>3 DEF WithdrawCopies
<1>5. \A t \in TaskIds : /\ task'[t].user = task[t].user
                         /\ t \notin copies => task'[t] = task[t]
                         /\ t \in copies => task'[t].state = "none"
  <2> SUFFICES ASSUME NEW t \in TaskIds
               PROVE  /\ task'[t].user = task[t].user
                      /\ t \notin copies => task'[t] = task[t]
                      /\ t \in copies => task'[t].state = "none"
    OBVIOUS
  <2>1. task[t] \in TaskRow  BY TaskRows
  <2> QED  BY <1>4, <2>1 DEF TaskRow
<1>6. handler[h].pc \in Ends3  BY <1>1, <1>4 DEF Ends3
<1>7. me.user = delegation[d].from  BY <1>1, <1>6 DEF Backing, RowFine
<1>8. ASSUME NEW t \in TaskIds, IsCopy(t)' PROVE TaskShows(t)'
  <2>1. PICK o, u, v, r : o = task[t].bound /\ u = task[o].user /\ v = task[t].user
                          /\ r = task[t].request
    OBVIOUS
  <2>2. t \notin copies /\ task'[t] = task[t]  BY <1>5, <1>8 DEF IsCopy, Personal, IsOpen
  <2>3. IsCopy(t)  BY <1>8, <2>2 DEF IsCopy, Personal, IsOpen
  <2>4. o \in TaskIds /\ (Sees(u, v, r) \/ Ending(u, v))  BY <2>1, <2>3, CopyStands
  <2>5. ~Ending(u, v)
    <3> SUFFICES ASSUME Ending(u, v) PROVE FALSE  OBVIOUS
    <3>1. d \in Between(u, v)  BY <1>1, <1>6, OneEnding
    <3>2. u = me.user /\ v = delegation[d].to  BY <1>7, <3>1 DEF Between
    <3>3. Stands(o)  BY <2>1, <2>3 DEF Backing, Copied
    <3>4. o \in mine  BY <1>1, <2>1, <3>2, <3>3 DEF Stands
    <3> QED  BY <1>2, <2>1, <2>2, <2>3, <3>2, <3>4 DEF IsCopy, Personal
  <2>6. Only(u, v) => Has(u, v, r)  BY <1>6, <2>4, <2>5, NoneComing
  <2>7. Has(u, v, r) => Has(u, v, r)'  BY <1>4 DEF Has
  <2>8. Only(u, v)' => Only(u, v)  BY <1>4 DEF Only, Pairs, MadeDelegations
  <2>9. Sees(u, v, r)'  BY <2>6, <2>7, <2>8 DEF Sees
  <2>10. task'[t].bound = o /\ task'[t].user = v /\ task'[t].request = r /\ task'[o].user = u
    BY <1>5, <2>1, <2>2, <2>4
  <2>11. Owner(t)' = u  BY <2>10 DEF Owner
  <2> QED  BY <2>9, <2>10, <2>11 DEF TaskShows
<1>9. RowShows(m)'  BY <1>3, IdleShows
<1>10. share' \subseteq share  BY <1>4
<1> QED  BY <1>4, <1>6, <1>8, <1>9, <1>10, ShowingEnding

----------------------------------------------------------------------------
LEMMA ShowingStutter ==
    ASSUME IInv, Backing, Showing, UNCHANGED vars
    PROVE  Showing'
<1>1. UNCHANGED <<task, delegation, share, nextTask, handler, spreading, copying, nextDelegation>>
  BY DEF vars
<1>2. Calm /\ \A t \in TaskIds : IsCopy(t)' => Same(t)  BY <1>1, SameCalm
<1>3. /\ share \subseteq share' /\ \A s \in share' : s \in share
      /\ \A c \in copying' : c \in copying
  BY <1>1
<1> QED  BY <1>1, <1>2, <1>3, ShowingCopies

LEMMA ShowingProceed ==
    ASSUME IInv, Turnwise, Backing, Showing, ~InsertsMayFail, NEW h \in Handlers, Proceed(h)
    PROVE  Showing'
<1>1. CASE FindTask(h) \/ InsertTask(h) \/ GiveOwner(h) \/ Rebind(h) \/ GiveDelegates(h)
           \/ FindShare(h) \/ AddShare(h)
  BY <1>1, ShowingFindTask, ShowingInsert, ShowingGiveOwner, ShowingRebind, ShowingGiveDelegates,
     ShowingFindShare, ShowingAddShare
<1>2. CASE UpdateTask(h) \/ RereadTask(h) \/ ReadRequest(h) \/ CheckOthers(h) \/ AdvanceRequest(h)
  BY <1>2, ShowingUpdateTask, ShowingPlain, ShowingAdvance
<1>3. CASE Trigger(h) \/ DeleteShares(h) \/ FindRivals(h) \/ WithdrawCopies(h)
  BY <1>3, ShowingTrigger, ShowingDeleteShares, ShowingFindRivals, ShowingWithdraw
<1>4. ~InsertFails(h)  BY DEF InsertFails
<1> QED  BY <1>1, <1>2, <1>3, <1>4 DEF Proceed

LEMMA NextShowing ==
    ASSUME IInv, Turnwise, Backing, Showing, Alone = Calls, ~InsertsMayFail, ~Daily, [Next]_vars
    PROVE  Showing'
<1>1. ASSUME NEW d \in DelegationIds, NEW w \in {"current", "past"}, Today(d, w) PROVE Showing'
  <2>1. AtRest  BY <1>1 DEF Today, Calls
  <2> QED  BY <1>1, <2>1, ShowingToday
<1> QED  BY <1>1, ShowingCall, ShowingProceed, ShowingSpread, ShowingCopyStep, ShowingStutter DEF Next

(* A delegate who has a copy to work on, of a step of no entity, has the    *)
(* share that lets him see its data (utils.go:240-263,                      *)
(* delegation_service.go:77-102, 129-142), if only one delegation was ever  *)
(* made between the two: for every workflow, any                            *)
(* number of users and delegations, and whatever UPDATEs are refused.  It   *)
(* is assumed that every call waits until nobody is at work, that no INSERT *)
(* is refused, that delegations end by hand, and that no delegate delegates *)
(* in turn.                                                                 *)
THEOREM CopiesSharedCorrect ==
    ASSUME Alone = Calls, ~InsertsMayFail, ~Daily, NoChain
    PROVE  Spec => []CopiesShared
<1>1. Init => IInv /\ Turnwise /\ Single /\ Backing /\ Showing
  BY Starts, InitSingle, InitBacking, InitShowing
<1>2. IInv /\ Turnwise /\ Single /\ Backing /\ Showing /\ [Next]_vars
        => (IInv /\ Turnwise /\ Single /\ Backing /\ Showing)'
  BY Keeps, NextSingle, NextBacking, NextShowing
<1>3. Showing => CopiesShared
  <2> SUFFICES ASSUME Showing, AtRest, NEW t \in TaskIds, IsCopy(t),
                      Cardinality(Between(Owner(t), task[t].user)) = 1
               PROVE  \E s \in share : /\ s.from = Owner(t) /\ s.to = task[t].user
                                       /\ s.request = task[t].request
    BY DEF CopiesShared
  <2>1. PICK u, v, r : u = Owner(t) /\ v = task[t].user /\ r = task[t].request  OBVIOUS
  <2>2. Sees(u, v, r) \/ Ending(u, v)  BY <2>1 DEF Showing, TaskShows
  <2>3. ~Ending(u, v) /\ ~Coming(u, v, r)  BY DEF Ending, Coming, AtRest, Ends3
  <2>4. Only(u, v)
    <3>1. IsFiniteSet(Between(u, v))
      <4>1. IsFiniteSet(DelegationIds)  BY Sizes, FS_Interval
      <4> QED  BY <4>1, FS_Subset DEF Between
    <3>2. PICK x : Between(u, v) = {x}
      <4>1. PICK S : S = Between(u, v)  OBVIOUS
      <4>2. IsFiniteSet(S) /\ Cardinality(S) = 1  BY <2>1, <3>1, <4>1
      <4> QED  BY <4>1, <4>2, FS_Singleton
    <3>3. Pairs(u, v) \subseteq {x}  BY <3>2 DEF Pairs, Between, MadeDelegations
    <3> QED  BY <3>3 DEF Only
  <2>5. Has(u, v, r)  BY <2>2, <2>3, <2>4 DEF Sees
  <2> QED  BY <2>1, <2>5 DEF Has
<1> QED  BY <1>1, <1>2, <1>3, PTL DEF Spec
=============================================================================
