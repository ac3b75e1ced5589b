------------------------ MODULE DelegationProperties ------------------------
(***************************************************************************)
(* What the delegation of tasks has to keep, and what the repository says  *)
(* of it.  Most of it is said of the moments when nobody is at work: the   *)
(* goroutines that copy and close tasks have come to their ends, in        *)
(* whatever order.                                                         *)
(***************************************************************************)
EXTENDS Delegations

(* A request that has ended is walked through once more by answers repeated *)
(* after its end (task_service.go:162-210): until one is, it has moved      *)
(* forward only.                                                            *)
FirstWalk == \A r \in RequestIds : ~request[r].again
(* Of a step given to no entity.  A delegation of all tasks takes in those  *)
(* of other users that share an entity with a task of its owner             *)
(* (delegation_service.go:58-66): their copies are made with no delegation  *)
(* between the two, and are never withdrawn.                                *)
Personal(t) == Entity[task[t].name] = NoEntity

(* An open copy made for a delegate, who is not in charge of the step, of a *)
(* task of no entity.                                                       *)
IsCopy(t) ==
    /\ IsOpen(t) /\ Personal(t)
    /\ task[t].bound \notin {0, t} /\ task[t].user # Assignee[task[t].name]
Owner(t) == task[task[t].bound].user
Between(u, v) == {d \in DelegationIds : delegation[d].from = u /\ delegation[d].to = v}
IsClosed(t) == task[t].state = "closed"
(* Bound to nothing, or to itself, as UpdateDelegated leaves what it closed *)
(* for a copy of it.                                                        *)
Root(t) == task[t].bound \in {0, t}
Bound(s, t) == s # t /\ task[s].bound = t

(* A task is bound to a task of the same request and the same step, however *)
(* copies, bindings and the goroutines of UpdateDelegated interleave        *)
(* (utils.go:208-218, 235, 309, 324; delegation_service.go:75): closing one *)
(* never closes work of another step.                                       *)
BoundAlike ==
    \A t \in TaskIds : (Exists(t) /\ task[t].bound # 0) =>
        LET o == task[t].bound IN /\ o \in 1 .. nextTask - 1
                                  /\ task[o].request = task[t].request
                                  /\ task[o].name = task[t].name

(* Where all delegate to one user, who delegates to nobody, and a workflow  *)
(* has two steps, a task and its copy are open together and closed          *)
(* together, whoever closes which of them (UpdateDelegated,                 *)
(* utils.go:283-336), as long as no request is walked again.  With a second *)
(* delegate, a third step or a second walk, a task closed by one user       *)
(* leaves the copies of others open.                                        *)
ClosedTogether ==
    (AtRest /\ FirstWalk) => \A t \in TaskIds :
        (Exists(t) /\ task[t].bound # 0 /\ Exists(task[t].bound)) =>
            (IsOpen(t) <=> IsOpen(task[t].bound))

(* Under the same conditions, when a request has moved on, no copy or       *)
(* original of an earlier step is left open, nor is there work for a step   *)
(* not reached (task_service.go:130-218): UpdateDelegated must have closed  *)
(* it, since the test for other pending tasks leaves out those of the same  *)
(* name.  A second walk leaves such tasks behind.                           *)
OpenHere ==
    (AtRest /\ FirstWalk) => \A t \in TaskIds : IsOpen(t) => Level[task[t].name] = place[task[t].request]

(* Whoever delegates to whom: what a closed task is bound to is not open,   *)
(* and a task that is bound to no other is never closed alone, without one  *)
(* of those bound to it (UpdateDelegated, utils.go:283-336).                *)
ClosingSpreads ==
    AtRest => \A t \in TaskIds : IsClosed(t) =>
        /\ task[t].bound # 0 => ~IsOpen(task[t].bound)
        /\ (Root(t) /\ \E s \in TaskIds : Exists(s) /\ Bound(s, t)) =>
               \E s \in TaskIds : IsClosed(s) /\ Bound(s, t)

(* Whoever delegates to whom: work is never open for a step that is not     *)
(* reached, and when a request has moved on, a task of an earlier step that *)
(* is still open has been passed over for a closed one that it has nothing  *)
(* to do with: neither is bound to the other (task_service.go:130-218,      *)
(* utils.go:283-336).  Said of requests that are not walked again: the      *)
(* index of one that is goes back below the tasks it has given out.         *)
PassedOver ==
    (AtRest /\ FirstWalk) => \A t \in TaskIds : IsOpen(t) =>
        LET at == place[task[t].request] IN
        /\ at # -1 => Level[task[t].name] <= at
        /\ Level[task[t].name] # at =>
               \E x \in TaskIds : /\ IsClosed(x) /\ ~Bound(x, t) /\ ~Bound(t, x)
                                  /\ task[x].request = task[t].request /\ task[x].name = task[t].name

(* Nobody has two open tasks for one step of no entity: neither triggering  *)
(* a delegation again nor the next step's own delegates make a second copy  *)
(* (utils.go:128-134, delegation_service.go:103-108, 144-149), in a second  *)
(* walk neither.                                                            *)
OneOfEach ==
    AtRest => \A t, s \in TaskIds :
        (/\ IsOpen(t) /\ IsOpen(s) /\ Personal(t) /\ task[t].user = task[s].user
         /\ task[t].name = task[s].name /\ task[t].request = task[s].request) => t = s

(* No share outlives its delegation (delegation_service.go:168-171): the    *)
(* delegate must not see the data for longer.                               *)
SharesFollow == AtRest => \A s \in share : delegation[s.delegation].exists

(* A delegate has an open copy only while a delegation that has begun       *)
(* stands between the two (delegation_service.go:172-189), if no delegate   *)
(* delegates in turn, no INSERT of an owner's task is refused, and          *)
(* delegations end by hand: the daily loop withdraws no copy.               *)
CopiesDelegated ==
    AtRest => \A t \in TaskIds : IsCopy(t) =>
        \E d \in Between(Owner(t), task[t].user) :
            delegation[d].exists /\ delegation[d].window # "coming"

(* A delegate who has a copy to work on has the share that lets him see its *)
(* data (utils.go:240-263, delegation_service.go:77-102, 129-142), if only  *)
(* one delegation was ever made between the two: of two, the first one      *)
(* deleted takes the only share away.                                       *)
CopiesShared ==
    AtRest => \A t \in TaskIds :
        (IsCopy(t) /\ Cardinality(Between(Owner(t), task[t].user)) = 1) =>
            \E s \in share : /\ s.from = Owner(t) /\ s.to = task[t].user
                             /\ s.request = task[t].request

(* The goroutines of UpdateDelegated, each of which may start others, come  *)
(* to an end as long as UPDATEs are accepted (utils.go:303-335), and every  *)
(* call answers: again and again nobody is at work.                         *)
Settles == []<>AtRest

(* A call and a goroutine go on as long as they can: Go's scheduler runs    *)
(* each, and a statement ends.                                              *)
Fairness == (\A h \in Handlers : WF_vars(Proceed(h))) /\ WF_vars(SpreadStep) /\ WF_vars(CopyStep)
FairSpec == Spec /\ Fairness

----------------------------------------------------------------------------
(* What is closed is never written again, when every call waits until       *)
(* nobody is at work and no UPDATE is refused: a goroutine of               *)
(* UpdateDelegated writes "open" on rows it read before another goroutine   *)
(* may close them (utils.go:303-335).                                       *)
ClosedKept == [][\A t \in TaskIds : IsClosed(t) => task'[t] = task[t]]_vars

(* task_service.go:83: "task is already closed, you cannot change its       *)
(* state".  Said of any task and any writer.                                *)
StaysClosed ==
    [][\A t \in TaskIds : IsClosed(t) => task'[t].state = "closed"]_vars
=============================================================================
