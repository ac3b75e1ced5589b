------------------------- MODULE MCRequestWorkflow -------------------------
(* Instances of RequestWorkflow for TLC: tables of steps and hierarchies.   *)
EXTENDS RequestDocumented, RequestRefinement, TLC

CONSTANTS ann, bob, main, sub

Plain == [workflow |-> main, index |-> 1, user |-> ann, optionnal |-> FALSE, before |-> FALSE,
          toCreator |-> FALSE, renamed |-> FALSE, ownData |-> FALSE, wraps |-> NoWorkflow]

NoParents == [u \in Users |-> {}]

(* Two users work side by side on step 1, then one of them on step 2.        *)
ChainSteps ==
    "check" :> Plain @@ "audit" :> [Plain EXCEPT !.user = bob]
    @@ "sign" :> [Plain EXCEPT !.index = 2]

(* The dismissals' table: a step given to the creator, a step with data of  *)
(* its own that renames the state, and an optional one at the end.          *)
TurnSteps ==
    "check" :> [Plain EXCEPT !.toCreator = TRUE]
    @@ "sign" :> [Plain EXCEPT !.index = 2, !.user = bob, !.ownData = TRUE, !.renamed = TRUE]
    @@ "file" :> [Plain EXCEPT !.index = 3, !.optionnal = TRUE]

(* Two parallel tasks before a single one; the other workflow asks for a    *)
(* verification first.                                                      *)
ParallelSteps ==
    "check" :> Plain @@ "audit" :> [Plain EXCEPT !.user = bob]
    @@ "sign" :> [Plain EXCEPT !.index = 2]
    @@ "seal" :> [Plain EXCEPT !.workflow = sub, !.before = TRUE]

(* Two parallel tasks, then a choice between a step with data of its own    *)
(* and one that wraps another workflow, whose only step the superiors of    *)
(* its creator validate first.                                              *)
PathSteps ==
    "check" :> [Plain EXCEPT !.toCreator = TRUE] @@ "audit" :> [Plain EXCEPT !.user = bob]
    @@ "sign" :> [Plain EXCEPT !.index = 2, !.ownData = TRUE]
    @@ "join" :> [Plain EXCEPT !.index = 2, !.user = bob, !.wraps = sub]
    @@ "part" :> [Plain EXCEPT !.workflow = sub, !.user = bob, !.before = TRUE]
BobAboveAnn == (ann :> {bob}) @@ (bob :> {})

Closing == {"completed", "refused"}
Answers == {"completed", "dismiss", "refused", "running"}
Anything == Ended \cup {"running"}
=============================================================================
