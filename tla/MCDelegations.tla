--------------------------- MODULE MCDelegations ---------------------------
(* Instances of Delegations for TLC: small workflows, and who may delegate  *)
(* to whom.                                                                 *)
EXTENDS DelegationProperties, TLC

CONSTANTS ann, bob, carl, staff

(* One step of ann's; or one of hers, then one of bob's.                    *)
Turn == [check |-> 1]
TurnUsers == [check |-> ann]
Chain == [check |-> 1, sign |-> 2]
ChainUsers == [check |-> ann, sign |-> bob]

(* No step has an entity, the second one has, or both have the same.        *)
NoneStaffed == [n \in Names |-> NoEntity]
SignStaffed == [check |-> NoEntity, sign |-> staff]
AllStaffed == [n \in Names |-> staff]

(* Both delegate to carl, or ann to both others.                            *)
ToCarl == ann :> {carl} @@ bob :> {carl} @@ carl :> {}
AnnToBoth == ann :> {bob, carl} @@ bob :> {} @@ carl :> {}
=============================================================================
