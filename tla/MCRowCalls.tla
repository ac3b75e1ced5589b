----------------------------- MODULE MCRowCalls -----------------------------
(* An instance of RowCalls for TLC.                                         *)
EXTENDS RowProperties, TLC

CONSTANTS view, role

(* A row by its id, then one by a filter.                                   *)
Asked == {<<[rows |-> {1}, byId |-> TRUE], [rows |-> {2}, byId |-> FALSE]>>}
Symmetric == Permutations(Users) \cup Permutations(Calls)
=============================================================================
