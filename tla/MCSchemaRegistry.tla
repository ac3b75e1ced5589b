--------------------------- MODULE MCSchemaRegistry ---------------------------
(* Two schemas; the field "many" points to the second one. *)
EXTENDS RegistryProperties, TLC

CONSTANTS s1, s2, f1, f2, c1, c2
MCTarget == ("many" :> s2)
CallSymmetry == Permutations(Calls)
=============================================================================
