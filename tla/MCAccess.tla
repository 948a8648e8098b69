------------------------------ MODULE MCAccess ------------------------------
(***************************************************************************)
(* Access for TLC: symmetry.                                               *)
(***************************************************************************)
EXTENDS Access

Symmetry == Permutations(Uuids) \union Permutations(Requests) \union Permutations(Calls)
=============================================================================
