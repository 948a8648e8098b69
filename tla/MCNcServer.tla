----------------------------- MODULE MCNcServer -----------------------------
(***************************************************************************)
(* NcServer for TLC: symmetry for the run without liveness.                *)
(***************************************************************************)
EXTENDS NcServer, TLC

Symmetry == Permutations(Conns) \union Permutations(IPs)
=============================================================================
