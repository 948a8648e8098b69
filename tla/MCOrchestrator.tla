--------------------------- MODULE MCOrchestrator ---------------------------
(***************************************************************************)
(* Orchestrator for TLC: symmetry for the runs without liveness.           *)
(***************************************************************************)
EXTENDS Orchestrator, TLC

Symmetry == Permutations(Uuids) \union Permutations(IPs)
=============================================================================
