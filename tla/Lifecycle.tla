----------------------------- MODULE Lifecycle -----------------------------
(***************************************************************************)
(* What the orchestrator promises of an instance to those who only look    *)
(* at it, the RPC proxy and the solve check: its row goes one way, and an  *)
(* instance that was running is not marked ended while its node still      *)
(* answers.  (kill and the reaper remove the container first and write the *)
(* status afterwards; reconcile_startup marks rows that have no container.)*)
(***************************************************************************)
EXTENDS FiniteSets

CONSTANTS
    Uuids,
    NoUuid              \* what an idle task works on

ASSUME NoUuidIsNone == NoUuid \notin Uuids

VARIABLES
    row,                \* row[u]: "absent", "starting", "running" or "ended",
                        \* which is expired, killed or error
    rpc                 \* the uuids whose container runs

vars == <<row, rpc>>

TypeOK ==
    /\ row \in [Uuids -> {"absent", "starting", "running", "ended"}]
    /\ rpc \in SUBSET Uuids

Init ==
    /\ row = [u \in Uuids |-> "absent"]
    /\ rpc = {}

Reserve(u) ==
    /\ row[u] = "absent"
    /\ row' = [row EXCEPT ![u] = "starting"]
    /\ UNCHANGED rpc

Launch(u) ==
    /\ row[u] = "starting"
    /\ rpc' = rpc \union {u}
    /\ UNCHANGED row

Announce(u) ==
    /\ row[u] = "starting"
    /\ row' = [row EXCEPT ![u] = "running"]
    /\ UNCHANGED rpc

\* Containers exit or are removed: one of them, or all at once by make clean.
Lose ==
    /\ rpc' \in SUBSET rpc
    /\ UNCHANGED row

\* A failed spawn is marked first and removed afterwards.
End(u) ==
    /\ row[u] \in {"starting", "running"}
    /\ row[u] = "running" => u \notin rpc
    /\ row' = [row EXCEPT ![u] = "ended"]
    /\ UNCHANGED rpc

Next ==
    \/ \E u \in Uuids : Reserve(u) \/ Launch(u) \/ Announce(u) \/ End(u)
    \/ Lose

Spec == Init /\ [][Next]_vars
=============================================================================
