------------------------------- MODULE Slots -------------------------------
(***************************************************************************)
(* What the orchestrator promises of its capacity, without saying how: an  *)
(* instance takes one slot of the server and of its address, once, and     *)
(* only while both have one left; it gives the slot back at most once and  *)
(* never takes it again.  (README.md, `Hoarding' and `Global capacity';    *)
(* the comment on `Reserve a slot' in instances.py; the status lifecycle   *)
(* of registry.py with its three ends taken as one.)                       *)
(***************************************************************************)
EXTENDS Integers, FiniteSets

CONSTANTS Uuids, IPs, NoIp, MaxInstancesPerIp, MaxTotalInstances

VARIABLES
    slot,               \* "free" before it is taken, "held", then "released"
    holder              \* the address that took it

vars == <<slot, holder>>

Held == {u \in Uuids : slot[u] = "held"}

HeldBy(ip) == {u \in Held : holder[u] = ip}

Init ==
    /\ slot = [u \in Uuids |-> "free"]
    /\ holder = [u \in Uuids |-> NoIp]

Acquire(u, ip) ==
    /\ slot[u] = "free"
    /\ Cardinality(Held) < MaxTotalInstances
    /\ Cardinality(HeldBy(ip)) < MaxInstancesPerIp
    /\ slot' = [slot EXCEPT ![u] = "held"]
    /\ holder' = [holder EXCEPT ![u] = ip]

Release(u) ==
    /\ slot[u] = "held"
    /\ slot' = [slot EXCEPT ![u] = "released"]
    /\ UNCHANGED holder

Next ==
    \/ \E u \in Uuids, ip \in IPs : Acquire(u, ip)
    \/ \E u \in Uuids : Release(u)

Spec == Init /\ [][Next]_vars
=============================================================================
