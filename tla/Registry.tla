------------------------------ MODULE Registry ------------------------------
(***************************************************************************)
(* The SQLite instance registry, orchestrator/app/registry.py: one row per *)
(* uuid ever reserved, committed by every write and kept across restarts   *)
(* (no row is ever deleted).                                               *)
(*                                                                         *)
(* A uuid is a member of Uuids and is reserved at most once (uuid4).  The  *)
(* columns kept are those the program decides on.  created_at and          *)
(* expires_at are represented by the row's age, the time elapsed since     *)
(* create() wrote it: `expires_at < now' is age > Ttl, and                 *)
(* `now - created_at < t' is age < t.  Ages saturate at Horizon, past      *)
(* every comparison.  The other columns (rpc_url, keys, package_id, ...)   *)
(* are written with status "running" in one UPDATE and never compared.     *)
(***************************************************************************)
EXTENDS Integers, FiniteSets

CONSTANTS
    Uuids,              \* the instances that may be reserved over a behaviour
    NoUuid,             \* what an idle task works on
    IPs,                \* the source addresses players connect from
    NoIp,               \* source_ip of a row not created yet
    Ttl,                \* challenge.ttl_seconds or INSTANCE_TTL_SECONDS
    BootTimeout         \* INSTANCE_BOOT_TIMEOUT

ASSUME UuidsAssumption == IsFiniteSet(Uuids)
ASSUME NoUuidAssumption == NoUuid \notin Uuids
ASSUME NoIpAssumption == NoIp \notin IPs
ASSUME TimesAssumption == Ttl \in Nat \ {0} /\ BootTimeout \in Nat \ {0}

VARIABLES
    status,             \* status[u]: the status column, "absent" before create
    source_ip,          \* source_ip[u]
    container_id,       \* container_id[u]: whether the column is set
    age                 \* age[u]: time since created_at

rows == <<status, source_ip, container_id, age>>

ACTIVE_STATES == {"starting", "running"}
TERMINAL_STATES == {"expired", "killed", "error"}

\* One unit past the later of the two deadlines a row is compared with.
Horizon == (IF Ttl > BootTimeout THEN Ttl ELSE BootTimeout) + 1

RegistryTypeOK ==
    /\ status \in [Uuids -> {"absent"} \union ACTIVE_STATES \union TERMINAL_STATES]
    /\ source_ip \in [Uuids -> IPs \union {NoIp}]
    /\ container_id \in [Uuids -> BOOLEAN]
    /\ age \in [Uuids -> 0 .. Horizon]

RegistryInit ==
    /\ status = [u \in Uuids |-> "absent"]
    /\ source_ip = [u \in Uuids |-> NoIp]
    /\ container_id = [u \in Uuids |-> FALSE]
    /\ age = [u \in Uuids |-> 0]

-----------------------------------------------------------------------------
(* Reads. *)

Active(u) == status[u] \in ACTIVE_STATES

all_active == {u \in Uuids : Active(u)}

total_active == Cardinality(all_active)

active_count_for_ip(ip) == Cardinality({u \in all_active : source_ip[u] = ip})

\* Mutant of due_for_reap: due at the very moment of expires_at.
DueAtExpiry == {u \in all_active : age[u] >= Ttl}

due_for_reap == {u \in all_active : age[u] > Ttl}

-----------------------------------------------------------------------------
(* Writes: each is one UPDATE or INSERT under the registry's lock. *)

create(u, ip) ==
    /\ status' = [status EXCEPT ![u] = "starting"]
    /\ source_ip' = [source_ip EXCEPT ![u] = ip]
    /\ age' = [age EXCEPT ![u] = 0]
    /\ UNCHANGED container_id

set_container(u) ==
    /\ container_id' = [container_id EXCEPT ![u] = TRUE]
    /\ UNCHANGED <<status, source_ip, age>>

set_status(u, s) ==
    /\ status' = [status EXCEPT ![u] = s]
    /\ UNCHANGED <<source_ip, container_id, age>>

\* Mutant of set_running: a status the schema and ACTIVE_STATES do not know.
set_ready(u) == set_status(u, "ready")

set_running(u) == set_status(u, "running")

-----------------------------------------------------------------------------
\* Time passes: every row that exists grows older.
Older(u) == IF status[u] = "absent" \/ age[u] = Horizon THEN age[u] ELSE age[u] + 1

RowsAge ==
    /\ age' = [u \in Uuids |-> Older(u)]
    /\ UNCHANGED <<status, source_ip, container_id>>
=============================================================================
