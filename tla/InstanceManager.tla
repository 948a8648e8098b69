-------------------------- MODULE InstanceManager --------------------------
(***************************************************************************)
(* spawn and kill of orchestrator/app/instances.py.                        *)
(*                                                                         *)
(* Everything runs on one asyncio event loop, so what lies between two     *)
(* awaits is one step; every await of a worker thread is two: the thread's *)
(* own effect on the daemon, then the loop resuming the coroutine.  Other  *)
(* coroutines run in between.                                              *)
(*                                                                         *)
(* A spawn of u is at most one coroutine, at spawn[u]:                     *)
(*   "create", "start"   its thread is in containers.run                   *)
(*   "launched"          the thread is done, the loop has yet to resume    *)
(*   "read", "look"      its thread is in read_ready, in container_status  *)
(*   "ready"             read_ready returned a complete ready.json         *)
(*   "sleep"             asyncio.sleep between two polls                   *)
(*   "failed"            an exception is on its way to spawn's handler     *)
(*   "cleanup"           the handler's thread removes the container        *)
(* and "none" before it started and once it returned.                      *)
(***************************************************************************)
EXTENDS DockerManager

CONSTANTS
    MaxInstancesPerIp, MaxTotalInstances,
    Killers,            \* how many kills may be in progress: a slot for each
    OperatorKills        \* whether an operator, who reads the uuids from
                        \* `make ps', also kills instances and cleans up

ASSUME CapsAssumption ==
    MaxInstancesPerIp \in Nat \ {0} /\ MaxTotalInstances \in Nat \ {0}
ASSUME OperatorKillsAssumption == OperatorKills \in BOOLEAN

VARIABLES
    spawn,              \* spawn[u]: where the spawn of u is
    wait,               \* wait[u]: time since its boot deadline was set, 0 when
                        \* the boot has ended
    kill_pc,            \* kill_pc[k]: where the kill in slot k is
    kill_uuid,          \* kill_uuid[k]: the instance it destroys
    kill_active,        \* kill_active[k]: record["status"], read at its start,
                        \* was an active one
    known               \* the uuids whose credentials reached a player

kills == <<kill_pc, kill_uuid, kill_active>>
managerVars == <<spawn, wait, kill_pc, kill_uuid, kill_active, known>>

\* The spawn has not ended its boot, well or badly.
Booting(u) ==
    spawn[u] \in {"create", "start", "launched", "read", "ready", "look", "sleep", "failed"}

\* It is between setting the deadline and the poll loop's end.
Polling(u) == spawn[u] \in {"read", "look", "sleep"}

ManagerTypeOK ==
    /\ spawn \in [Uuids -> {"none", "create", "start", "launched", "read", "ready",
                            "look", "sleep", "failed", "cleanup"}]
    /\ wait \in [Uuids -> 0 .. BootTimeout]
    /\ kill_pc \in [Killers -> {"idle", "removing", "removed"}]
    /\ kill_uuid \in [Killers -> Uuids \union {NoUuid}]
    /\ kill_active \in [Killers -> BOOLEAN]
    /\ known \in SUBSET Uuids

ManagerInit ==
    /\ spawn = [u \in Uuids |-> "none"]
    /\ wait = [u \in Uuids |-> 0]
    /\ kill_pc = [k \in Killers |-> "idle"]
    /\ kill_uuid = [k \in Killers |-> NoUuid]
    /\ kill_active = [k \in Killers |-> FALSE]
    /\ known = {}

-----------------------------------------------------------------------------
(* spawn *)

Goto(u, pc) == spawn' = [spawn EXCEPT ![u] = pc]

\* Mutant of HasRoom: off by one.
HasRoomForOneMore(ip) ==
    /\ active_count_for_ip(ip) <= MaxInstancesPerIp
    /\ total_active < MaxTotalInstances

HasRoom(ip) ==
    /\ active_count_for_ip(ip) < MaxInstancesPerIp
    /\ total_active < MaxTotalInstances

\* The fast path: both caps are checked and the row is created under the
\* lock, with no await in between; then the launch is handed to a thread.
Reserve(u, ip) ==
    /\ status[u] = "absent"
    /\ HasRoom(ip)
    /\ create(u, ip)
    /\ Goto(u, "create")
    /\ UNCHANGED <<container, wait, kills, known>>

\* The thread of run_instance: two requests.  The first may fail and leave
\* nothing behind, the second may fail and leave what start_container_fails says.
LaunchCreate(u) ==
    /\ spawn[u] = "create"
    /\ \/ create_container(u) /\ Goto(u, "start")
       \/ "launch" \in Faults /\ Goto(u, "failed") /\ UNCHANGED container
    /\ UNCHANGED <<rows, wait, kills, known>>

LaunchStart(u) ==
    /\ spawn[u] = "start"
    /\ \/ start_container(u) /\ Goto(u, "launched")
       \/ start_container_fails(u) /\ Goto(u, "failed")
    /\ UNCHANGED <<rows, wait, kills, known>>

\* Mutant of Launched: the player is told the uuid before the boot.
LaunchedAndTold(u) ==
    /\ spawn[u] = "launched"
    /\ set_container(u)
    /\ wait' = [wait EXCEPT ![u] = 0]
    /\ Goto(u, "read")
    /\ known' = known \union {u}
    /\ UNCHANGED <<container, kills>>

\* set_container, and the deadline counts from here.
Launched(u) ==
    /\ spawn[u] = "launched"
    /\ set_container(u)
    /\ wait' = [wait EXCEPT ![u] = 0]
    /\ Goto(u, "read")
    /\ UNCHANGED <<container, kills, known>>

\* One poll: read_ready, and container_status when it was not ready.
ReadReady(u) ==
    /\ spawn[u] = "read"
    /\ \/ read_ready(u) /\ Goto(u, "ready")
       \/ ~read_ready(u) /\ Goto(u, "look")
       \/ read_ready_raises /\ Goto(u, "failed")
    /\ UNCHANGED <<rows, container, wait, kills, known>>

LookAtStatus(u) ==
    /\ spawn[u] = "look"
    /\ \/ container_status_gone(u) /\ Goto(u, "failed")
       \/ container_status_alive(u) /\ Goto(u, "sleep")
    /\ UNCHANGED <<rows, container, wait, kills, known>>

\* Mutant of Wake: no deadline.
WakeForever(u) ==
    /\ spawn[u] = "sleep"
    /\ Goto(u, "read")
    /\ UNCHANGED <<rows, container, wait, kills, known>>

\* The sleep ends: another poll before the deadline, TimeoutError after it.
Wake(u) ==
    /\ spawn[u] = "sleep"
    /\ Goto(u, IF wait[u] < BootTimeout THEN "read" ELSE "failed")
    /\ UNCHANGED <<rows, container, wait, kills, known>>

\* Mutant of BootReady: the poll loop is not left.
BootReadyAndPoll(u) ==
    /\ spawn[u] = "ready"
    /\ set_running(u)
    /\ Goto(u, "sleep")
    /\ known' \in {known, known \union {u}}
    /\ wait' = [wait EXCEPT ![u] = 0]
    /\ UNCHANGED <<container, kills>>

\* set_running and the reply.  The connection may be gone by then: the
\* player then never learns the uuid.
BootReady(u) ==
    /\ spawn[u] = "ready"
    /\ set_running(u)
    /\ Goto(u, "none")
    /\ known' \in {known, known \union {u}}
    /\ wait' = [wait EXCEPT ![u] = 0]
    /\ UNCHANGED <<container, kills>>

\* Mutant of Fail: the failed spawn does not remove its container.
FailWithoutCleanup(u) ==
    /\ spawn[u] = "failed"
    /\ set_status(u, "error")
    /\ Goto(u, "none")
    /\ wait' = [wait EXCEPT ![u] = 0]
    /\ UNCHANGED <<container, kills, known>>

\* The handler: status "error" first, then the removal, of the container
\* whose id was recorded and of no other.
Fail(u) ==
    /\ spawn[u] = "failed"
    /\ set_status(u, "error")
    /\ Goto(u, IF container_id[u] THEN "cleanup" ELSE "none")
    /\ wait' = [wait EXCEPT ![u] = 0]
    /\ UNCHANGED <<container, kills, known>>

Cleanup(u) ==
    /\ spawn[u] = "cleanup"
    /\ stop_and_remove(u) \/ stop_and_remove_raises(u)
    /\ Goto(u, "none")
    /\ UNCHANGED <<rows, wait, kills, known>>

SpawnStep(u) ==
    \/ LaunchCreate(u) \/ LaunchStart(u) \/ Launched(u)
    \/ ReadReady(u) \/ LookAtStatus(u) \/ Wake(u)
    \/ BootReady(u) \/ Fail(u) \/ Cleanup(u)

-----------------------------------------------------------------------------
(* kill *)

SetKill(k, pc, u, active) ==
    /\ kill_pc' = [kill_pc EXCEPT ![k] = pc]
    /\ kill_uuid' = [kill_uuid EXCEPT ![k] = u]
    /\ kill_active' = [kill_active EXCEPT ![k] = active]

\* The record is read once, and used after the removal.  (Of a uuid that has
\* no row kill returns at once.)
KillBegin(k, u) ==
    /\ kill_pc[k] = "idle"
    /\ u \in known \/ (OperatorKills /\ status[u] # "absent")
    /\ SetKill(k, "removing", u, Active(u))
    /\ UNCHANGED <<rows, container, spawn, wait, known>>

\* Mutant of KillRemove: the removal is not awaited, and never done.
KillWithoutRemoval(k) ==
    /\ kill_pc[k] = "removing"
    /\ SetKill(k, "removed", kill_uuid[k], kill_active[k])
    /\ UNCHANGED <<rows, container, spawn, wait, known>>

\* The thread; an exception out of it ends the kill.
KillRemove(k) ==
    /\ kill_pc[k] = "removing"
    /\ \/ stop_and_remove(kill_uuid[k]) /\ SetKill(k, "removed", kill_uuid[k], kill_active[k])
       \/ stop_and_remove_raises(kill_uuid[k]) /\ SetKill(k, "idle", NoUuid, FALSE)
    /\ UNCHANGED <<rows, spawn, wait, known>>

\* Mutant of KillEnd: the row is not marked.
KillEndUnmarked(k) ==
    /\ kill_pc[k] = "removed"
    /\ UNCHANGED rows
    /\ SetKill(k, "idle", NoUuid, FALSE)
    /\ UNCHANGED <<container, spawn, wait, known>>

KillEnd(k) ==
    /\ kill_pc[k] = "removed"
    /\ IF kill_active[k] THEN set_status(kill_uuid[k], "killed") ELSE UNCHANGED rows
    /\ SetKill(k, "idle", NoUuid, FALSE)
    /\ UNCHANGED <<container, spawn, wait, known>>

KillStep(k) == KillRemove(k) \/ KillEnd(k)

-----------------------------------------------------------------------------
\* Waiting spawns grow older with the clock.
WaitsGrow ==
    wait' = [u \in Uuids |->
                IF Polling(u) /\ wait[u] < BootTimeout THEN wait[u] + 1 ELSE wait[u]]
=============================================================================
