---------------------------- MODULE Orchestrator ----------------------------
(***************************************************************************)
(* The orchestrator process: registry, daemon, spawns, kills and reaper    *)
(* together, its startup (main.py and reconcile_startup of instances.py),  *)
(* its crashes, the clock, and what containers, operator and players do.   *)
(*                                                                         *)
(* A crash loses every coroutine and thread; the registry, the containers  *)
(* and what players know survive.  compose restarts the process.           *)
(***************************************************************************)
EXTENDS InstanceManager, Reaper

CONSTANTS
    MaxCrashes,         \* how often the process may crash
    BootsInTime,        \* whether launch and boot always end before a reaper
                        \* could find the row due (see Tick)
    PromptLoop          \* whether the loop resumes a finished removal before
                        \* a container launched after it has booted

ASSUME MaxCrashesAssumption == MaxCrashes \in Nat
ASSUME BootsInTimeAssumption == BootsInTime \in BOOLEAN
ASSUME PromptLoopAssumption == PromptLoop \in BOOLEAN

VARIABLES
    mode,               \* "down", "reconcile" in reconcile_startup, "up" serving
    orphans,            \* reconcile: listed containers still to be removed
    missing,            \* reconcile: active rows that were not listed
    listing,            \* history: whether this start's listing was "empty",
                        \* because it failed or rightly, or "full"
    crashes

processVars == <<mode, orphans, missing, listing, crashes>>
vars == <<rows, container, managerVars, reaperVars, processVars>>

ProcessTypeOK ==
    /\ mode \in {"down", "reconcile", "up"}
    /\ orphans \in SUBSET Uuids
    /\ missing \in SUBSET Uuids
    /\ listing \in {"none", "empty", "full"}
    /\ crashes \in 0 .. MaxCrashes

\* Every variable holds what the code can put in it: a status of the schema,
\* a task position that exists, a uuid, a time within its bound.
TypeOK ==
    /\ RegistryTypeOK
    /\ DockerTypeOK
    /\ ManagerTypeOK
    /\ ReaperTypeOK
    /\ ProcessTypeOK

Init ==
    /\ RegistryInit
    /\ DockerInit
    /\ ManagerInit
    /\ ReaperInit
    /\ mode = "down" /\ orphans = {} /\ missing = {} /\ listing = "none" /\ crashes = 0

-----------------------------------------------------------------------------
(* Serving: a step of one task. *)

Up == mode = "up"

ManagerStep(A) == Up /\ A /\ UNCHANGED <<reaperVars, processVars>>

ReaperTask == Up /\ ReaperStep /\ UNCHANGED <<managerVars, processVars>>

-----------------------------------------------------------------------------
(* Startup *)

\* main: list the containers, then read the active rows.
Start ==
    /\ mode = "down"
    /\ \E managed \in list_managed :
          /\ orphans' = managed \ all_active
          /\ missing' = all_active \ managed
          /\ listing' = IF managed = {} THEN "empty" ELSE "full"
    /\ mode' = "reconcile"
    /\ UNCHANGED <<rows, container, managerVars, reaperVars, crashes>>

\* The tasks end with the process.
TasksLost ==
    /\ spawn' = [u \in Uuids |-> "none"]
    /\ wait' = [u \in Uuids |-> 0]
    /\ kill_pc' = [k \in Killers |-> "idle"]
    /\ kill_uuid' = [k \in Killers |-> NoUuid]
    /\ kill_active' = [k \in Killers |-> FALSE]
    /\ Continue({})
    /\ orphans' = {} /\ missing' = {} /\ listing' = "none"
    /\ mode' = "down"
    /\ UNCHANGED known

\* A removal that raises ends main, and the process.
RemoveOrphan(u) ==
    /\ mode = "reconcile"
    /\ u \in orphans
    /\ \/ /\ stop_and_remove(u)
          /\ orphans' = orphans \ {u}
          /\ UNCHANGED <<managerVars, reaperVars, mode, missing, listing>>
       \/ stop_and_remove_raises(u) /\ TasksLost
    /\ UNCHANGED <<rows, crashes>>

MarkMissing(u) ==
    /\ mode = "reconcile"
    /\ orphans = {}
    /\ u \in missing
    /\ set_status(u, "error")
    /\ missing' = missing \ {u}
    /\ UNCHANGED <<container, managerVars, reaperVars, mode, orphans, listing, crashes>>

Serve ==
    /\ mode = "reconcile"
    /\ orphans = {} /\ missing = {}
    /\ mode' = "up" /\ listing' = "none"
    /\ UNCHANGED <<rows, container, managerVars, reaperVars, orphans, missing, crashes>>

ReconcileStep == Start \/ Serve \/ \E u \in Uuids : RemoveOrphan(u) \/ MarkMissing(u)

\* The process is stopped or killed, at any point of any task.
Crash ==
    /\ mode # "down"
    /\ crashes < MaxCrashes
    /\ crashes' = crashes + 1
    /\ TasksLost
    /\ UNCHANGED <<rows, container>>

-----------------------------------------------------------------------------
(* The environment *)

\* A kill or the sweep has removed u's container and is yet to write its status.
Removed(u) ==
    \/ \E k \in Killers : kill_pc[k] = "removed" /\ kill_uuid[k] = u
    \/ reaper = "removed" /\ target = u

\* A boot (genesis, publish, deploy) takes tens of seconds; a finished thread's
\* coroutine is resumed in the loop's next iteration.  With PromptLoop the
\* second never takes longer than the whole of the first.
ContainerStep(u) ==
    /\ \/ ContainerReady(u) /\ (PromptLoop => ~Removed(u))
       \/ ContainerExits(u)
    /\ UNCHANGED <<rows, managerVars, reaperVars, processVars>>

\* The README's order is make down, then make clean.
OperatorCleans ==
    /\ mode = "down"
    /\ MakeClean
    /\ UNCHANGED <<rows, managerVars, reaperVars, processVars>>

\* One unit of time.  With BootsInTime no spawn's launch and boot last until
\* its row is both past its TTL and past its boot window.
Tick ==
    /\ BootsInTime =>
          \A u \in Uuids : Booting(u) => Older(u) <= Ttl \/ Older(u) < BootTimeout
    /\ RowsAge
    /\ WaitsGrow
    /\ UNCHANGED <<container, spawn, kills, known, reaperVars, processVars>>

-----------------------------------------------------------------------------
Next ==
    \/ \E u \in Uuids, ip \in IPs : ManagerStep(Reserve(u, ip))
    \/ \E u \in Uuids : ManagerStep(SpawnStep(u))
    \/ \E k \in Killers, u \in Uuids : ManagerStep(KillBegin(k, u))
    \/ \E k \in Killers : ManagerStep(KillStep(k))
    \/ ReaperTask
    \/ ReconcileStep
    \/ Crash
    \/ \E u \in Uuids : ContainerStep(u)
    \/ OperatorCleans
    \/ Tick

Spec == Init /\ [][Next]_vars

\* The event loop runs what is ready, threads and requests end (each has a
\* timeout), the reaper's sleep ends, compose restarts the process, and time
\* passes.  Players, operator, crashes and containers owe nothing.
Fairness ==
    /\ \A u \in Uuids : WF_vars(ManagerStep(SpawnStep(u)))
    /\ \A k \in Killers : WF_vars(ManagerStep(KillStep(k)))
    /\ WF_vars(ReaperTask)
    /\ WF_vars(ReconcileStep)
    /\ WF_vars(Tick)

FairSpec == Spec /\ Fairness

-----------------------------------------------------------------------------
(* Safety *)

\* At no time do the active rows exceed MAX_TOTAL_INSTANCES, or those of one
\* address MAX_INSTANCES_PER_IP: concurrent spawns cannot both pass the checks
\* (the lock and the comment on it in spawn), and no write that lands late
\* (set_running after a sweep, a kill on a stale record) makes an ended row
\* active again.
CapRespected ==
    /\ total_active <= MaxTotalInstances
    /\ \A ip \in IPs : active_count_for_ip(ip) <= MaxInstancesPerIp

\* While a spawn boots, its row is its own: neither a kill nor a sweep touches
\* it, so that the unconditional set_running and set_status(error) that end
\* _boot overwrite "starting" and nothing else.
BootOwnsRow == \A u \in Uuids : Booting(u) => status[u] = "starting"

\* A serving orchestrator knows every container: its row is active, or the
\* spawn that failed is removing it.  (registry.py:3 `never orphans a
\* container'; README.md:27 `no orphaned containers'.)
NoOrphan ==
    Up => \A u \in Uuids : Exists(u) => Active(u) \/ spawn[u] # "none"

\* So the total cap, counted in rows, bounds the containers too, running or not:
\* past it there are only those a failed spawn is removing (README.md:139 sizes
\* the host by the cap).
CapBoundsContainers ==
    Up => Cardinality({u \in Uuids : Exists(u) /\ spawn[u] # "cleanup"}) <= MaxTotalInstances

\* And conversely: what a serving orchestrator calls running has a container,
\* unless a kill or the sweep has just removed it and is about to say so.
NoGhost ==
    Up => \A u \in Uuids : status[u] = "running" => Exists(u) \/ Removed(u)

\* When kill returns, the instance is gone, from the daemon and from the
\* active rows, although it decides on a record read before its await.
KillDestroys ==
    [][\A k \in Killers, u \in Uuids :
          /\ kill_pc[k] = "removed" /\ kill_uuid[k] = u
          /\ kill_pc'[k] = "idle" /\ mode' = "up"
          => ~Exists(u)' /\ ~Active(u)']_vars

\* A running instance ends because its TTL has passed, because somebody who
\* knows its uuid killed it, or because a restart found its container missing;
\* never because of what a spawn, a stale sweep or another player's kill does.
EndsForAReason ==
    [][\A u \in Uuids :
          status[u] = "running" /\ status'[u] # "running" =>
             \/ status'[u] = "expired" /\ age[u] > Ttl
             \/ status'[u] = "killed" /\ (u \in known \/ OperatorKills)
             \/ status'[u] = "error" /\ mode = "reconcile"]_vars

\* Wherever the process stopped, once reconcile_startup has run every active
\* row has its container and every container its active row (instances.py, its
\* docstring; README.md, `registry reconciles against docker ps on restart').
\* A listing that failed is taken for an empty one and may lose the second half,
\* never the first: it ends all rows, and leaves their containers.
ReconcileRestores ==
    [][mode = "reconcile" /\ mode' = "up" =>
          \A u \in Uuids : /\ Active(u)' => Exists(u)'
                          /\ listing = "full" /\ Exists(u)' => Active(u)']_vars

-----------------------------------------------------------------------------
(* The abstract specification: a row is a slot. *)

slot ==
    [u \in Uuids |-> IF status[u] = "absent" THEN "free"
                     ELSE IF Active(u) THEN "held" ELSE "released"]

Capacity == INSTANCE Slots WITH slot <- slot, holder <- source_ip

\* The orchestrator gives out slots as Slots says: an ended row never becomes
\* active again, whatever is written to it late, and its slot is free for the
\* next spawn exactly once.
ImplementsSlots == Capacity!Spec

\* A row with its three ends taken as one; the instances whose container runs.
row == [u \in Uuids |-> IF status[u] \in TERMINAL_STATES THEN "ended" ELSE status[u]]

rpc == {u \in Uuids : Live(u)}

Instances == INSTANCE Lifecycle WITH row <- row, rpc <- rpc

\* Proxy and flag check see of an instance what Lifecycle says: above all, a
\* running row ends only after its container has stopped, in a kill, in a sweep
\* and across a crash between the removal and the write.
ImplementsLifecycle == Instances!Spec

-----------------------------------------------------------------------------
(* Liveness *)

\* Every spawn that reserved a slot ends, at the latest when its deadline has
\* passed: the player at the menu gets an answer.
SpawnResolves == \A u \in Uuids : spawn[u] # "none" ~> spawn[u] = "none"

\* Every slot is given back, through a kill, a failed spawn, the reaper or a
\* restart, even when a late set_running has made an expired row active again.
SlotFreed == \A u \in Uuids : Active(u) ~> ~Active(u)

\* Every container goes away, also one that is launched after its row was
\* killed or reaped, or whose spawn died with the process (README.md:87
\* `Instances auto-destroy after the TTL regardless').
ContainerCollected == \A u \in Uuids : Exists(u) ~> ~Exists(u)

-----------------------------------------------------------------------------
(* What the repository says of the program and the program does not do. *)

\* registry.py:17: the lifecycle starting -> running -> (expired | killed | error)
\* ends there.
TerminalIsFinal ==
    [][\A u \in Uuids : status[u] \in TERMINAL_STATES => status'[u] = status[u]]_vars

\* reaper.py:45: `Never reap a container still inside its boot window'.
BootWindowProtected ==
    \A u \in Uuids :
        reaper = "removing" /\ target = u => ~(Polling(u) /\ wait[u] < BootTimeout)

\* README.md:139: MAX_TOTAL_INSTANCES x INSTANCE_MEM is the worst-case RAM.
LiveWithinCap == Cardinality({u \in Uuids : Live(u)}) <= MaxTotalInstances
=============================================================================
