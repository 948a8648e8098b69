------------------------- MODULE OrchestratorProofs -------------------------
(***************************************************************************)
(* Theorems about Orchestrator, for every value of its constants.          *)
(***************************************************************************)
EXTENDS Orchestrator, FiniteSetTheorems, TLAPS

\* Every variable keeps its type, in every reachable state, whatever the
\* sets, the caps, the times and the faults are.
THEOREM TypeCorrect == Spec => []TypeOK
<1> USE DEF TypeOK, RegistryTypeOK, DockerTypeOK, ManagerTypeOK, ReaperTypeOK,
            ProcessTypeOK, ACTIVE_STATES, TERMINAL_STATES
<1> USE TimesAssumption, MaxCrashesAssumption
<1>1. Horizon \in Nat
  BY DEF Horizon
<1>2. Init => TypeOK
  BY <1>1 DEF Init, RegistryInit, DockerInit, ManagerInit, ReaperInit
<1>3. TypeOK /\ [Next]_vars => TypeOK'
  <2> SUFFICES ASSUME TypeOK, [Next]_vars PROVE TypeOK'
    OBVIOUS
  <2> USE <1>1 DEF ManagerStep, rows, kills, managerVars, reaperVars, processVars
  <2>1. ASSUME NEW u \in Uuids, NEW ip \in IPs, ManagerStep(Reserve(u, ip)) PROVE TypeOK'
    BY <2>1 DEF Reserve, create, Goto
  <2>2. ASSUME NEW u \in Uuids, ManagerStep(SpawnStep(u)) PROVE TypeOK'
    <3> USE DEF Goto, Becomes
    <3>1. CASE LaunchCreate(u)
      BY <2>2, <3>1 DEF LaunchCreate, create_container
    <3>2. CASE LaunchStart(u)
      BY <2>2, <3>2 DEF LaunchStart, start_container, start_container_fails
    <3>3. CASE Launched(u)
      BY <2>2, <3>3 DEF Launched, set_container
    <3>4. CASE ReadReady(u)
      BY <2>2, <3>4 DEF ReadReady
    <3>5. CASE LookAtStatus(u)
      BY <2>2, <3>5 DEF LookAtStatus
    <3>6. CASE Wake(u)
      BY <2>2, <3>6 DEF Wake
    <3>7. CASE BootReady(u)
      BY <2>2, <3>7 DEF BootReady, set_running, set_status
    <3>8. CASE Fail(u)
      BY <2>2, <3>8 DEF Fail, set_status
    <3>9. CASE Cleanup(u)
      BY <2>2, <3>9 DEF Cleanup, stop_and_remove, stop_and_remove_raises
    <3>10. QED
      BY <2>2, <3>1, <3>2, <3>3, <3>4, <3>5, <3>6, <3>7, <3>8, <3>9 DEF SpawnStep
  <2>3. ASSUME NEW k \in Killers, NEW u \in Uuids, ManagerStep(KillBegin(k, u)) PROVE TypeOK'
    BY <2>3 DEF KillBegin, SetKill, Active
  <2>4. ASSUME NEW k \in Killers, ManagerStep(KillRemove(k)) PROVE TypeOK'
    BY <2>4 DEF KillRemove, SetKill, stop_and_remove, stop_and_remove_raises, Becomes
  <2>5. ASSUME NEW k \in Killers, ManagerStep(KillEnd(k)) PROVE TypeOK'
    BY <2>5 DEF KillEnd, SetKill, set_status
  <2>6. CASE Up /\ SweepBegin /\ UNCHANGED <<managerVars, processVars>>
    BY <2>6 DEF SweepBegin, Continue, Reapable, due_for_reap, all_active
  <2>7. CASE Up /\ ReaperRemove /\ UNCHANGED <<managerVars, processVars>>
    BY <2>7 DEF ReaperRemove, Continue, stop_and_remove, stop_and_remove_raises, Becomes
  <2>8. CASE Up /\ ReaperExpire /\ UNCHANGED <<managerVars, processVars>>
    BY <2>8 DEF ReaperExpire, Continue, set_status
  <2>9. CASE Start
    BY <2>9 DEF Start, list_managed, all_active
  <2>10. ASSUME NEW u \in Uuids, RemoveOrphan(u) PROVE TypeOK'
    <3>1. RegistryTypeOK'
      BY <2>10 DEF RemoveOrphan
    <3>2. DockerTypeOK'
      BY <2>10 DEF RemoveOrphan, stop_and_remove, stop_and_remove_raises, Becomes
    <3>3. CASE TasksLost /\ UNCHANGED crashes
      BY <3>1, <3>2, <3>3 DEF TasksLost, Continue
    <3>4. CASE /\ orphans' = orphans \ {u}
               /\ UNCHANGED <<managerVars, reaperVars, mode, missing, listing, crashes>>
      BY <3>1, <3>2, <3>4
    <3>5. QED
      BY <2>10, <3>3, <3>4 DEF RemoveOrphan
  <2>11. ASSUME NEW u \in Uuids, MarkMissing(u) PROVE TypeOK'
    BY <2>11 DEF MarkMissing, set_status
  <2>12. CASE Serve
    BY <2>12 DEF Serve
  <2>13. CASE Crash
    BY <2>13 DEF Crash, TasksLost, Continue
  <2>14. ASSUME NEW u \in Uuids, ContainerStep(u) PROVE TypeOK'
    BY <2>14 DEF ContainerStep, ContainerReady, ContainerExits, Becomes
  <2>15. CASE OperatorCleans
    BY <2>15 DEF OperatorCleans, MakeClean
  <2>16. CASE Tick
    BY <2>16 DEF Tick, RowsAge, WaitsGrow, Older
  <2>17. CASE UNCHANGED vars
    BY <2>17 DEF vars
  <2>18. QED
    BY <2>1, <2>2, <2>3, <2>4, <2>5, <2>6, <2>7, <2>8, <2>9, <2>10, <2>11, <2>12,
       <2>13, <2>14, <2>15, <2>16, <2>17
       DEF Next, KillStep, ReaperTask, ReaperStep, ReconcileStep
<1>4. QED
  BY <1>2, <1>3, PTL DEF Spec

-----------------------------------------------------------------------------
(* A restart. *)

\* While reconcile_startup works, what its two lists do not name agrees.
Reconciled ==
    mode = "reconcile" =>
        \A u \in Uuids :
            /\ u \in orphans => ~Active(u)
            /\ Active(u) => Exists(u) \/ u \in missing
            /\ listing = "full" =>
                  /\ u \in missing => ~Exists(u)
                  /\ Exists(u) => Active(u) \/ u \in orphans

LEMMA ReconciledNext ==
    ASSUME "swallow" \notin Faults, TypeOK, Reconciled, [Next]_vars
    PROVE  Reconciled'
<1> SUFFICES ASSUME mode' = "reconcile", NEW u \in Uuids
             PROVE  /\ u \in orphans' => ~Active(u)'
                    /\ Active(u)' => Exists(u)' \/ u \in missing'
                    /\ listing' = "full" =>
                          /\ u \in missing' => ~Exists(u)'
                          /\ Exists(u)' => Active(u)' \/ u \in orphans'
  BY DEF Reconciled
<1> USE DEF TypeOK, RegistryTypeOK, DockerTypeOK, ProcessTypeOK, Reconciled, rows, Active,
            ACTIVE_STATES, Exists
<1>1. CASE Start
  BY <1>1 DEF Start, list_managed, all_active
<1>2. ASSUME NEW v \in Uuids, RemoveOrphan(v)
      PROVE  /\ mode = "reconcile" /\ orphans' = orphans \ {v} /\ v \in orphans
             /\ container' = [container EXCEPT ![v] = "none"]
             /\ UNCHANGED <<status, missing, listing>>
  BY <1>2 DEF RemoveOrphan, TasksLost, stop_and_remove, Becomes
<1>3. ASSUME NEW v \in Uuids, MarkMissing(v)
      PROVE  /\ mode = "reconcile" /\ missing' = missing \ {v} /\ v \in missing
             /\ orphans = {} /\ status' = [status EXCEPT ![v] = "error"]
             /\ UNCHANGED <<container, orphans, listing>>
  BY <1>3 DEF MarkMissing, set_status
<1>4. ASSUME NEW v \in Uuids, ContainerStep(v)
      PROVE  /\ UNCHANGED <<status, processVars>>
             /\ \A w \in Uuids : Exists(w)' <=> Exists(w)
  BY <1>4 DEF ContainerStep, ContainerReady, ContainerExits, Live, Becomes
<1>5. CASE Tick \/ UNCHANGED vars
  BY <1>5 DEF Tick, RowsAge, processVars, vars
<1>6. ~Crash /\ ~Serve /\ ~OperatorCleans
  BY DEF Crash, TasksLost, Serve, OperatorCleans, processVars
<1>7. CASE \E v \in Uuids : RemoveOrphan(v)
  BY <1>2, <1>7
<1>8. CASE \E v \in Uuids : MarkMissing(v)
  BY <1>3, <1>8
<1>9. CASE \E v \in Uuids : ContainerStep(v)
  BY <1>4, <1>9 DEF processVars
<1>10. QED
  BY <1>1, <1>5, <1>6, <1>7, <1>8, <1>9
     DEF Next, ReconcileStep, ManagerStep, ReaperTask, Up, processVars

\* When reconcile_startup is done, every active row has its container and, if
\* the daemon's list was whole, every container its active row: wherever the
\* process stopped, and whatever else failed, so long as a removal the daemon
\* refuses is no success (instances.py:185-225).
THEOREM ReconcileHolds ==
    ASSUME "swallow" \notin Faults
    PROVE  Spec => ReconcileRestores
<1> DEFINE Restores ==
        mode = "reconcile" /\ mode' = "up" =>
            \A u \in Uuids : /\ Active(u)' => Exists(u)'
                            /\ listing = "full" /\ Exists(u)' => Active(u)'
<1>1. Init => Reconciled
  BY DEF Init, Reconciled
<1>2. TypeOK /\ Reconciled /\ [Next]_vars => Reconciled'
  BY ReconciledNext
<1>3. ASSUME TypeOK, Reconciled, [Next]_vars, mode = "reconcile", mode' = "up"
      PROVE  Serve
  BY <1>3 DEF Next, ReconcileStep, Start, RemoveOrphan, MarkMissing, TasksLost, Crash,
              ContainerStep, OperatorCleans, Tick, ManagerStep, ReaperTask, Up, processVars,
              vars
<1>4. TypeOK /\ Reconciled /\ [Next]_vars => [Restores]_vars
  BY <1>3 DEF Serve, Reconciled, Active, Exists, rows
<1>5. QED
  BY <1>1, <1>2, <1>4, TypeCorrect, PTL DEF Spec, ReconcileRestores

-----------------------------------------------------------------------------
(* Why a running instance ends. *)

\* What a late write has to go by: a spawn that boots has not run yet, a kill
\* works on a uuid that its player knew, the sweep on rows that are overdue.
Reasons ==
    /\ \A u \in Uuids : Booting(u) => status[u] # "running"
    /\ \A k \in Killers :
          kill_pc[k] # "idle" =>
             kill_uuid[k] \in Uuids /\ (kill_uuid[k] \in known \/ OperatorKills)
    /\ \A u \in due : status[u] # "absent" /\ age[u] > Ttl
    /\ reaper # "sleep" =>
          target \in Uuids /\ status[target] # "absent" /\ age[target] > Ttl

LEMMA ReasonsNext ==
    ASSUME TypeOK, Reasons, [Next]_vars
    PROVE  Reasons'
<1> USE TimesAssumption
<1> USE DEF TypeOK, RegistryTypeOK, ManagerTypeOK, ReaperTypeOK, ManagerStep, rows, kills,
            managerVars, reaperVars, processVars, Reasons, Booting
<1>1. Horizon \in Nat
  BY DEF Horizon
<1> USE <1>1
<1>2. ASSUME NEW u \in Uuids, NEW ip \in IPs, ManagerStep(Reserve(u, ip)) PROVE Reasons'
  BY <1>2 DEF Reserve, create, Goto
<1>3. ASSUME NEW u \in Uuids, ManagerStep(SpawnStep(u)) PROVE Reasons'
  <2> USE <1>3 DEF Goto, set_status
  <2>1. CASE LaunchCreate(u) \/ LaunchStart(u) \/ Launched(u)
    BY <2>1 DEF LaunchCreate, LaunchStart, Launched, set_container
  <2>2. CASE ReadReady(u) \/ LookAtStatus(u) \/ Wake(u)
    BY <2>2 DEF ReadReady, LookAtStatus, Wake
  <2>3. CASE BootReady(u)
    BY <2>3 DEF BootReady, set_running
  <2>4. CASE Fail(u) \/ Cleanup(u)
    BY <2>4 DEF Fail, Cleanup
  <2>5. QED
    BY <2>1, <2>2, <2>3, <2>4 DEF SpawnStep
<1>4. ASSUME NEW k \in Killers, NEW u \in Uuids, ManagerStep(KillBegin(k, u)) PROVE Reasons'
  BY <1>4 DEF KillBegin, SetKill
<1>5. ASSUME NEW k \in Killers, ManagerStep(KillStep(k)) PROVE Reasons'
  BY <1>5 DEF KillStep, KillRemove, KillEnd, SetKill, set_status
<1>6. CASE ReaperTask
  BY <1>6 DEF ReaperTask, ReaperStep, SweepBegin, ReaperRemove, ReaperExpire, Continue,
              Reapable, due_for_reap, all_active, Active, ACTIVE_STATES, set_status
<1>7. ASSUME TasksLost, UNCHANGED rows PROVE Reasons'
  BY <1>7 DEF TasksLost, Continue
<1>8. ASSUME NEW u \in Uuids, RemoveOrphan(u) PROVE Reasons'
  BY <1>7, <1>8 DEF RemoveOrphan
<1>9. ASSUME NEW u \in Uuids, MarkMissing(u) PROVE Reasons'
  BY <1>9 DEF MarkMissing, set_status
<1>10. CASE Tick
  <2>1. \A u \in Uuids : age[u] > Ttl => age'[u] > Ttl
    BY <1>10 DEF Tick, RowsAge, Older
  <2>2. UNCHANGED <<status, spawn, kills, known, reaperVars>>
    BY <1>10 DEF Tick, RowsAge
  <2>3. QED
    BY <2>1, <2>2
<1>11. CASE Crash
  BY <1>7, <1>11 DEF Crash
<1>12. CASE Start \/ Serve \/ OperatorCleans \/ \E u \in Uuids : ContainerStep(u)
  BY <1>12 DEF Start, Serve, OperatorCleans, ContainerStep
<1>13. CASE UNCHANGED vars
  BY <1>13 DEF vars
<1>14. QED
  BY <1>2, <1>3, <1>4, <1>5, <1>6, <1>8, <1>9, <1>10, <1>11, <1>12, <1>13
     DEF Next, ReconcileStep

\* A running instance ends because it is overdue, because somebody who knows it
\* killed it, or because a restart missed its container: whatever fails, however
\* long boots take, and in whatever order late writes land.
THEOREM EndsForAReasonHolds == Spec => EndsForAReason
<1> DEFINE Ends(u) ==
        status[u] = "running" /\ status'[u] # "running" =>
           \/ status'[u] = "expired" /\ age[u] > Ttl
           \/ status'[u] = "killed" /\ (u \in known \/ OperatorKills)
           \/ status'[u] = "error" /\ mode = "reconcile"
<1>1. Init => Reasons
  BY DEF Init, ManagerInit, ReaperInit, Reasons, Booting
<1>2. TypeOK /\ Reasons /\ [Next]_vars => Reasons'
  BY ReasonsNext
<1>3. ASSUME TypeOK, Reasons, [Next]_vars, NEW u \in Uuids PROVE Ends(u)
  <2> USE <1>3 DEF TypeOK, RegistryTypeOK, ManagerTypeOK, ReaperTypeOK, rows, ManagerStep,
                   Reasons, set_status
  <2>1. ASSUME NEW v \in Uuids, NEW ip \in IPs, ManagerStep(Reserve(v, ip)) PROVE Ends(u)
    BY <2>1 DEF Reserve, create
  <2>2. ASSUME NEW v \in Uuids, ManagerStep(SpawnStep(v)) PROVE Ends(u)
    <3>1. CASE BootReady(v) \/ Fail(v)
      BY <3>1 DEF BootReady, Fail, set_running, Booting
    <3>2. CASE ~BootReady(v) /\ ~Fail(v)
      BY <2>2, <3>2 DEF SpawnStep, LaunchCreate, LaunchStart, Launched, set_container,
                        ReadReady, LookAtStatus, Wake, Cleanup
    <3>3. QED
      BY <3>1, <3>2
  <2>3. ASSUME NEW k \in Killers, NEW v \in Uuids, ManagerStep(KillBegin(k, v)) PROVE Ends(u)
    BY <2>3 DEF KillBegin
  <2>4. ASSUME NEW k \in Killers, ManagerStep(KillStep(k)) PROVE Ends(u)
    BY <2>4 DEF KillStep, KillRemove, KillEnd
  <2>5. CASE ReaperTask
    BY <2>5 DEF ReaperTask, ReaperStep, SweepBegin, ReaperRemove, ReaperExpire
  <2>6. ASSUME NEW v \in Uuids, RemoveOrphan(v) \/ MarkMissing(v) \/ ContainerStep(v)
        PROVE  Ends(u)
    BY <2>6 DEF RemoveOrphan, MarkMissing, ContainerStep
  <2>7. CASE Start \/ Serve \/ Crash \/ OperatorCleans \/ Tick
    BY <2>7 DEF Start, Serve, Crash, OperatorCleans, Tick, RowsAge
  <2>8. CASE UNCHANGED vars
    BY <2>8 DEF vars
  <2>9. QED
    BY <2>1, <2>2, <2>3, <2>4, <2>5, <2>6, <2>7, <2>8 DEF Next, ReconcileStep
<1>4. TypeOK /\ Reasons /\ [Next]_vars => [\A u \in Uuids : Ends(u)]_vars
  BY <1>3
<1>5. QED
  BY <1>1, <1>2, <1>4, TypeCorrect, PTL DEF Spec, EndsForAReason

-----------------------------------------------------------------------------
(* Who may write a row, the caps, and the refinement of Slots, when every    *)
(* boot ends in time and kill is called by those who were told a uuid.       *)

(* The inductive invariant.  BootOwnsRow holds because no task that writes a *)
(* row late can be at one that is booting: not a kill, since a uuid becomes  *)
(* known only when its boot is over; not a sweep, whose snapshot was taken   *)
(* when the row's age was past both limits, which no booting row's is.       *)

BootAges == \A u \in Uuids : Booting(u) => age[u] <= Ttl \/ age[u] < BootTimeout

Settled(u) == status[u] # "absent" /\ ~Booting(u)

KnownSettled == \A u \in known : Settled(u)

KillsSettled == \A k \in Killers : kill_pc[k] # "idle" => kill_uuid[k] \in known

SweepSettled ==
    /\ reaper # "sleep" => target \in Uuids
    /\ \A u \in Uuids : u \in due \/ u = target => Settled(u)

SpawnsServed == ~Up => \A u \in Uuids : spawn[u] = "none"

MissingReserved == \A u \in missing : status[u] # "absent"

Ownership ==
    /\ BootOwnsRow
    /\ BootAges
    /\ KnownSettled
    /\ KillsSettled
    /\ SweepSettled
    /\ SpawnsServed
    /\ MissingReserved

\* At first nothing boots and nothing works on a row.
LEMMA OwnershipInit == Init => Ownership
BY NoUuidAssumption
   DEF Init, RegistryInit, DockerInit, ManagerInit, ReaperInit, Ownership, BootOwnsRow,
       BootAges, KnownSettled, KillsSettled, SweepSettled, SpawnsServed, MissingReserved,
       Settled, Booting

\* A step of a spawn leaves the other tasks where they are, and its row is
\* written only while it is booting.
LEMMA OwnershipSpawn ==
    ASSUME TypeOK, Ownership, NEW u \in Uuids, ManagerStep(SpawnStep(u))
    PROVE  Ownership'
<1> USE DEF TypeOK, RegistryTypeOK, ManagerTypeOK, ReaperTypeOK, ProcessTypeOK, ManagerStep,
            rows, kills, reaperVars, processVars, Ownership, BootOwnsRow, BootAges,
            KnownSettled, KillsSettled, SweepSettled, SpawnsServed, MissingReserved,
            Settled, Booting, Goto, Up
<1>1. CASE LaunchCreate(u)
  BY <1>1 DEF LaunchCreate
<1>2. CASE LaunchStart(u)
  BY <1>2 DEF LaunchStart
<1>3. CASE Launched(u)
  BY <1>3 DEF Launched, set_container
<1>4. CASE ReadReady(u)
  BY <1>4 DEF ReadReady
<1>5. CASE LookAtStatus(u)
  BY <1>5 DEF LookAtStatus
<1>6. CASE Wake(u)
  BY <1>6 DEF Wake
<1>7. CASE BootReady(u)
  BY <1>7 DEF BootReady, set_running, set_status
<1>8. CASE Fail(u)
  BY <1>8 DEF Fail, set_status
<1>9. CASE Cleanup(u)
  BY <1>9 DEF Cleanup
<1>10. QED
  BY <1>1, <1>2, <1>3, <1>4, <1>5, <1>6, <1>7, <1>8, <1>9 DEF SpawnStep

\* The other steps: who starts to work on a row finds it settled, and no
\* booting row grows too old.
LEMMA OwnershipNext ==
    ASSUME BootsInTime, ~OperatorKills, TypeOK, Ownership, [Next]_vars
    PROVE  Ownership'
<1> USE TimesAssumption, NoUuidAssumption
<1> USE DEF TypeOK, RegistryTypeOK, ManagerTypeOK, ReaperTypeOK, ProcessTypeOK, ManagerStep,
            rows, kills, managerVars, reaperVars, processVars, Ownership, BootOwnsRow,
            BootAges, KnownSettled, KillsSettled, SweepSettled, SpawnsServed, MissingReserved,
            Settled, Booting, Up
<1>1. ASSUME NEW u \in Uuids, NEW ip \in IPs, ManagerStep(Reserve(u, ip)) PROVE Ownership'
  BY <1>1 DEF Reserve, create, Goto
<1>2. ASSUME NEW u \in Uuids, ManagerStep(SpawnStep(u)) PROVE Ownership'
  BY <1>2, OwnershipSpawn
<1>3. ASSUME NEW k \in Killers, NEW u \in Uuids, ManagerStep(KillBegin(k, u)) PROVE Ownership'
  BY <1>3 DEF KillBegin, SetKill
<1>4. ASSUME NEW k \in Killers, ManagerStep(KillRemove(k)) PROVE Ownership'
  BY <1>4 DEF KillRemove, SetKill
<1>5. ASSUME NEW k \in Killers, ManagerStep(KillEnd(k)) PROVE Ownership'
  <2>1. kill_uuid[k] \in known /\ Settled(kill_uuid[k])
    BY <1>5 DEF KillEnd
  <2>2. QED
    BY <1>5, <2>1 DEF KillEnd, SetKill, set_status
<1>6. CASE Up /\ SweepBegin /\ UNCHANGED <<managerVars, processVars>>
  <2>1. \A u \in Reapable : u \in Uuids /\ Settled(u)
    BY DEF Reapable, due_for_reap, all_active, InBootWindow, Active, ACTIVE_STATES
  <2>2. QED
    BY <1>6, <2>1 DEF SweepBegin, Continue
<1>7. CASE Up /\ ReaperRemove /\ UNCHANGED <<managerVars, processVars>>
  BY <1>7 DEF ReaperRemove, Continue
<1>8. CASE Up /\ ReaperExpire /\ UNCHANGED <<managerVars, processVars>>
  BY <1>8 DEF ReaperExpire, Continue, set_status
<1>9. CASE Start
  BY <1>9 DEF Start, all_active, Active, ACTIVE_STATES
<1>10. ASSUME NEW u \in Uuids, RemoveOrphan(u) PROVE Ownership'
  <2>1. CASE TasksLost
    BY <1>10, <2>1 DEF RemoveOrphan, TasksLost, Continue
  <2>2. CASE UNCHANGED <<managerVars, reaperVars, mode, missing>>
    BY <1>10, <2>2 DEF RemoveOrphan
  <2>3. QED
    BY <1>10, <2>1, <2>2 DEF RemoveOrphan
<1>11. ASSUME NEW u \in Uuids, MarkMissing(u) PROVE Ownership'
  BY <1>11 DEF MarkMissing, set_status
<1>12. CASE Serve
  BY <1>12 DEF Serve
<1>13. CASE Crash
  BY <1>13 DEF Crash, TasksLost, Continue
<1>14. ASSUME NEW u \in Uuids, ContainerStep(u) PROVE Ownership'
  BY <1>14 DEF ContainerStep
<1>15. CASE OperatorCleans
  BY <1>15 DEF OperatorCleans
<1>16. CASE Tick
  <2>1. BootAges'
    BY <1>16 DEF Tick, RowsAge
  <2>2. QED
    BY <1>16, <2>1 DEF Tick, RowsAge
<1>17. CASE UNCHANGED vars
  BY <1>17 DEF vars
<1>18. QED
  BY <1>1, <1>2, <1>3, <1>4, <1>5, <1>6, <1>7, <1>8, <1>9, <1>10, <1>11, <1>12,
     <1>13, <1>14, <1>15, <1>16, <1>17
     DEF Next, KillStep, ReaperTask, ReaperStep, ReconcileStep

\* The invariant is one of every reachable state.
THEOREM OwnershipHolds ==
    ASSUME BootsInTime, ~OperatorKills
    PROVE  Spec => []Ownership
<1>1. TypeOK /\ Ownership /\ [Next]_vars => Ownership'
  BY OwnershipNext
<1>2. QED
  BY <1>1, OwnershipInit, TypeCorrect, PTL DEF Spec

\* No kill and no sweep touches the row of a spawn that boots: set_running and
\* set_status(error) always find it "starting".
THEOREM BootOwnsRowHolds ==
    ASSUME BootsInTime, ~OperatorKills
    PROVE  Spec => []BootOwnsRow
<1>1. Ownership => BootOwnsRow
  BY DEF Ownership
<1>2. QED
  BY <1>1, OwnershipHolds, PTL

-----------------------------------------------------------------------------
(* What any step does to the rows, in the terms the caps are about. *)

RowReserved(u, ip) ==
    /\ status[u] = "absent"
    /\ HasRoom(ip)
    /\ status' = [status EXCEPT ![u] = "starting"]
    /\ source_ip' = [source_ip EXCEPT ![u] = ip]

RowRuns(u) ==
    /\ status[u] = "starting"
    /\ status' = [status EXCEPT ![u] = "running"]
    /\ UNCHANGED source_ip

RowEnds(u, s) ==
    /\ status[u] # "absent"
    /\ status' = [status EXCEPT ![u] = s]
    /\ UNCHANGED source_ip

RowChange ==
    \/ UNCHANGED <<status, source_ip>>
    \/ \E u \in Uuids, ip \in IPs : RowReserved(u, ip)
    \/ \E u \in Uuids : RowRuns(u)
    \/ \E u \in Uuids, s \in TERMINAL_STATES : RowEnds(u, s)

\* A row becomes active in Reserve only: every later write keeps it active or
\* ends it, and an ended row only changes the way it ended.
LEMMA RowChangeNext ==
    ASSUME TypeOK, Ownership, [Next]_vars
    PROVE  RowChange
<1> USE DEF RowChange, rows, ManagerStep, TERMINAL_STATES
<1>1. ASSUME NEW u \in Uuids, NEW ip \in IPs, ManagerStep(Reserve(u, ip)) PROVE RowChange
  BY <1>1 DEF Reserve, create, RowReserved
<1>2. ASSUME NEW u \in Uuids, ManagerStep(SpawnStep(u)) PROVE RowChange
  <2>1. CASE BootReady(u)
    <3>1. RowRuns(u)
      BY <2>1 DEF BootReady, set_running, set_status, RowRuns, Ownership, BootOwnsRow, Booting
    <3>2. QED
      BY <3>1
  <2>2. CASE Fail(u)
    <3>1. RowEnds(u, "error")
      BY <2>2 DEF Fail, set_status, RowEnds, Ownership, BootOwnsRow, Booting
    <3>2. QED
      BY <3>1
  <2>3. CASE ~BootReady(u) /\ ~Fail(u)
    BY <1>2, <2>3 DEF SpawnStep, LaunchCreate, LaunchStart, Launched, set_container,
                      ReadReady, LookAtStatus, Wake, Cleanup
  <2>4. QED
    BY <2>1, <2>2, <2>3
<1>3. ASSUME NEW k \in Killers, NEW u \in Uuids, ManagerStep(KillBegin(k, u)) PROVE RowChange
  BY <1>3 DEF KillBegin
<1>4. ASSUME NEW k \in Killers, ManagerStep(KillRemove(k)) PROVE RowChange
  BY <1>4 DEF KillRemove
<1>5. ASSUME NEW k \in Killers, ManagerStep(KillEnd(k)) PROVE RowChange
  <2>1. kill_uuid[k] \in Uuids /\ status[kill_uuid[k]] # "absent"
    BY <1>5 DEF KillEnd, Ownership, KillsSettled, KnownSettled, Settled, TypeOK, ManagerTypeOK
  <2>2. CASE kill_active[k]
    <3>1. RowEnds(kill_uuid[k], "killed")
      BY <1>5, <2>1, <2>2 DEF KillEnd, set_status, RowEnds
    <3>2. QED
      BY <2>1, <3>1
  <2>3. CASE ~kill_active[k]
    BY <1>5, <2>3 DEF KillEnd
  <2>4. QED
    BY <2>2, <2>3
<1>6. CASE Up /\ SweepBegin /\ UNCHANGED <<managerVars, processVars>>
  BY <1>6 DEF SweepBegin
<1>7. CASE Up /\ ReaperRemove /\ UNCHANGED <<managerVars, processVars>>
  BY <1>7 DEF ReaperRemove
<1>8. CASE Up /\ ReaperExpire /\ UNCHANGED <<managerVars, processVars>>
  <2>1. target \in Uuids /\ RowEnds(target, "expired")
    BY <1>8 DEF ReaperExpire, set_status, RowEnds, Ownership, SweepSettled, Settled
  <2>2. QED
    BY <2>1
<1>9. ASSUME NEW u \in Uuids, MarkMissing(u) PROVE RowChange
  <2>1. RowEnds(u, "error")
    BY <1>9 DEF MarkMissing, set_status, RowEnds, Ownership, MissingReserved
  <2>2. QED
    BY <2>1
<1>10. CASE Start \/ Serve \/ Crash \/ OperatorCleans \/ Tick
  BY <1>10 DEF Start, Serve, Crash, OperatorCleans, Tick, RowsAge
<1>11. ASSUME NEW u \in Uuids, RemoveOrphan(u) \/ ContainerStep(u) PROVE RowChange
  BY <1>11 DEF RemoveOrphan, ContainerStep
<1>12. CASE UNCHANGED vars
  BY <1>12 DEF vars
<1>13. QED
  BY <1>1, <1>2, <1>3, <1>4, <1>5, <1>6, <1>7, <1>8, <1>9, <1>10, <1>11, <1>12
     DEF Next, KillStep, ReaperTask, ReaperStep, ReconcileStep

-----------------------------------------------------------------------------
\* Only a reservation adds an active row, and it adds one.
LEMMA ActiveRows ==
    ASSUME TypeOK, RowChange
    PROVE  \/ /\ all_active' \subseteq all_active
              /\ \A u \in all_active' : source_ip'[u] = source_ip[u]
           \/ \E u \in Uuids, ip \in IPs :
                 /\ HasRoom(ip)
                 /\ all_active' = all_active \union {u}
                 /\ u \notin all_active
                 /\ source_ip' = [source_ip EXCEPT ![u] = ip]
<1> USE DEF all_active, Active, ACTIVE_STATES, TERMINAL_STATES, TypeOK, RegistryTypeOK
<1>1. CASE UNCHANGED <<status, source_ip>>
  BY <1>1
<1>2. ASSUME NEW u \in Uuids, NEW ip \in IPs, RowReserved(u, ip)
      PROVE  /\ HasRoom(ip)
             /\ all_active' = all_active \union {u}
             /\ u \notin all_active
             /\ source_ip' = [source_ip EXCEPT ![u] = ip]
  BY <1>2 DEF RowReserved
<1>3. ASSUME NEW u \in Uuids, RowRuns(u)
      PROVE  all_active' \subseteq all_active /\ UNCHANGED source_ip
  BY <1>3 DEF RowRuns
<1>4. ASSUME NEW u \in Uuids, NEW s \in TERMINAL_STATES, RowEnds(u, s)
      PROVE  all_active' \subseteq all_active /\ UNCHANGED source_ip
  BY <1>4 DEF RowEnds
<1>5. QED
  BY <1>1, <1>2, <1>3, <1>4 DEF RowChange

\* A set of uuids is finite, and so are its parts.
LEMMA FiniteRows ==
    ASSUME NEW S \in SUBSET Uuids
    PROVE  IsFiniteSet(S) /\ Cardinality(S) \in Nat
BY UuidsAssumption, FS_Subset, FS_CardinalityType

\* Neither kind of change takes the active rows past a cap.
LEMMA CapStep ==
    ASSUME TypeOK, CapRespected, RowChange
    PROVE  CapRespected'
<1> DEFINE OfIp(ip) == {u \in all_active : source_ip[u] = ip}
<1>1. all_active \in SUBSET Uuids /\ (all_active \in SUBSET Uuids)'
  BY DEF all_active
<1>2. ASSUME all_active' \subseteq all_active,
             \A u \in all_active' : source_ip'[u] = source_ip[u]
      PROVE  CapRespected'
  <2>1. total_active' <= total_active /\ total_active \in Nat /\ total_active' \in Nat
    BY <1>1, <1>2, FiniteRows, FS_Subset DEF total_active
  <2>2. ASSUME NEW ip \in IPs
        PROVE  active_count_for_ip(ip)' <= MaxInstancesPerIp
    <3>1. OfIp(ip)' \subseteq OfIp(ip) /\ OfIp(ip) \in SUBSET Uuids
      BY <1>1, <1>2
    <3>2. /\ Cardinality(OfIp(ip)') <= Cardinality(OfIp(ip))
          /\ Cardinality(OfIp(ip)) \in Nat
          /\ Cardinality(OfIp(ip)') \in Nat
      BY <3>1, FiniteRows, FS_Subset
    <3>3. QED
      BY <3>2, CapsAssumption DEF CapRespected, active_count_for_ip
  <2>3. QED
    BY <2>1, <2>2, CapsAssumption DEF CapRespected
<1>3. ASSUME NEW u \in Uuids, NEW ip \in IPs, HasRoom(ip),
             all_active' = all_active \union {u}, u \notin all_active,
             source_ip' = [source_ip EXCEPT ![u] = ip]
      PROVE  CapRespected'
  <2>1. total_active' = total_active + 1 /\ total_active \in Nat
    BY <1>1, <1>3, FiniteRows, FS_AddElement DEF total_active
  <2>2. ASSUME NEW jp \in IPs
        PROVE  active_count_for_ip(jp)' <= MaxInstancesPerIp
    <3>1. OfIp(jp) \in SUBSET Uuids
      BY <1>1
    <3>2. CASE jp = ip
      <4>1. OfIp(jp)' = OfIp(jp) \union {u} /\ u \notin OfIp(jp)
        BY <1>1, <1>3, <3>2 DEF TypeOK, RegistryTypeOK
      <4>2. Cardinality(OfIp(jp)') = Cardinality(OfIp(jp)) + 1 /\ Cardinality(OfIp(jp)) \in Nat
        BY <3>1, <4>1, FiniteRows, FS_AddElement
      <4>3. QED
        BY <1>3, <3>2, <4>2, CapsAssumption DEF HasRoom, active_count_for_ip
    <3>3. CASE jp # ip
      <4>1. OfIp(jp)' = OfIp(jp)
        BY <1>1, <1>3, <3>3 DEF TypeOK, RegistryTypeOK
      <4>2. QED
        BY <4>1 DEF CapRespected, active_count_for_ip
    <3>4. QED
      BY <3>2, <3>3
  <2>3. QED
    BY <1>3, <2>1, <2>2, CapsAssumption DEF CapRespected, HasRoom
<1>4. QED
  BY <1>2, <1>3, ActiveRows

\* The active rows never exceed a cap, however spawns, kills, sweeps, crashes
\* and faults interleave.
THEOREM CapHolds ==
    ASSUME BootsInTime, ~OperatorKills
    PROVE  Spec => []CapRespected
<1>1. Init => CapRespected
  <2> SUFFICES ASSUME Init PROVE CapRespected
    OBVIOUS
  <2>1. all_active = {}
    BY DEF Init, RegistryInit, all_active, Active, ACTIVE_STATES
  <2>2. \A ip \in IPs : {u \in all_active : source_ip[u] = ip} = {}
    BY <2>1
  <2>3. QED
    BY <2>1, <2>2, FS_EmptySet, CapsAssumption
       DEF CapRespected, total_active, active_count_for_ip
<1>2. TypeOK /\ Ownership /\ CapRespected /\ [Next]_vars => CapRespected'
  <2>1. CASE TypeOK /\ Ownership /\ CapRespected /\ [Next]_vars
    BY <2>1, RowChangeNext, CapStep
  <2>2. QED
    BY <2>1
<1>3. QED
  BY <1>1, <1>2, TypeCorrect, OwnershipHolds, PTL DEF Spec

-----------------------------------------------------------------------------
\* Slots has the same cardinality operator, under a name of its own.
LEMMA SameCardinality == \A S : Capacity!Cardinality(S) = Cardinality(S)
BY DEF Capacity!Cardinality, Cardinality

\* A row is a slot of the abstract specification: reserving it takes the slot,
\* ending it releases the slot, and nothing else changes it.
LEMMA SlotStep ==
    ASSUME TypeOK, RowChange
    PROVE  [Capacity!Next]_(Capacity!vars)
<1> USE DEF TypeOK, RegistryTypeOK, ACTIVE_STATES, TERMINAL_STATES, Active, slot,
            Capacity!vars
<1>1. CASE UNCHANGED <<status, source_ip>>
  BY <1>1
<1>2. ASSUME NEW u \in Uuids, NEW ip \in IPs, RowReserved(u, ip)
      PROVE  Capacity!Acquire(u, ip)
  <2>1. Capacity!Held = all_active
    BY DEF Capacity!Held, all_active
  <2>2. slot[u] = "free" /\ slot' = [slot EXCEPT ![u] = "held"]
    BY <1>2 DEF RowReserved
  <2>3. QED
    BY <1>2, <2>1, <2>2, SameCardinality
       DEF RowReserved, Capacity!Acquire, Capacity!HeldBy, HasRoom, total_active,
           active_count_for_ip
<1>3. ASSUME NEW u \in Uuids, RowRuns(u) PROVE UNCHANGED Capacity!vars
  BY <1>3 DEF RowRuns
<1>4. ASSUME NEW u \in Uuids, NEW s \in TERMINAL_STATES, RowEnds(u, s)
      PROVE  Capacity!Release(u) \/ UNCHANGED Capacity!vars
  <2>1. CASE Active(u)
    BY <1>4, <2>1 DEF RowEnds, Capacity!Release
  <2>2. CASE ~Active(u)
    BY <1>4, <2>2 DEF RowEnds
  <2>3. QED
    BY <2>1, <2>2
<1>5. QED
  BY <1>1, <1>2, <1>3, <1>4 DEF RowChange, Capacity!Next

\* The orchestrator implements Slots: no ended row becomes active again.
THEOREM SlotsImplemented ==
    ASSUME BootsInTime, ~OperatorKills
    PROVE  Spec => ImplementsSlots
<1>1. Init => Capacity!Init
  BY DEF Init, RegistryInit, Capacity!Init, slot
<1>2. TypeOK /\ Ownership /\ [Next]_vars => [Capacity!Next]_(Capacity!vars)
  <2>1. CASE TypeOK /\ Ownership /\ [Next]_vars
    BY <2>1, RowChangeNext, SlotStep
  <2>2. QED
    BY <2>1
<1>3. QED
  BY <1>1, <1>2, TypeCorrect, OwnershipHolds, PTL
     DEF Spec, ImplementsSlots, Capacity!Spec
=============================================================================
