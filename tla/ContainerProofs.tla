-------------------------- MODULE ContainerProofs --------------------------
(***************************************************************************)
(* Rows and containers agree, when every boot ends in time and kill is     *)
(* called by those who were told a uuid; each part of the agreement under  *)
(* the faults of the daemon it can stand.  From it the refinement of       *)
(* Lifecycle.                                                              *)
(***************************************************************************)
EXTENDS OrchestratorProofs

\* A spawn that got as far as the daemon has its container: nobody else
\* removes it.
BootHasContainer ==
    \A u \in Uuids :
        spawn[u] \in {"start", "launched", "read", "ready", "look", "sleep"} => Exists(u)

\* A spawn that fails knows its container's id, and so removes it.
FailureKnowsId ==
    \A u \in Uuids :
        spawn[u] \in {"read", "ready", "look", "sleep", "failed"} => container_id[u]

CleanupEnded == \A u \in Uuids : spawn[u] = "cleanup" => ~Active(u)

\* What was removed stays removed until its row is written.
RemovedStays == \A u \in Uuids : Removed(u) => ~Exists(u)

\* A kill that read an ended row will not find it active.
StaleKillEnded ==
    \A k \in Killers : kill_pc[k] # "idle" /\ ~kill_active[k] => ~Active(kill_uuid[k])

\* During reconcile the two lists are about what they say.
OrphansEnded == mode = "reconcile" => \A u \in orphans : ~Active(u)

MissingGone == mode = "reconcile" => \A u \in missing : ~Exists(u)

NoOrphanYet ==
    \A u \in Uuids :
        Exists(u) => \/ Active(u) \/ spawn[u] = "cleanup" \/ mode = "down"
                     \/ mode = "reconcile" /\ u \in orphans

NoGhostYet ==
    \A u \in Uuids :
        status[u] = "running" => \/ Exists(u) \/ Removed(u) \/ mode = "down"
                                 \/ mode = "reconcile" /\ u \in missing

\* A removal that fails and says nothing leaves a container; one that raises
\* may remove it and leave the row; a failed listing takes what stands for
\* missing; and a failed start, or any of these, may leave an orphan.
Agreement ==
    /\ BootHasContainer
    /\ CleanupEnded
    /\ StaleKillEnded
    /\ OrphansEnded
    /\ "swallow" \notin Faults => RemovedStays
    /\ "list" \notin Faults => MissingGone
    /\ "raise" \notin Faults => NoGhostYet
    /\ Faults \subseteq {"poll"} => FailureKnowsId /\ NoOrphanYet

\* At first there are neither rows nor containers.
LEMMA AgreementInit == Init => Agreement
BY DEF Init, RegistryInit, DockerInit, ManagerInit, ReaperInit, Agreement,
       BootHasContainer, FailureKnowsId, CleanupEnded, RemovedStays, StaleKillEnded,
       OrphansEnded, MissingGone, NoOrphanYet, NoGhostYet, Active, ACTIVE_STATES, Exists, Removed

\* A spawn's step: it creates its own container only, and its failure leaves
\* the removal to do.
LEMMA AgreementSpawn ==
    ASSUME TypeOK, Ownership, Agreement,
           NEW u \in Uuids, ManagerStep(SpawnStep(u))
    PROVE  Agreement'
<1> USE DEF TypeOK, RegistryTypeOK, DockerTypeOK, ManagerTypeOK, ReaperTypeOK,
            ProcessTypeOK, ManagerStep, rows, kills, reaperVars, processVars, Agreement,
            BootHasContainer, FailureKnowsId, CleanupEnded, RemovedStays, StaleKillEnded,
            OrphansEnded, MissingGone, NoOrphanYet, NoGhostYet, Active, ACTIVE_STATES, Exists, Removed,
            Goto, Up
<1>1. Booting(u) => /\ status[u] = "starting" /\ ~Removed(u)
                    /\ \A k \in Killers : kill_pc[k] # "idle" => kill_uuid[k] # u
  BY DEF Ownership, BootOwnsRow, KnownSettled, KillsSettled, SweepSettled, Settled
<1>2. CASE LaunchCreate(u)
  BY <1>1, <1>2 DEF LaunchCreate, create_container, Becomes, Booting
<1>3. CASE LaunchStart(u)
  BY <1>1, <1>3 DEF LaunchStart, start_container, start_container_fails, Becomes, Booting
<1>4. CASE Launched(u)
  BY <1>4 DEF Launched, set_container
<1>5. CASE ReadReady(u)
  BY <1>5 DEF ReadReady
<1>6. CASE LookAtStatus(u)
  BY <1>6 DEF LookAtStatus
<1>7. CASE Wake(u)
  BY <1>7 DEF Wake
<1>8. CASE BootReady(u)
  BY <1>1, <1>8 DEF BootReady, set_running, set_status, Booting
<1>9. CASE Fail(u)
  BY <1>1, <1>9 DEF Fail, set_status, Booting
<1>10. CASE Cleanup(u)
  BY <1>10 DEF Cleanup, stop_and_remove, stop_and_remove_raises, Becomes
<1>11. QED
  BY <1>2, <1>3, <1>4, <1>5, <1>6, <1>7, <1>8, <1>9, <1>10 DEF SpawnStep

\* The other steps.  Kills and sweeps work on settled rows, so what they
\* remove no spawn needs, and what they end has nothing left in the daemon.
LEMMA AgreementNext ==
    ASSUME BootsInTime, ~OperatorKills, TypeOK, Ownership, Agreement, [Next]_vars
    PROVE  Agreement'
<1> USE NoUuidAssumption
<1> USE DEF TypeOK, RegistryTypeOK, DockerTypeOK, ManagerTypeOK, ReaperTypeOK,
            ProcessTypeOK, ManagerStep, rows, kills, managerVars, reaperVars, processVars,
            Agreement, BootHasContainer, FailureKnowsId, CleanupEnded, RemovedStays,
            StaleKillEnded, OrphansEnded, MissingGone, NoOrphanYet, NoGhostYet, Active,
            ACTIVE_STATES, Exists, Removed, Up, Becomes, stop_and_remove, stop_and_remove_raises
<1>1. ASSUME NEW u \in Uuids, NEW ip \in IPs, ManagerStep(Reserve(u, ip)) PROVE Agreement'
  <2>1. ~Removed(u) /\ \A k \in Killers : kill_pc[k] # "idle" => kill_uuid[k] # u
    BY <1>1 DEF Reserve, Ownership, KillsSettled, KnownSettled, SweepSettled, Settled
  <2>2. QED
    BY <1>1, <2>1 DEF Reserve, create, Goto
<1>2. ASSUME NEW u \in Uuids, ManagerStep(SpawnStep(u)) PROVE Agreement'
  BY <1>2, AgreementSpawn
<1>3. ASSUME NEW k \in Killers, NEW u \in Uuids, ManagerStep(KillBegin(k, u)) PROVE Agreement'
  <2>1. CASE Active(u)
    <3>1. kill_active' = [kill_active EXCEPT ![k] = TRUE]
      BY <1>3, <2>1, Zenon DEF KillBegin, SetKill
    <3>2. StaleKillEnded'
      BY <1>3, <2>1, <3>1 DEF KillBegin, SetKill
    <3>3. QED
      BY <1>3, <3>2 DEF KillBegin, SetKill
  <2>2. CASE ~Active(u)
    <3>1. StaleKillEnded'
      BY <1>3, <2>2 DEF KillBegin, SetKill
    <3>2. QED
      BY <1>3, <3>1 DEF KillBegin, SetKill
  <2>3. QED
    BY <2>1, <2>2
<1>4. ASSUME NEW k \in Killers, ManagerStep(KillRemove(k)) PROVE Agreement'
  <2>1. kill_uuid[k] \in Uuids /\ ~Booting(kill_uuid[k])
    BY <1>4 DEF KillRemove, Ownership, KillsSettled, KnownSettled, Settled
  <2>2. QED
    BY <1>4, <2>1 DEF KillRemove, SetKill, Booting
<1>5. ASSUME NEW k \in Killers, ManagerStep(KillEnd(k)) PROVE Agreement'
  <2>1. /\ kill_uuid[k] \in Uuids /\ Removed(kill_uuid[k])
        /\ "swallow" \notin Faults => ~Exists(kill_uuid[k])
    BY <1>5 DEF KillEnd, Ownership, KillsSettled
  <2>2. /\ status' \in {status, [status EXCEPT ![kill_uuid[k]] = "killed"]}
        /\ status'[kill_uuid[k]] \notin ACTIVE_STATES
    BY <1>5, <2>1 DEF KillEnd, set_status
  <2>3. UNCHANGED <<container_id, container, spawn, reaperVars, processVars>>
    BY <1>5 DEF KillEnd, set_status
  <2>4. \A j \in Killers :
           kill_pc'[j] # "idle" => /\ j # k
                                   /\ kill_pc'[j] = kill_pc[j]
                                   /\ kill_uuid'[j] = kill_uuid[j]
                                   /\ ~kill_active'[j] => ~kill_active[j]
    <3>1. ASSUME NEW j \in Killers, kill_pc'[j] # "idle"
          PROVE  j # k /\ kill_pc'[j] = kill_pc[j] /\ kill_uuid'[j] = kill_uuid[j]
      BY <1>5, <3>1 DEF KillEnd, SetKill
    <3>2. kill_active' = [kill_active EXCEPT ![k] = FALSE]
      BY <1>5 DEF KillEnd, SetKill
    <3>3. ASSUME NEW j \in Killers, j # k PROVE ~kill_active'[j] => ~kill_active[j]
      BY <3>2, <3>3
    <3>4. QED
      BY <3>1, <3>3
  <2>5. BootHasContainer' /\ CleanupEnded' /\ OrphansEnded'
    BY <2>1, <2>2, <2>3
  <2>6. /\ "swallow" \notin Faults => RemovedStays'
        /\ "list" \notin Faults => MissingGone'
        /\ "raise" \notin Faults => NoGhostYet'
        /\ Faults \subseteq {"poll"} => FailureKnowsId' /\ NoOrphanYet'
    <3>1. ASSUME NEW u \in Uuids PROVE Removed(u)' => Removed(u)
      BY <2>3, <2>4
    <3>2. ASSUME NEW u \in Uuids, Removed(u), ~Removed(u)' PROVE u = kill_uuid[k]
      <4>1. \A j \in Killers \ {k} : kill_pc'[j] = kill_pc[j] /\ kill_uuid'[j] = kill_uuid[j]
        BY <1>5 DEF KillEnd, SetKill
      <4>2. QED
        BY <2>3, <3>2, <4>1
    <3>3. /\ "swallow" \notin Faults => RemovedStays'
          /\ "list" \notin Faults => MissingGone'
      BY <2>3, <3>1
    <3>4. ASSUME Faults \subseteq {"poll"} PROVE FailureKnowsId' /\ NoOrphanYet'
      <4>1. "swallow" \notin Faults /\ FailureKnowsId /\ NoOrphanYet
        BY <3>4
      <4>2. QED
        BY <2>1, <2>2, <2>3, <4>1
    <3>5. "raise" \notin Faults => NoGhostYet'
      BY <2>1, <2>2, <2>3, <3>2
    <3>6. QED
      BY <3>3, <3>4, <3>5
  <2>7. StaleKillEnded'
    <3>1. \A j \in Killers : kill_pc[j] # "idle" => kill_uuid[j] \in Uuids
      BY DEF Ownership, KillsSettled
    <3>2. QED
      <4>1. ASSUME NEW j \in Killers, kill_pc'[j] # "idle", ~kill_active'[j]
            PROVE  status'[kill_uuid'[j]] \notin ACTIVE_STATES
        <5>1. status[kill_uuid[j]] \notin ACTIVE_STATES
          BY <2>4, <4>1, Zenon DEF StaleKillEnded, Agreement, Active
        <5>2. QED
          BY <2>1, <2>2, <2>4, <3>1, <4>1, <5>1
      <4>2. QED
        BY <4>1
  <2>8. QED
    BY <2>5, <2>6, <2>7
<1>6. CASE Up /\ SweepBegin /\ UNCHANGED <<managerVars, processVars>>
  BY <1>6 DEF SweepBegin, Continue
<1>7. CASE Up /\ ReaperRemove /\ UNCHANGED <<managerVars, processVars>>
  <2>1. target \in Uuids /\ ~Booting(target)
    BY <1>7 DEF ReaperRemove, Ownership, SweepSettled, Settled
  <2>2. QED
    BY <1>7, <2>1 DEF ReaperRemove, Booting, Continue
<1>8. CASE Up /\ ReaperExpire /\ UNCHANGED <<managerVars, processVars>>
  <2>1. target \in Uuids /\ ("swallow" \notin Faults => ~Exists(target))
    BY <1>8 DEF ReaperExpire, Ownership, SweepSettled
  <2>2. QED
    BY <1>8, <2>1 DEF ReaperExpire, Continue, set_status
<1>9. CASE Start
  BY <1>9 DEF Start, list_managed, all_active
<1>10. ASSUME NEW u \in Uuids, RemoveOrphan(u) PROVE Agreement'
  <2>1. spawn[u] = "none"
    BY <1>10 DEF RemoveOrphan, Ownership, SpawnsServed
  <2>2. QED
    BY <1>10, <2>1 DEF RemoveOrphan, TasksLost, Continue
<1>11. ASSUME NEW u \in Uuids, MarkMissing(u) PROVE Agreement'
  BY <1>11 DEF MarkMissing, set_status
<1>12. CASE Serve
  BY <1>12 DEF Serve
<1>13. CASE Crash
  BY <1>13 DEF Crash, TasksLost, Continue
<1>14. ASSUME NEW u \in Uuids, ContainerStep(u) PROVE Agreement'
  BY <1>14 DEF ContainerStep, ContainerReady, ContainerExits, Live
<1>15. CASE OperatorCleans
  BY <1>15 DEF OperatorCleans, MakeClean, Ownership, SpawnsServed
<1>16. CASE Tick
  BY <1>16 DEF Tick, RowsAge
<1>17. CASE UNCHANGED vars
  BY <1>17 DEF vars
<1>18. QED
  BY <1>1, <1>2, <1>3, <1>4, <1>5, <1>6, <1>7, <1>8, <1>9, <1>10, <1>11, <1>12,
     <1>13, <1>14, <1>15, <1>16, <1>17
     DEF Next, KillStep, ReaperTask, ReaperStep, ReconcileStep

\* The invariant is one of every reachable state.
THEOREM AgreementHolds ==
    ASSUME BootsInTime, ~OperatorKills
    PROVE  Spec => []Agreement
<1>1. TypeOK /\ Ownership /\ Agreement /\ [Next]_vars => Agreement'
  BY AgreementNext
<1>2. QED
  BY <1>1, AgreementInit, TypeCorrect, OwnershipHolds, PTL DEF Spec

\* While it serves, the orchestrator has no container that no active row and
\* no spawn's cleanup accounts for: failed boots, kills, sweeps, crashes at any
\* point and restarts leave none behind.
THEOREM NoOrphanHolds ==
    ASSUME Faults \subseteq {"poll"}, BootsInTime, ~OperatorKills
    PROVE  Spec => []NoOrphan
<1>1. Agreement => NoOrphan
  BY DEF Agreement, NoOrphanYet, NoOrphan, Up
<1>2. QED
  BY <1>1, AgreementHolds, PTL

\* The caps bound the containers, for any number of instances and any caps:
\* what can exceed MAX_TOTAL_INSTANCES is the cleanup of failed spawns alone.
THEOREM CapBoundsContainersHolds ==
    ASSUME Faults \subseteq {"poll"}, BootsInTime, ~OperatorKills
    PROVE  Spec => []CapBoundsContainers
<1>1. TypeOK /\ NoOrphan /\ BootOwnsRow /\ CapRespected => CapBoundsContainers
  <2> SUFFICES ASSUME TypeOK, NoOrphan, BootOwnsRow, CapRespected, Up
               PROVE  Cardinality({u \in Uuids : Exists(u) /\ spawn[u] # "cleanup"})
                         <= MaxTotalInstances
    BY DEF CapBoundsContainers
  <2> DEFINE S == {u \in Uuids : Exists(u) /\ spawn[u] # "cleanup"}
  <2>1. S \subseteq all_active
    <3>1. ASSUME NEW u \in S PROVE Active(u)
      <4>1. Active(u) \/ Booting(u)
        BY DEF NoOrphan, Booting, TypeOK, ManagerTypeOK
      <4>2. QED
        BY <4>1 DEF BootOwnsRow, Active, ACTIVE_STATES
    <3>2. QED
      BY <3>1 DEF all_active
  <2>2. IsFiniteSet(all_active)
    <3>1. all_active \in SUBSET Uuids
      BY DEF all_active
    <3>2. QED
      BY <3>1, FiniteRows
  <2> HIDE DEF S
  <2>3. /\ Cardinality(S) \in Nat /\ Cardinality(all_active) \in Nat
        /\ Cardinality(S) <= Cardinality(all_active)
    BY <2>1, <2>2, FS_Subset, FS_CardinalityType
  <2>4. Cardinality(all_active) <= MaxTotalInstances
    BY DEF CapRespected, total_active
  <2>5. QED
    BY <2>3, <2>4, CapsAssumption DEF S
<1>2. QED
  BY <1>1, TypeCorrect, NoOrphanHolds, BootOwnsRowHolds, CapHolds, PTL

\* While it serves, what it calls running has a container, or is about to be
\* called ended.
THEOREM NoGhostHolds ==
    ASSUME "raise" \notin Faults, BootsInTime, ~OperatorKills
    PROVE  Spec => []NoGhost
<1>1. Agreement => NoGhost
  BY DEF Agreement, NoGhostYet, NoGhost, Up
<1>2. QED
  BY <1>1, AgreementHolds, PTL

\* Of all steps, those that end a kill and not the process are KillEnd's.
LEMMA KillEnds ==
    ASSUME TypeOK, [Next]_vars, NEW k \in Killers,
           kill_pc[k] = "removed", kill_pc'[k] = "idle", mode' = "up"
    PROVE  ManagerStep(KillEnd(k))
<1> USE DEF kills, managerVars, TypeOK, ManagerTypeOK
<1>1. ASSUME NEW u \in Uuids, NEW ip \in IPs, ManagerStep(Reserve(u, ip)) PROVE FALSE
  BY <1>1 DEF ManagerStep, Reserve
<1>2. ASSUME NEW u \in Uuids, ManagerStep(SpawnStep(u)) PROVE FALSE
  BY <1>2 DEF ManagerStep, SpawnStep, LaunchCreate, LaunchStart, Launched, ReadReady,
              LookAtStatus, Wake, BootReady, Fail, Cleanup
<1>3. ASSUME NEW j \in Killers, NEW u \in Uuids, ManagerStep(KillBegin(j, u)) PROVE FALSE
  BY <1>3 DEF ManagerStep, KillBegin, SetKill
<1>4. ASSUME NEW j \in Killers, ManagerStep(KillStep(j)) PROVE j = k /\ ManagerStep(KillEnd(k))
  BY <1>4 DEF ManagerStep, KillStep, KillRemove, KillEnd, SetKill
<1>5. CASE Start \/ Serve \/ Crash \/ OperatorCleans \/ Tick
  BY <1>5 DEF Start, Serve, Crash, TasksLost, OperatorCleans, Tick
<1>6. ASSUME NEW u \in Uuids, RemoveOrphan(u) \/ MarkMissing(u) \/ ContainerStep(u)
      PROVE  FALSE
  BY <1>6 DEF RemoveOrphan, TasksLost, MarkMissing, ContainerStep
<1>7. CASE ReaperTask \/ UNCHANGED vars
  BY <1>7 DEF ReaperTask, vars
<1>8. QED
  BY <1>1, <1>2, <1>3, <1>4, <1>5, <1>6, <1>7 DEF Next, ReconcileStep

\* A kill that returns leaves neither a container nor an active row.
THEOREM KillDestroysHolds ==
    ASSUME "swallow" \notin Faults, BootsInTime, ~OperatorKills
    PROVE  Spec => KillDestroys
<1> DEFINE Destroys ==
      \A k \in Killers, u \in Uuids :
          /\ kill_pc[k] = "removed" /\ kill_uuid[k] = u
          /\ kill_pc'[k] = "idle" /\ mode' = "up"
          => ~Exists(u)' /\ ~Active(u)'
<1>1. TypeOK /\ Agreement /\ [Next]_vars => [Destroys]_vars
  <2> SUFFICES ASSUME TypeOK, Agreement, [Next]_vars,
                      NEW k \in Killers, NEW u \in Uuids,
                      kill_pc[k] = "removed", kill_uuid[k] = u,
                      kill_pc'[k] = "idle", mode' = "up"
               PROVE  ~Exists(u)' /\ ~Active(u)'
    OBVIOUS
  <2>1. ManagerStep(KillEnd(k))
    BY KillEnds DEF Up
  <2>2. ~Exists(u)'
    BY <2>1 DEF ManagerStep, KillEnd, Agreement, RemovedStays, Removed, Exists
  <2>3. ~Active(u)'
    BY <2>1 DEF ManagerStep, KillEnd, set_status, rows, Agreement, StaleKillEnded,
                Active, ACTIVE_STATES, TypeOK, RegistryTypeOK
  <2>4. QED
    BY <2>2, <2>3
<1>2. QED
  BY <1>1, AgreementHolds, TypeCorrect, PTL DEF Spec, KillDestroys

-----------------------------------------------------------------------------
(* Lifecycle *)

\* A step writes rows or does something to containers, never both.
LEMMA RowsOrContainers ==
    ASSUME TypeOK, [Next]_vars
    PROVE  UNCHANGED status \/ UNCHANGED container
<1> USE DEF rows
<1>1. ASSUME NEW u \in Uuids, NEW ip \in IPs, ManagerStep(Reserve(u, ip))
      PROVE  UNCHANGED container
  BY <1>1 DEF ManagerStep, Reserve
<1>2. ASSUME NEW u \in Uuids, ManagerStep(SpawnStep(u))
      PROVE  UNCHANGED status \/ UNCHANGED container
  BY <1>2 DEF ManagerStep, SpawnStep, LaunchCreate, LaunchStart, Launched, ReadReady,
              LookAtStatus, Wake, BootReady, Fail, Cleanup
<1>3. ASSUME NEW k \in Killers, NEW u \in Uuids, ManagerStep(KillBegin(k, u))
      PROVE  UNCHANGED status
  BY <1>3 DEF ManagerStep, KillBegin
<1>4. ASSUME NEW k \in Killers, ManagerStep(KillStep(k))
      PROVE  UNCHANGED status \/ UNCHANGED container
  BY <1>4 DEF ManagerStep, KillStep, KillRemove, KillEnd
<1>5. CASE ReaperTask
  BY <1>5 DEF ReaperTask, ReaperStep, SweepBegin, ReaperRemove, ReaperExpire
<1>6. ASSUME NEW u \in Uuids, RemoveOrphan(u) \/ MarkMissing(u) \/ ContainerStep(u)
      PROVE  UNCHANGED status \/ UNCHANGED container
  BY <1>6 DEF RemoveOrphan, MarkMissing, ContainerStep
<1>7. CASE Start \/ Serve \/ Crash \/ OperatorCleans \/ Tick
  BY <1>7 DEF Start, Serve, Crash, OperatorCleans, Tick, RowsAge
<1>8. CASE UNCHANGED vars
  BY <1>8 DEF vars
<1>9. QED
  BY <1>1, <1>2, <1>3, <1>4, <1>5, <1>6, <1>7, <1>8 DEF Next, ReconcileStep

\* Containers start only in the launch of a booting spawn, whose row is
\* starting; every other step stops some of them or none.
LEMMA OnlyStartingStarts ==
    ASSUME TypeOK, Ownership, [Next]_vars
    PROVE  \/ rpc' \in SUBSET rpc
           \/ \E u \in Uuids : status[u] = "starting" /\ rpc' = rpc \union {u}
<1> USE DEF rows, rpc, Live, Becomes, stop_and_remove, stop_and_remove_raises, TypeOK,
            DockerTypeOK
<1>1. ASSUME NEW u \in Uuids, NEW ip \in IPs, ManagerStep(Reserve(u, ip))
      PROVE  UNCHANGED container
  BY <1>1 DEF ManagerStep, Reserve
<1>2. ASSUME NEW u \in Uuids, ManagerStep(SpawnStep(u))
      PROVE  rpc' \in SUBSET rpc \/ (status[u] = "starting" /\ rpc' = rpc \union {u})
  <2>1. CASE LaunchStart(u)
    <3>1. status[u] = "starting"
      BY <2>1 DEF LaunchStart, Ownership, BootOwnsRow, Booting
    <3>2. QED
      BY <2>1, <3>1 DEF LaunchStart, start_container, start_container_fails
  <2>2. CASE LaunchCreate(u)
    BY <2>2 DEF LaunchCreate, create_container, Exists
  <2>3. CASE Cleanup(u)
    BY <2>3 DEF Cleanup
  <2>4. CASE ~LaunchStart(u) /\ ~LaunchCreate(u) /\ ~Cleanup(u)
    BY <1>2, <2>4 DEF ManagerStep, SpawnStep, Launched, ReadReady, LookAtStatus, Wake,
                      BootReady, Fail
  <2>5. QED
    BY <2>1, <2>2, <2>3, <2>4
<1>3. ASSUME NEW k \in Killers, NEW u \in Uuids, ManagerStep(KillBegin(k, u))
      PROVE  UNCHANGED container
  BY <1>3 DEF ManagerStep, KillBegin
<1>4. ASSUME NEW k \in Killers, ManagerStep(KillStep(k)) PROVE rpc' \in SUBSET rpc
  BY <1>4 DEF ManagerStep, KillStep, KillRemove, KillEnd
<1>5. CASE ReaperTask
  BY <1>5 DEF ReaperTask, ReaperStep, SweepBegin, ReaperRemove, ReaperExpire
<1>6. ASSUME NEW u \in Uuids, RemoveOrphan(u) \/ MarkMissing(u) PROVE rpc' \in SUBSET rpc
  BY <1>6 DEF RemoveOrphan, MarkMissing
<1>7. ASSUME NEW u \in Uuids, ContainerStep(u) PROVE rpc' \in SUBSET rpc
  BY <1>7 DEF ContainerStep, ContainerReady, ContainerExits
<1>8. CASE Start \/ Serve \/ Crash \/ Tick
  BY <1>8 DEF Start, Serve, Crash, Tick, RowsAge
<1>9. CASE OperatorCleans
  BY <1>9 DEF OperatorCleans, MakeClean
<1>10. CASE UNCHANGED vars
  BY <1>10 DEF vars
<1>11. QED
  BY <1>1, <1>2, <1>3, <1>4, <1>5, <1>6, <1>7, <1>8, <1>9, <1>10 DEF Next, ReconcileStep

\* What ends a running row finds its container gone: a kill or a sweep has
\* removed it, or the daemon did not list it.
LEMMA RunningEndsDead ==
    ASSUME Faults \intersect {"swallow", "list"} = {}, TypeOK, Ownership, Agreement, [Next]_vars,
           NEW u \in Uuids, status[u] = "running", status'[u] # "running"
    PROVE  ~Live(u)
<1> USE DEF rows, TypeOK, RegistryTypeOK, set_status
<1>1. ASSUME NEW v \in Uuids, NEW ip \in IPs, ManagerStep(Reserve(v, ip)) PROVE FALSE
  BY <1>1 DEF ManagerStep, Reserve, create
<1>2. ASSUME NEW v \in Uuids, ManagerStep(SpawnStep(v)) PROVE FALSE
  <2>1. Booting(v) => status[v] = "starting"
    BY DEF Ownership, BootOwnsRow
  <2>2. CASE Fail(v) \/ BootReady(v)
    BY <2>1, <2>2 DEF Fail, BootReady, set_running, Booting
  <2>3. CASE ~Fail(v) /\ ~BootReady(v)
    BY <1>2, <2>3 DEF ManagerStep, SpawnStep, LaunchCreate, LaunchStart, Launched,
                      set_container, ReadReady, LookAtStatus, Wake, Cleanup
  <2>4. QED
    BY <2>2, <2>3
<1>3. ASSUME NEW k \in Killers, NEW v \in Uuids, ManagerStep(KillBegin(k, v)) PROVE FALSE
  BY <1>3 DEF ManagerStep, KillBegin
<1>4. ASSUME NEW k \in Killers, ManagerStep(KillStep(k)) PROVE Removed(u)
  BY <1>4 DEF ManagerStep, KillStep, KillRemove, KillEnd, Removed
<1>5. CASE ReaperTask
  <2>1. Removed(u)
    BY <1>5 DEF ReaperTask, ReaperStep, SweepBegin, ReaperRemove, ReaperExpire, Removed
  <2>2. QED
    BY <2>1 DEF Agreement, RemovedStays, Exists, Live
<1>6. ASSUME NEW v \in Uuids, MarkMissing(v) PROVE ~Live(u)
  BY <1>6 DEF MarkMissing, Agreement, MissingGone, Exists, Live
<1>7. ASSUME NEW v \in Uuids, RemoveOrphan(v) \/ ContainerStep(v) PROVE FALSE
  BY <1>7 DEF RemoveOrphan, ContainerStep
<1>8. CASE Start \/ Serve \/ Crash \/ OperatorCleans \/ Tick
  BY <1>8 DEF Start, Serve, Crash, OperatorCleans, Tick, RowsAge
<1>9. CASE UNCHANGED vars
  BY <1>9 DEF vars
<1>10. QED
  BY <1>1, <1>2, <1>3, <1>4, <1>5, <1>6, <1>7, <1>8, <1>9
     DEF Next, ReconcileStep, Agreement, RemovedStays, Exists, Live

\* Every step of the orchestrator is one of Lifecycle's or changes nothing of it.
LEMMA LifecycleStep ==
    ASSUME Faults \intersect {"swallow", "list"} = {}, TypeOK, Ownership, Agreement, [Next]_vars
    PROVE  [Instances!Next]_(Instances!vars)
<1> USE DEF TypeOK, RegistryTypeOK, ACTIVE_STATES, TERMINAL_STATES, row, Instances!vars
<1>1. CASE UNCHANGED status
  <2>1. UNCHANGED row
    BY <1>1
  <2>2. CASE rpc' \in SUBSET rpc
    BY <2>1, <2>2 DEF Instances!Lose, Instances!Next
  <2>3. ASSUME NEW u \in Uuids, status[u] = "starting", rpc' = rpc \union {u}
        PROVE  Instances!Launch(u)
    BY <2>1, <2>3 DEF Instances!Launch
  <2>4. QED
    BY <2>2, <2>3, OnlyStartingStarts DEF Instances!Next
<1>2. CASE UNCHANGED container
  <2>1. UNCHANGED rpc
    BY <1>2 DEF rpc, Live
  <2>2. CASE UNCHANGED <<status, source_ip>>
    BY <1>1, <2>2
  <2>3. ASSUME NEW u \in Uuids, NEW ip \in IPs, RowReserved(u, ip)
        PROVE  Instances!Reserve(u)
    BY <2>1, <2>3 DEF RowReserved, Instances!Reserve
  <2>4. ASSUME NEW u \in Uuids, RowRuns(u)
        PROVE  Instances!Announce(u)
    BY <2>1, <2>4 DEF RowRuns, Instances!Announce
  <2>5. ASSUME NEW u \in Uuids, NEW s \in TERMINAL_STATES, RowEnds(u, s)
        PROVE  Instances!End(u) \/ UNCHANGED row
    <3>1. row' = [row EXCEPT ![u] = "ended"]
      BY <2>5 DEF RowEnds
    <3>2. CASE status[u] \in TERMINAL_STATES
      BY <2>5, <3>2 DEF RowEnds
    <3>3. CASE status[u] = "starting"
      BY <2>1, <3>1, <3>3 DEF Instances!End
    <3>4. CASE status[u] = "running"
      <4>1. u \notin rpc
        BY <2>5, <3>4, RunningEndsDead DEF RowEnds, rpc
      <4>2. QED
        BY <2>1, <3>1, <3>4, <4>1 DEF Instances!End
    <3>5. QED
      BY <2>5, <3>2, <3>3, <3>4 DEF RowEnds
  <2>6. QED
    BY <2>1, <2>2, <2>3, <2>4, <2>5, RowChangeNext DEF RowChange, Instances!Next
<1>3. QED
  BY <1>1, <1>2, RowsOrContainers

\* The orchestrator implements Lifecycle: above all, a running row ends only
\* after its container has.
THEOREM LifecycleImplemented ==
    ASSUME Faults \intersect {"swallow", "list"} = {}, BootsInTime, ~OperatorKills
    PROVE  Spec => ImplementsLifecycle
<1>1. Init => Instances!Init
  BY DEF Init, RegistryInit, DockerInit, Instances!Init, row, rpc, Live, TERMINAL_STATES
<1>2. TypeOK /\ Ownership /\ Agreement /\ [Next]_vars => [Instances!Next]_(Instances!vars)
  <2>1. CASE TypeOK /\ Ownership /\ Agreement /\ [Next]_vars
    BY <2>1, LifecycleStep
  <2>2. QED
    BY <2>1
<1>3. QED
  BY <1>1, <1>2, TypeCorrect, OwnershipHolds, AgreementHolds, PTL
     DEF Spec, ImplementsLifecycle, Instances!Spec
=============================================================================
