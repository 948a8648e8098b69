---------------------------- MODULE SystemProofs ----------------------------
(***************************************************************************)
(* The orchestrator with its proxy and flag checks implements Access, and  *)
(* so has what is proved of it there.                                      *)
(***************************************************************************)
EXTENDS System, ContainerProofs

\* A process that does not serve has no clients.
NoClients ==
    ~Up => /\ Clients!ProxyInit
           /\ call = [f \in Calls |-> "none"] /\ about = [f \in Calls |-> NoUuid]

\* The clients change nothing of the orchestrator.
LEMMA OrchestratorWithin == SystemSpec => Spec
<1>1. SystemInit => Init
  BY DEF SystemInit
<1>2. [SystemNext]_systemVars => [Next]_vars
  BY DEF SystemNext, OrchestratorStep, ClientStep, systemVars
<1>3. QED
  BY <1>1, <1>2, PTL DEF SystemSpec, Spec

\* Only a crash ends a process that serves, and leaves rows and containers.
LEMMA ServingEnds ==
    ASSUME Up, Next, ~Up'
    PROVE  ProcessEnds /\ UNCHANGED <<row, rpc>>
<1>1. Crash
  BY DEF Next, ManagerStep, ReaperTask, ReconcileStep, Start, Serve, RemoveOrphan, MarkMissing,
         ContainerStep, OperatorCleans, Tick, Up, processVars
<1>2. QED
  BY <1>1 DEF Crash, TasksLost, ProcessEnds, Up, rows, row, rpc, Live

LEMMA NoClientsHolds == SystemSpec => []NoClients
<1>1. SystemInit => NoClients
  BY DEF SystemInit, NoClients, Clients!CheckInit
<1>2. NoClients /\ [SystemNext]_systemVars => NoClients'
  <2> SUFFICES ASSUME NoClients, [SystemNext]_systemVars, ~Up' PROVE NoClients'
    BY DEF NoClients
  <2>1. CASE OrchestratorStep /\ ProcessEnds
    BY <2>1 DEF OrchestratorStep, NoClients, Clients!RequestsLost, Clients!CallsLost,
                Clients!ProxyInit
  <2>2. CASE OrchestratorStep /\ ~ProcessEnds
    <3>1. ~Up
      BY <2>2, ServingEnds DEF OrchestratorStep
    <3>2. QED
      BY <2>2, <3>1 DEF OrchestratorStep, NoClients, Clients!ProxyInit, clientVars
  <2>3. CASE ClientStep
    BY <2>3 DEF ClientStep, Up, vars, processVars
  <2>4. CASE UNCHANGED systemVars
    BY <2>4 DEF systemVars, vars, processVars, Up, NoClients, Clients!ProxyInit, clientVars
  <2>5. QED
    BY <2>1, <2>2, <2>3, <2>4 DEF SystemNext
<1>3. QED
  BY <1>1, <1>2, PTL DEF SystemSpec

\* Lifecycle is the same to both.
LEMMA SameLifecycle == Instances!Next => Clients!Next
BY DEF Instances!Next, Instances!Reserve, Instances!Launch, Instances!Announce,
       Instances!End, Instances!Lose, Clients!Next, Clients!Reserve, Clients!Launch,
       Clients!Announce, Clients!End, Clients!Lose

\* Every step of the system is one of Access, or is none to it.
LEMMA AccessStep ==
    ASSUME TypeOK, Ownership, Agreement, NoClients, [SystemNext]_systemVars,
           Faults \intersect {"swallow", "list"} = {}, BootsInTime, ~OperatorKills
    PROVE  [Clients!AccessNext]_(Clients!accessVars)
<1> USE DEF Clients!AccessNext, Clients!accessVars, Clients!vars
<1>0. UNCHANGED clientVars <=> UNCHANGED Clients!clientVars
  BY DEF clientVars, Clients!clientVars, Clients!proxyVars, Clients!checkVars,
         Clients!callVars, Clients!chains
<1>1. ASSUME Next, UNCHANGED clientVars PROVE [Clients!AccessNext]_(Clients!accessVars)
  <2>1. Instances!Next \/ UNCHANGED <<row, rpc>>
    BY <1>1, LifecycleStep DEF Instances!vars
  <2>2. QED
    BY <1>0, <1>1, <2>1, SameLifecycle DEF Clients!InstanceStep
<1>2. CASE OrchestratorStep /\ ~ProcessEnds
  BY <1>1, <1>2 DEF OrchestratorStep
<1>3. CASE OrchestratorStep /\ ProcessEnds /\ Up
  BY <1>3, ServingEnds DEF OrchestratorStep, ProcessEnds, Up, Clients!Restart
<1>4. CASE OrchestratorStep /\ ProcessEnds /\ ~Up
  <2>1. UNCHANGED clientVars
    BY <1>4 DEF OrchestratorStep, NoClients, Clients!ProxyInit, Clients!RequestsLost,
                Clients!CallsLost, Clients!chains, clientVars
  <2>2. QED
    BY <1>1, <1>4, <2>1 DEF OrchestratorStep
<1>5. CASE ClientStep
  BY <1>5 DEF ClientStep
<1>6. CASE UNCHANGED systemVars
  <2>1. UNCHANGED <<row, rpc>>
    BY <1>6 DEF systemVars, vars, rows, row, rpc, Live
  <2>2. QED
    BY <1>0, <1>6, <2>1 DEF systemVars
<1>7. QED
  BY <1>2, <1>3, <1>4, <1>5, <1>6 DEF SystemNext

\* The orchestrator with its clients implements Access: rows and containers do
\* under them what Lifecycle says, and a process that ends, in a crash or out of
\* reconcile_startup, takes its requests and calls with it (main.py).
THEOREM SystemImplementsAccess ==
    ASSUME Faults \intersect {"swallow", "list"} = {}, BootsInTime, ~OperatorKills
    PROVE  SystemSpec => ImplementsAccess
<1>1. SystemInit => Clients!AccessInit
  BY DEF SystemInit, Clients!AccessInit, Clients!Init, Init, RegistryInit, DockerInit, row, rpc,
         Live, TERMINAL_STATES
<1>2. TypeOK /\ Ownership /\ Agreement /\ NoClients /\ [SystemNext]_systemVars
         => [Clients!AccessNext]_(Clients!accessVars)
  <2>1. CASE TypeOK /\ Ownership /\ Agreement /\ NoClients /\ [SystemNext]_systemVars
    BY <2>1, AccessStep
  <2>2. QED
    BY <2>1
<1>3. QED
  BY <1>1, <1>2, OrchestratorWithin, TypeCorrect, OwnershipHolds, AgreementHolds,
     NoClientsHolds, PTL DEF SystemSpec, ImplementsAccess, Clients!AccessSpec

-----------------------------------------------------------------------------
(* What Access is proved to have. *)

LEMMA FinitelyManyRequests == ClientConstants => Clients!IsFiniteSet(Requests)
BY DEF ClientConstants, IsFiniteSet, Clients!IsFiniteSet

\* A delivered request finds an instance that the registry calls running,
\* however long its body took and whatever kill, sweep or restart came between
\* (proxy.py:74-110).
THEOREM SystemDeliversToRunning ==
    ASSUME ClientConstants,
           Faults \intersect {"swallow", "list"} = {}, BootsInTime, ~OperatorKills
    PROVE  SystemSpec => Clients!ReachesOnlyRunning
<1>1. Clients!AccessSpec => Clients!ReachesOnlyRunning
  BY FinitelyManyRequests, Clients!OnlyRunningReached, NoUuidAssumption DEF ClientConstants
<1>2. QED
  BY <1>1, SystemImplementsAccess, PTL DEF ImplementsAccess

\* A flag is given only for a win that stood on the chain of an instance that
\* the registry called running then, although the row was read before the node
\* was asked (instances.py:159-174).
THEOREM SystemFlagIsEarned ==
    ASSUME ClientConstants,
           Faults \intersect {"swallow", "list"} = {}, BootsInTime, ~OperatorKills
    PROVE  SystemSpec => Clients!FlagEarned
<1>1. Clients!AccessSpec => Clients!FlagEarned
  BY FinitelyManyRequests, Clients!FlagIsEarned, NoUuidAssumption DEF ClientConstants
<1>2. QED
  BY <1>1, SystemImplementsAccess, PTL DEF ImplementsAccess
=============================================================================
