------------------------------- MODULE System -------------------------------
(***************************************************************************)
(* The orchestrator process with its proxy and its flag checks, on one     *)
(* event loop (main.py): Orchestrator and Access together.  Proxied        *)
(* requests and flag checks read the orchestrator's own rows and reach its *)
(* own containers, are served once reconcile_startup is done, and end with *)
(* the process.                                                            *)
(***************************************************************************)
EXTENDS Orchestrator

CONSTANTS Requests, MaxInflight, MaxInflightPerUuid, Calls, PageSize,
          FieldValues, StartValue, Ops, MaxEvents

\* What Access assumes of them.
ClientConstants ==
    /\ IsFiniteSet(Requests)
    /\ MaxInflight \in Nat \ {0} /\ MaxInflightPerUuid \in Nat \ {0}
    /\ PageSize \in Nat \ {0}
    /\ FieldValues \subseteq Nat /\ StartValue \in FieldValues
    /\ MaxEvents \in Nat
    /\ Ops \subseteq {"eq", "ne", "lt", "lte", "gt", "gte"}

VARIABLES request, asked, inflight_total, inflight_per,
          solve, field, events, call, about

\* Access, with its theorems.
Clients == INSTANCE AccessProofs WITH row <- row, rpc <- rpc

clientVars == <<request, asked, inflight_total, inflight_per, solve, field, events, call, about>>
systemVars == <<vars, clientVars>>

SystemInit == Init /\ Clients!ProxyInit /\ Clients!CheckInit

\* A crash, or a removal that raises out of reconcile_startup.
ProcessEnds == mode # "down" /\ mode' = "down"

OrchestratorStep ==
    /\ Next
    /\ IF ProcessEnds THEN Clients!RequestsLost /\ Clients!CallsLost
       ELSE UNCHANGED clientVars

ClientStep == Up /\ UNCHANGED vars /\ Clients!ClientStep

SystemNext == OrchestratorStep \/ ClientStep

SystemSpec == SystemInit /\ [][SystemNext]_systemVars

-----------------------------------------------------------------------------
\* What Access assumes of instances, the orchestrator keeps with requests and
\* flag checks under way, through every kill, sweep, crash and restart.
ImplementsAccess == Clients!AccessSpec
=============================================================================
