------------------------------- MODULE Access -------------------------------
(***************************************************************************)
(* The two ways to an instance's node, proxied requests and flag checks,   *)
(* while instances start, run and end under them.  All run on the event    *)
(* loop of the one process.  Of the instances only what Lifecycle promises *)
(* is known; that the orchestrator keeps it is ImplementsLifecycle there.  *)
(***************************************************************************)
EXTENDS Proxy, SolveCheck

clientVars == <<proxyVars, checkVars>>
accessVars == <<vars, clientVars>>

\* Every variable holds what the code can put in it.
AccessTypeOK == TypeOK /\ ProxyTypeOK /\ CheckTypeOK

AccessInit == Init /\ ProxyInit /\ CheckInit

InstanceStep == Next /\ UNCHANGED clientVars

\* A delivered request does to the chain what it asks for.
Deliver(r) ==
    /\ Delivered(r)
    /\ Transacts(asked[r])
    /\ UNCHANGED <<vars, solve, callVars>>

\* A step of one request or one flag check.
ClientStep ==
    \/ \E r \in Requests, u \in Uuids : Arrive(r, u) /\ UNCHANGED <<vars, checkVars>>
    \/ \E r \in Requests : RequestStep(r) /\ UNCHANGED <<vars, checkVars>>
    \/ \E r \in Requests : Deliver(r)
    \/ \E f \in Calls, u \in Uuids : FlagBegin(f, u) /\ UNCHANGED <<vars, proxyVars>>
    \/ \E f \in Calls : (NodeAnswers(f) \/ FlagEnd(f)) /\ UNCHANGED <<vars, proxyVars>>

Restart == RequestsLost /\ CallsLost /\ UNCHANGED vars

AccessNext == InstanceStep \/ ClientStep \/ Restart

AccessSpec == AccessInit /\ [][AccessNext]_accessVars

-----------------------------------------------------------------------------
\* No request reaches a node whose instance is still being prepared or is over,
\* although the row is read before the body is awaited: what the proxy
\* forwards late finds the instance running or finds nothing.
ReachesOnlyRunning ==
    [][\A r \in Requests :
          request[r] = "upstream" /\ request'[r] = "sent" =>
             row[asked[r]] = "running"]_accessVars
=============================================================================
