------------------------------- MODULE Proxy -------------------------------
(***************************************************************************)
(* The RPC proxy, orchestrator/app/proxy.py: _forward, one coroutine per   *)
(* request, and the two in-flight counters they share.                     *)
(*                                                                         *)
(* A request is at                                                         *)
(*   "body"      it holds its place in the counters and awaits its body,   *)
(*               for as long as the client takes                           *)
(*   "upstream"  on its way to the container                               *)
(*   "sent"      the node has it and has yet to answer                     *)
(* and "none" otherwise.  A request refused with 404, 503 or 429 changes   *)
(* nothing and is no step.                                                 *)
(***************************************************************************)
EXTENDS Lifecycle, Integers

CONSTANTS
    Requests,           \* the requests there may be at a time
    MaxInflight,        \* PROXY_MAX_INFLIGHT
    MaxInflightPerUuid  \* PROXY_MAX_INFLIGHT_PER_UUID

ASSUME RequestsAssumption == IsFiniteSet(Requests)
ASSUME InflightAssumption ==
    MaxInflight \in Nat \ {0} /\ MaxInflightPerUuid \in Nat \ {0}

VARIABLES
    request,            \* request[r]: where r is
    asked,              \* asked[r]: the uuid in its path
    inflight_total,     \* app.state.inflight_total
    inflight_per        \* app.state.inflight_per, a dict: its keys are its domain

proxyVars == <<request, asked, inflight_total, inflight_per>>

Inflight(r) == request[r] # "none"
InflightOf(u) == {r \in Requests : Inflight(r) /\ asked[r] = u}

per_get(u, default) == IF u \in DOMAIN inflight_per THEN inflight_per[u] ELSE default

ProxyTypeOK ==
    /\ request \in [Requests -> {"none", "body", "upstream", "sent"}]
    /\ asked \in [Requests -> Uuids \union {NoUuid}]
    /\ inflight_total \in Nat
    /\ DOMAIN inflight_per \subseteq Uuids
    /\ \A u \in DOMAIN inflight_per : inflight_per[u] \in Nat

ProxyInit ==
    /\ request = [r \in Requests |-> "none"]
    /\ asked = [r \in Requests |-> NoUuid]
    /\ inflight_total = 0
    /\ inflight_per = [u \in {} |-> 0]

-----------------------------------------------------------------------------
HasPlace(u) == inflight_total < MaxInflight /\ per_get(u, 0) < MaxInflightPerUuid

\* Mutant of Arrive: any row that exists is forwarded to.
ArriveAnyRow(r, u) ==
    /\ ~Inflight(r)
    /\ row[u] # "absent"
    /\ HasPlace(u)
    /\ inflight_total' = inflight_total + 1
    /\ inflight_per' = [v \in DOMAIN inflight_per \union {u} |->
                            IF v = u THEN per_get(u, 0) + 1 ELSE inflight_per[v]]
    /\ request' = [request EXCEPT ![r] = "body"]
    /\ asked' = [asked EXCEPT ![r] = u]

\* The record is read, both caps are checked and both counters bumped with no
\* await in between.
Arrive(r, u) ==
    /\ ~Inflight(r)
    /\ row[u] = "running"
    /\ HasPlace(u)
    /\ inflight_total' = inflight_total + 1
    /\ inflight_per' = [v \in DOMAIN inflight_per \union {u} |->
                            IF v = u THEN per_get(u, 0) + 1 ELSE inflight_per[v]]
    /\ request' = [request EXCEPT ![r] = "body"]
    /\ asked' = [asked EXCEPT ![r] = u]

GoesTo(r, pc) ==
    /\ request' = [request EXCEPT ![r] = pc]
    /\ UNCHANGED <<asked, inflight_total, inflight_per>>

BodyRead(r) == request[r] = "body" /\ GoesTo(r, "upstream")

\* The node takes the request, whatever the row has become.
Delivered(r) ==
    /\ request[r] = "upstream"
    /\ asked[r] \in rpc
    /\ GoesTo(r, "sent")

\* The finally block: both counters, and no key stays behind at zero.
Leave(r) ==
    LET u == asked[r]
        left == per_get(u, 1) - 1
    IN  /\ inflight_total' = inflight_total - 1
        /\ inflight_per' = [v \in {w \in DOMAIN inflight_per : w # u \/ left > 0} |->
                                IF v = u THEN left ELSE inflight_per[v]]
        /\ request' = [request EXCEPT ![r] = "none"]
        /\ asked' = [asked EXCEPT ![r] = NoUuid]

\* Mutant of ClientDisconnects: the body is awaited outside of the try block.
DisconnectKeepsPlace(r) ==
    /\ request[r] = "body"
    /\ request' = [request EXCEPT ![r] = "none"]
    /\ asked' = [asked EXCEPT ![r] = NoUuid]
    /\ UNCHANGED <<inflight_total, inflight_per>>

\* The client goes away while its body is awaited.
ClientDisconnects(r) == request[r] = "body" /\ Leave(r)

Answered(r) == request[r] = "sent" /\ Leave(r)

\* Mutant of UpstreamFails: the except block gives the place back, and then
\* the finally block does so again.
FailsTwice(r) ==
    LET u == asked[r]
        left == per_get(u, 1) - 2
    IN  /\ request[r] \in {"upstream", "sent"}
        /\ inflight_total' = inflight_total - 2
        /\ inflight_per' = [v \in {w \in DOMAIN inflight_per : w # u \/ left > 0} |->
                                IF v = u THEN left ELSE inflight_per[v]]
        /\ request' = [request EXCEPT ![r] = "none"]
        /\ asked' = [asked EXCEPT ![r] = NoUuid]

\* HTTPError, at any time of the call, delivered or not: status 502.
UpstreamFails(r) == request[r] \in {"upstream", "sent"} /\ Leave(r)

\* What a request does without anybody else, but for its delivery.
RequestStep(r) ==
    BodyRead(r) \/ ClientDisconnects(r) \/ Answered(r) \/ UpstreamFails(r)

\* The process ends with its requests; lifespan sets both counters anew.
RequestsLost ==
    /\ request' = [r \in Requests |-> "none"]
    /\ asked' = [r \in Requests |-> NoUuid]
    /\ inflight_total' = 0
    /\ inflight_per' = [u \in {} |-> 0]

-----------------------------------------------------------------------------
\* Whatever way requests end (answered, refused upstream, client gone in the
\* body's await, process restarted), the counters count those in flight and no
\* others, no key outlives its requests, and neither cap is ever exceeded: the
\* proxy never locks itself or an instance out (proxy.py:72, 110-114).
InflightTrue ==
    /\ inflight_total = Cardinality({r \in Requests : Inflight(r)})
    /\ DOMAIN inflight_per = {u \in Uuids : InflightOf(u) # {}}
    /\ \A u \in DOMAIN inflight_per :
          /\ inflight_per[u] = Cardinality(InflightOf(u))
          /\ inflight_per[u] <= MaxInflightPerUuid
    /\ inflight_total <= MaxInflight
=============================================================================
