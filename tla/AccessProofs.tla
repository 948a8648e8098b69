---------------------------- MODULE AccessProofs ----------------------------
(***************************************************************************)
(* The two ways to an instance's node, for any number of instances,        *)
(* requests and flag checks, and for any caps.                             *)
(***************************************************************************)
EXTENDS Access, CoercionProofs, FiniteSetTheorems, TLAPS

\* A uuid whose row was seen running: it still is, or its container is gone
\* for good.
RunningOrOver(u) ==
    /\ u \in Uuids
    /\ row[u] = "running" \/ (row[u] = "ended" /\ u \notin rpc)

RequestsSound == \A r \in Requests : Inflight(r) => RunningOrOver(asked[r])
CallsSound == \A f \in Calls : call[f] # "none" => RunningOrOver(about[f])

\* The part of the type invariant that speaks of tasks.
TasksTyped ==
    /\ request \in [Requests -> {"none", "body", "upstream", "sent"}]
    /\ asked \in [Requests -> Uuids \union {NoUuid}]
    /\ call \in [Calls -> {"none", "asking", "solved", "unsolved"}]
    /\ about \in [Calls -> Uuids \union {NoUuid}]

SeenInv == TypeOK /\ TasksTyped /\ RequestsSound /\ CallsSound

-----------------------------------------------------------------------------
\* What instances do keeps the row one way: nothing seen running starts again.
LEMMA SeenStaysSeen ==
    ASSUME TypeOK, [Next]_vars
    PROVE  TypeOK' /\ \A u : RunningOrOver(u) => RunningOrOver(u)'
<1>1. ASSUME NEW v \in Uuids, Reserve(v)
      PROVE  TypeOK' /\ \A u : RunningOrOver(u) => RunningOrOver(u)'
  BY <1>1 DEF Reserve, TypeOK, RunningOrOver
<1>2. ASSUME NEW v \in Uuids, Launch(v)
      PROVE  TypeOK' /\ \A u : RunningOrOver(u) => RunningOrOver(u)'
  BY <1>2 DEF Launch, TypeOK, RunningOrOver
<1>3. ASSUME NEW v \in Uuids, Announce(v)
      PROVE  TypeOK' /\ \A u : RunningOrOver(u) => RunningOrOver(u)'
  BY <1>3 DEF Announce, TypeOK, RunningOrOver
<1>4. ASSUME NEW v \in Uuids, End(v)
      PROVE  TypeOK' /\ \A u : RunningOrOver(u) => RunningOrOver(u)'
  BY <1>4 DEF End, TypeOK, RunningOrOver
<1>5. CASE Lose
  BY <1>5 DEF Lose, TypeOK, RunningOrOver
<1>6. CASE UNCHANGED vars
  BY <1>6 DEF vars, TypeOK, RunningOrOver
<1>7. QED
  BY <1>1, <1>2, <1>3, <1>4, <1>5, <1>6 DEF Next

LEMMA SeenInit == AccessInit => SeenInv
BY DEF AccessInit, Init, ProxyInit, CheckInit, SeenInv, TypeOK, TasksTyped, RequestsSound,
       CallsSound, Inflight

\* A request changes its own place only, and of the uuid it asked for nothing
\* or all.
LEMMA RequestsStep ==
    ASSUME SeenInv, UNCHANGED vars, UNCHANGED callVars,
           NEW r \in Requests,
           (\E u \in Uuids : Arrive(r, u)) \/ RequestStep(r) \/ Delivered(r)
    PROVE  SeenInv'
<1> USE DEF SeenInv, TypeOK, TasksTyped, RequestsSound, CallsSound, RunningOrOver, vars,
            callVars, Inflight
<1>1. ASSUME NEW u \in Uuids, Arrive(r, u) PROVE SeenInv'
  BY <1>1 DEF Arrive
<1>2. ASSUME NEW pc \in {"upstream", "sent"}, request[r] # "none", GoesTo(r, pc)
      PROVE SeenInv'
  BY <1>2 DEF GoesTo
<1>3. ASSUME request[r] # "none", Leave(r) PROVE SeenInv'
  BY <1>3 DEF Leave
<1>4. QED
  BY <1>1, <1>2, <1>3 DEF RequestStep, BodyRead, ClientDisconnects, Answered, UpstreamFails,
                          Delivered

LEMMA SeenNext == SeenInv /\ [AccessNext]_accessVars => SeenInv'
<1> SUFFICES ASSUME SeenInv, [AccessNext]_accessVars PROVE SeenInv'
  OBVIOUS
<1>1. CASE InstanceStep
  <2>1. TypeOK' /\ \A u : RunningOrOver(u) => RunningOrOver(u)'
    BY <1>1, SeenStaysSeen DEF InstanceStep, SeenInv
  <2>2. QED
    BY <1>1, <2>1 DEF InstanceStep, SeenInv, TasksTyped, RequestsSound, CallsSound, Inflight,
                      clientVars, proxyVars, checkVars, callVars
<1>2. ASSUME NEW r \in Requests, NEW u \in Uuids, Arrive(r, u), UNCHANGED <<vars, checkVars>>
      PROVE SeenInv'
  BY <1>2, RequestsStep DEF checkVars
<1>3. ASSUME NEW r \in Requests, RequestStep(r), UNCHANGED <<vars, checkVars>> PROVE SeenInv'
  BY <1>3, RequestsStep DEF checkVars
<1>4. ASSUME NEW r \in Requests, Deliver(r) PROVE SeenInv'
  BY <1>4, RequestsStep DEF Deliver
<1>5. ASSUME NEW f \in Calls, NEW u \in Uuids, FlagBegin(f, u), UNCHANGED <<vars, proxyVars>>
      PROVE SeenInv'
  BY <1>5 DEF FlagBegin, SetCall, SeenInv, TypeOK, TasksTyped, RequestsSound, CallsSound,
              RunningOrOver, Inflight, vars, proxyVars
<1>6. ASSUME NEW f \in Calls, NodeAnswers(f) \/ FlagEnd(f), UNCHANGED <<vars, proxyVars>>
      PROVE SeenInv'
  BY <1>6 DEF NodeAnswers, FlagEnd, SetCall, SeenInv, TypeOK, TasksTyped, RequestsSound,
              CallsSound, RunningOrOver, Inflight, vars, proxyVars
<1>7. CASE Restart
  BY <1>7 DEF Restart, RequestsLost, CallsLost, SeenInv, TypeOK, TasksTyped, RequestsSound,
              CallsSound, RunningOrOver, Inflight, vars
<1>8. CASE UNCHANGED accessVars
  BY <1>8 DEF accessVars, SeenInv, TypeOK, TasksTyped, RequestsSound, CallsSound,
              RunningOrOver, Inflight, vars, clientVars, proxyVars, checkVars, callVars
<1>9. QED
  BY <1>1, <1>2, <1>3, <1>4, <1>5, <1>6, <1>7, <1>8 DEF AccessNext, ClientStep

LEMMA SeenAlways == AccessSpec => []SeenInv
BY SeenInit, SeenNext, PTL DEF AccessSpec

\* No request is delivered to an instance that is not running: the uuid it
\* asks for was seen running, and if it no longer is, nothing takes the request
\* (proxy.py:63-95, the row is read before the body is awaited).
THEOREM OnlyRunningReached == AccessSpec => ReachesOnlyRunning
<1> DEFINE OnlyRunning(r) ==
        request[r] = "upstream" /\ request'[r] = "sent" => row[asked[r]] = "running"
<1>1. ASSUME SeenInv, [AccessNext]_accessVars, NEW r \in Requests PROVE OnlyRunning(r)
  <2> USE <1>1 DEF SeenInv, TasksTyped, RequestsSound, Inflight
  <2>1. CASE Deliver(r)
    BY <2>1 DEF Deliver, Delivered, RunningOrOver
  <2>2. ASSUME NEW q \in Requests, q # r, Deliver(q) PROVE request'[r] = request[r]
    BY <2>2 DEF Deliver, Delivered, GoesTo
  <2>3. ASSUME NEW q \in Requests, RequestStep(q) \/ \E u \in Uuids : Arrive(q, u)
        PROVE  request'[r] = "sent" => request[r] = "sent"
    BY <2>3 DEF RequestStep, BodyRead, ClientDisconnects, Answered, UpstreamFails, GoesTo,
                Leave, Arrive
  <2>4. CASE Restart
    BY <2>4 DEF Restart, RequestsLost
  <2>5. CASE UNCHANGED proxyVars
    BY <2>5 DEF proxyVars
  <2>6. QED
    BY <2>1, <2>2, <2>3, <2>4, <2>5 DEF AccessNext, ClientStep, clientVars, InstanceStep, accessVars
<1>2. SeenInv /\ [AccessNext]_accessVars => [\A r \in Requests : OnlyRunning(r)]_accessVars
  BY <1>1
<1>3. QED
  BY <1>2, SeenAlways, PTL DEF AccessSpec, ReachesOnlyRunning

-----------------------------------------------------------------------------
(* The in-flight counters. *)

LEMMA InflightFinite ==
    /\ IsFiniteSet({r \in Requests : Inflight(r)})
    /\ \A u : IsFiniteSet(InflightOf(u))
BY RequestsAssumption, FS_Subset DEF InflightOf

\* A request that arrives is one more of its instance and of no other.
LEMMA ArriveCounts ==
    ASSUME TasksTyped, InflightTrue, NEW r \in Requests, NEW u \in Uuids, Arrive(r, u)
    PROVE  InflightTrue'
<1> DEFINE all == {q \in Requests : Inflight(q)}
<1>1. all' = all \union {r} /\ r \notin all
  BY DEF TasksTyped, Arrive, Inflight
<1>2. InflightOf(u)' = InflightOf(u) \union {r} /\ r \notin InflightOf(u)
  BY DEF TasksTyped, Arrive, Inflight, InflightOf
<1>3. \A v \in Uuids : v # u => InflightOf(v)' = InflightOf(v)
  BY DEF TasksTyped, Arrive, Inflight, InflightOf
<1>4. Cardinality(all') = Cardinality(all) + 1 /\ Cardinality(all) \in Nat
  BY <1>1, InflightFinite, FS_AddElement, FS_CardinalityType
<1>5. /\ Cardinality(InflightOf(u)') = Cardinality(InflightOf(u)) + 1
      /\ Cardinality(InflightOf(u)) \in Nat
  BY <1>2, InflightFinite, FS_AddElement, FS_CardinalityType
<1>6. per_get(u, 0) = Cardinality(InflightOf(u))
  BY FS_EmptySet DEF InflightTrue, per_get
<1>7. /\ inflight_total' = Cardinality(all')
      /\ inflight_total' <= MaxInflight
  BY <1>4, InflightAssumption DEF Arrive, HasPlace, InflightTrue
<1>8. DOMAIN inflight_per' = DOMAIN inflight_per \union {u}
  BY DEF Arrive
<1>9. DOMAIN inflight_per' = {v \in Uuids : InflightOf(v)' # {}}
  BY <1>8, <1>2, <1>3 DEF InflightTrue
<1>10. inflight_per'[u] = Cardinality(InflightOf(u)') /\ inflight_per'[u] <= MaxInflightPerUuid
  BY <1>5, <1>6, InflightAssumption DEF Arrive, HasPlace
<1>11. ASSUME NEW v \in DOMAIN inflight_per', v # u
       PROVE  /\ inflight_per'[v] = Cardinality(InflightOf(v)')
              /\ inflight_per'[v] <= MaxInflightPerUuid
  BY <1>11, <1>8, <1>3 DEF Arrive, InflightTrue
<1>12. QED
  BY <1>7, <1>9, <1>10, <1>11 DEF InflightTrue

\* A request that leaves, however it ends, is one less of its instance.
LEMMA LeaveCounts ==
    ASSUME TasksTyped, InflightTrue,
           NEW r \in Requests, NEW u \in Uuids, u = asked[r], Inflight(r), Leave(r)
    PROVE  InflightTrue'
<1> DEFINE all == {q \in Requests : Inflight(q)}
           left == per_get(u, 1) - 1
<1>1. all' = all \ {r} /\ r \in all
  BY DEF TasksTyped, Leave, Inflight
<1>3. InflightOf(u)' = InflightOf(u) \ {r} /\ r \in InflightOf(u)
  BY NoUuidIsNone DEF TasksTyped, Leave, Inflight, InflightOf
<1>4. \A v \in Uuids : v # u => InflightOf(v)' = InflightOf(v)
  BY DEF TasksTyped, Leave, Inflight, InflightOf
<1>5. Cardinality(all') = Cardinality(all) - 1 /\ Cardinality(all) \in Nat
  BY <1>1, InflightFinite, FS_RemoveElement, FS_CardinalityType
<1>6. /\ Cardinality(InflightOf(u)') = Cardinality(InflightOf(u)) - 1
      /\ Cardinality(InflightOf(u)) \in Nat
      /\ Cardinality(InflightOf(u)') \in Nat
  BY <1>3, InflightFinite, FS_RemoveElement, FS_CardinalityType, FS_Subset
<1>7. Cardinality(InflightOf(u)') = 0 <=> InflightOf(u)' = {}
  BY <1>3, InflightFinite, FS_RemoveElement, FS_EmptySet
<1>8. u \in DOMAIN inflight_per
  BY <1>3 DEF InflightTrue
<1>9. left = Cardinality(InflightOf(u)')
  BY <1>6, <1>8 DEF InflightTrue, per_get
<1>10. /\ inflight_total' = Cardinality(all')
       /\ inflight_total' <= MaxInflight
  BY <1>5, InflightAssumption DEF Leave, InflightTrue
<1>11. DOMAIN inflight_per' = {w \in DOMAIN inflight_per : w # u \/ left > 0}
  BY DEF Leave
<1>12. DOMAIN inflight_per' = {v \in Uuids : InflightOf(v)' # {}}
  BY <1>4, <1>6, <1>7, <1>8, <1>9, <1>11 DEF InflightTrue
<1>13. ASSUME NEW v \in DOMAIN inflight_per'
       PROVE  /\ inflight_per'[v] = Cardinality(InflightOf(v)')
              /\ inflight_per'[v] <= MaxInflightPerUuid
  <2>1. CASE v = u
    BY <2>1, <1>6, <1>8, <1>9, <1>13, InflightAssumption DEF Leave, InflightTrue
  <2>2. CASE v # u
    BY <2>2, <1>4, <1>11, <1>13 DEF Leave, InflightTrue
  <2>3. QED
    BY <2>1, <2>2
<1>14. QED
  BY <1>10, <1>12, <1>13 DEF InflightTrue

LEMMA ProxyKept ==
    ASSUME InflightTrue, UNCHANGED <<inflight_total, inflight_per, asked>>,
           \A q \in Requests : Inflight(q)' <=> Inflight(q)
    PROVE  InflightTrue'
<1>1. {q \in Requests : Inflight(q)}' = {q \in Requests : Inflight(q)}
  OBVIOUS
<1>2. \A u : InflightOf(u)' = InflightOf(u)
  BY DEF InflightOf
<1>3. QED
  BY <1>1, <1>2 DEF InflightTrue

LEMMA InflightNext ==
    SeenInv /\ InflightTrue /\ [AccessNext]_accessVars => InflightTrue'
<1> SUFFICES ASSUME SeenInv, InflightTrue, [AccessNext]_accessVars PROVE InflightTrue'
  OBVIOUS
<1>1. ASSUME NEW r \in Requests, NEW u \in Uuids, Arrive(r, u) PROVE InflightTrue'
  BY <1>1, ArriveCounts DEF SeenInv
<1>2. ASSUME NEW r \in Requests, Inflight(r), Leave(r) PROVE InflightTrue'
  BY <1>2, LeaveCounts DEF SeenInv, RequestsSound, RunningOrOver
<1>3. ASSUME NEW r \in Requests, NEW pc \in {"upstream", "sent"}, Inflight(r), GoesTo(r, pc)
      PROVE  InflightTrue'
  BY <1>3, ProxyKept DEF GoesTo, Inflight, SeenInv, TasksTyped
<1>4. ASSUME NEW r \in Requests, RequestStep(r) \/ Delivered(r) PROVE InflightTrue'
  BY <1>2, <1>3, <1>4 DEF RequestStep, BodyRead, ClientDisconnects, Answered, UpstreamFails,
                          Delivered, Inflight
<1>5. CASE Restart
  <2>1. \A q \in Requests : ~Inflight(q)'
    BY <1>5 DEF Restart, RequestsLost, Inflight
  <2>2. {q \in Requests : Inflight(q)}' = {} /\ \A u : InflightOf(u)' = {}
    BY <2>1 DEF InflightOf
  <2>3. QED
    BY <1>5, <2>2, FS_EmptySet, InflightAssumption DEF Restart, RequestsLost, InflightTrue
<1>6. CASE UNCHANGED proxyVars
  BY <1>6, ProxyKept DEF proxyVars, Inflight
<1>7. QED
  BY <1>1, <1>4, <1>5, <1>6 DEF AccessNext, ClientStep, clientVars, InstanceStep, Deliver, accessVars

\* The counters count the requests in flight, all of them and no others, and
\* neither cap is exceeded, for any caps (proxy.py:72-80, 110-114).
THEOREM InflightAlwaysTrue == AccessSpec => []InflightTrue
<1>1. ASSUME AccessInit PROVE InflightTrue
  <2>1. \A q \in Requests : ~Inflight(q)
    BY <1>1 DEF AccessInit, ProxyInit, Inflight
  <2>2. {q \in Requests : Inflight(q)} = {}
    BY <2>1 DEF Inflight
  <2>3. \A u : InflightOf(u) = {}
    BY <2>1 DEF InflightOf
  <2>4. inflight_total = 0 /\ DOMAIN inflight_per = {}
    BY <1>1 DEF AccessInit, ProxyInit
  <2>5. DOMAIN inflight_per = {u \in Uuids : InflightOf(u) # {}}
    BY <2>3, <2>4
  <2>6. QED
    BY <2>2, <2>4, <2>5, FS_EmptySet, InflightAssumption DEF InflightTrue
<1>2. QED
  BY <1>1, InflightNext, SeenAlways, PTL DEF AccessSpec

-----------------------------------------------------------------------------
(* The chains, the manifest and the flag. *)

ChainsTyped ==
    /\ solve \in Manifests
    /\ field \in [Uuids -> FieldValues \union {Gone}]
    /\ events \in [Uuids -> Seq(Senders)]
    /\ \A u \in Uuids : Len(events[u]) <= MaxEvents

LEMMA ChainsNext == ChainsTyped /\ SeenInv /\ [AccessNext]_accessVars => ChainsTyped'
<1> SUFFICES ASSUME ChainsTyped, SeenInv, [AccessNext]_accessVars PROVE ChainsTyped'
  OBVIOUS
<1>1. CASE UNCHANGED <<solve, chains>>
  BY <1>1 DEF ChainsTyped, chains
<1>2. ASSUME NEW r \in Requests, Deliver(r) PROVE ChainsTyped'
  <2>1. UNCHANGED solve /\ asked[r] \in Uuids
    BY <1>2 DEF Deliver, Delivered, SeenInv, RequestsSound, Inflight, RunningOrOver
  <2>2. ASSUME NEW v \in FieldValues \union {Gone}, field' = [field EXCEPT ![asked[r]] = v],
               UNCHANGED events
        PROVE  ChainsTyped'
    BY <2>1, <2>2 DEF ChainsTyped
  <2>3. ASSUME NEW s \in Senders, events' = [events EXCEPT ![asked[r]] = Append(@, s)],
               Len(events[asked[r]]) < MaxEvents, UNCHANGED field
        PROVE  ChainsTyped'
    <3>1. /\ Append(events[asked[r]], s) \in Seq(Senders)
          /\ Len(Append(events[asked[r]], s)) = Len(events[asked[r]]) + 1
          /\ Len(events[asked[r]]) \in Nat
      BY <2>1 DEF ChainsTyped
    <3>2. QED
      BY <2>1, <2>3, <3>1, EventsAssumption DEF ChainsTyped
  <2>4. QED
    BY <1>1, <1>2, <2>1, <2>2, <2>3 DEF Deliver, Transacts
<1>3. QED
  BY <1>1, <1>2 DEF AccessNext, ClientStep, clientVars, InstanceStep, Restart, CallsLost, FlagBegin, NodeAnswers,
                    FlagEnd, SetCall, accessVars, checkVars

AccessInv == SeenInv /\ InflightTrue /\ ChainsTyped

LEMMA AccessAlways == AccessSpec => []AccessInv
<1>1. AccessInit => ChainsTyped
  BY FieldAssumption, EventsAssumption DEF AccessInit, CheckInit, ChainsTyped, Senders
<1>2. QED
  BY <1>1, ChainsNext, SeenAlways, InflightAlwaysTrue, PTL DEF AccessSpec, AccessInv

\* Every variable of the composition keeps its type.
THEOREM AccessTypeCorrect == AccessSpec => []AccessTypeOK
<1>1. ASSUME AccessInv PROVE AccessTypeOK
  <2>1. inflight_total \in Nat /\ \A u \in DOMAIN inflight_per : inflight_per[u] \in Nat
    BY <1>1, InflightFinite, FS_CardinalityType DEF AccessInv, InflightTrue
  <2>2. ProxyTypeOK
    BY <1>1, <2>1 DEF AccessInv, SeenInv, TasksTyped, InflightTrue, ProxyTypeOK
  <2>3. \A u \in Uuids : ToSet(events[u]) \subseteq Senders
    BY <1>1 DEF AccessInv, ChainsTyped, ToSet
  <2>4. CheckTypeOK
    BY <1>1, <2>3 DEF AccessInv, SeenInv, TasksTyped, ChainsTyped, CheckTypeOK
  <2>5. QED
    BY <1>1, <2>2, <2>4 DEF AccessInv, SeenInv, AccessTypeOK
<1>2. QED
  BY <1>1, AccessAlways, PTL

\* What a page holds: the end of the events, all of them when they fit.
LEMMA PageIsEnd ==
    ASSUME NEW u, events[u] \in Seq(Senders)
    PROVE  LET n == Len(events[u])
           IN  /\ ToSet(Page(u)) \subseteq ToSet(events[u])
               /\ \A i \in 1 .. n : i + PageSize > n => events[u][i] \in ToSet(Page(u))
               /\ Page(u) = <<>> <=> events[u] = <<>>
<1> DEFINE s == events[u]
           n == Len(s)
           m == IF n > PageSize THEN n - PageSize + 1 ELSE 1
<1>1. n \in Nat /\ m \in 1 .. n + 1 /\ (n # 0 => m <= n) /\ DOMAIN s = 1 .. n
  BY PageAssumption
<1>2. Page(u) = SubSeq(s, m, n)
  BY DEF Page
<1> HIDE DEF m
<1>3. /\ Len(Page(u)) = n - m + 1
      /\ DOMAIN Page(u) = 1 .. n - m + 1
      /\ \A i \in 1 .. n - m + 1 : Page(u)[i] = s[m + i - 1]
  BY <1>1, <1>2
<1>4. ToSet(Page(u)) \subseteq ToSet(s)
  BY <1>1, <1>3 DEF ToSet
<1>5. ASSUME NEW i \in 1 .. n, i + PageSize > n PROVE s[i] \in ToSet(Page(u))
  <2>1. i - m + 1 \in 1 .. n - m + 1 /\ m + (i - m + 1) - 1 = i
    BY <1>1, <1>5, PageAssumption DEF m
  <2>2. Page(u)[i - m + 1] = s[i]
    BY <2>1, <1>3
  <2>3. QED
    BY <2>1, <2>2, <1>3 DEF ToSet
<1>6. Page(u) = <<>> <=> s = <<>>
  <2>1. Page(u) \in Seq(Senders)
    BY <1>1, <1>2
  <2>2. Len(Page(u)) = 0 <=> n = 0
    BY <1>1, <1>3 DEF m
  <2>3. QED
    BY <2>1, <2>2
<1>7. QED
  BY <1>4, <1>5, <1>6

\* When comparing is exact, check_solved says what the chain says, but for a
\* player's event that a page of later ones follows.
LEMMA CheckIsWin ==
    ASSUME CoercionExact, ChainsTyped, NEW u \in Uuids
    PROVE  /\ check_solved(u) => Won(u)
           /\ Won(u) /\ ~check_solved(u) =>
                 /\ solve.type = "event"
                 /\ \A i \in DOMAIN events[u] :
                       events[u][i] = "player" => i + PageSize <= Len(events[u])
<1>1. CASE solve.type = "state" /\ field[u] # Gone
  <2>1. solve.op \in Ops /\ field[u] \in FieldValues
    BY <1>1 DEF ChainsTyped, Manifests
  <2>2. ASSUME NEW k \in FieldValues,
               solve.value \in Written([type |-> "u64", is |-> k])
        PROVE  check_solved(u) <=> Holds(solve.op, field[u] = k, field[u] < k)
    <3>1. Compare(solve.op, FromMove([type |-> "u64", is |-> field[u]]), solve.value)
              <=> Holds(solve.op, field[u] = k, field[u] < k)
      <4>1. Exact("u64", solve.op, field[u], solve.value, k)
        BY <1>1, <2>1, <2>2 DEF CoercionExact
      <4>2. QED
        BY <4>1, Zenon DEF Exact
    <3>2. QED
      BY <1>1, <3>1 DEF check_solved, check_state
  <2>3. PICK k \in FieldValues : solve.value \in Written([type |-> "u64", is |-> k])
    BY <1>1 DEF ChainsTyped, Manifests
  <2>4. QED
    BY <1>1, <2>2, <2>3 DEF Won
<1>2. CASE solve.type = "state" /\ field[u] = Gone
  BY <1>2 DEF check_solved, check_state, Won
<1>3. CASE solve.type # "state"
  <2>1. solve.type = "event" /\ solve.sender \in {"player", "any"}
    BY <1>3 DEF ChainsTyped, Manifests
  <2>2. events[u] \in Seq(Senders) /\ DOMAIN events[u] = 1 .. Len(events[u])
    BY DEF ChainsTyped
  <2>3. /\ ToSet(Page(u)) \subseteq ToSet(events[u])
        /\ \A i \in 1 .. Len(events[u]) :
              i + PageSize > Len(events[u]) => events[u][i] \in ToSet(Page(u))
        /\ Page(u) = <<>> <=> events[u] = <<>>
    BY <2>2, PageIsEnd
  <2>4. ToSet(<<>>) = {}
    BY DEF ToSet
  <2>5. CASE solve.sender = "any"
    BY <1>3, <2>1, <2>3, <2>5 DEF check_solved, query_event_exists, Won
  <2>6. CASE solve.sender = "player"
    <3>1. check_solved(u) <=> "player" \in ToSet(Page(u))
      BY <1>3, <2>6 DEF check_solved, query_event_exists
    <3>2. Won(u) <=> events[u] # <<>> /\ "player" \in ToSet(events[u])
      BY <1>3, <2>6 DEF Won
    <3>3. ASSUME ~check_solved(u), NEW i \in DOMAIN events[u], events[u][i] = "player"
          PROVE  i + PageSize <= Len(events[u])
      BY <3>1, <3>3, <2>2, <2>3, PageAssumption
    <3>4. QED
      BY <3>1, <3>2, <3>3, <2>1, <2>3, <2>4
  <2>7. QED
    BY <2>1, <2>5, <2>6
<1>4. QED
  BY <1>1, <1>2, <1>3

\* A call gets its answer from a node that runs, in the state of that moment.
LEMMA AnswersAreOfNode ==
    ASSUME AccessInv, [AccessNext]_accessVars, NEW f \in Calls,
           call'[f] # call[f], call'[f] \in {"solved", "unsolved"}
    PROVE  /\ about[f] \in Uuids /\ row[about[f]] = "running"
           /\ call'[f] = IF check_solved(about[f]) THEN "solved" ELSE "unsolved"
<1>1. NodeAnswers(f)
  <2>1. ASSUME NEW g \in Calls, g # f, NEW pc, NEW u, SetCall(g, pc, u) PROVE FALSE
    BY <2>1 DEF SetCall, AccessInv, SeenInv, TasksTyped
  <2>2. ASSUME NEW pc \in {"none", "asking"}, NEW u, SetCall(f, pc, u) PROVE FALSE
    BY <2>2 DEF SetCall, AccessInv, SeenInv, TasksTyped
  <2>3. call' # call
    OBVIOUS
  <2>4. ~Restart
    BY DEF Restart, CallsLost
  <2>5. QED
    BY <2>1, <2>2, <2>3, <2>4 DEF AccessNext, ClientStep, clientVars, InstanceStep, Deliver, FlagBegin, NodeAnswers,
                                  FlagEnd, accessVars, checkVars, callVars
<1>2. RunningOrOver(about[f]) /\ about[f] \in rpc
  BY <1>1 DEF NodeAnswers, AccessInv, SeenInv, CallsSound
<1>3. QED
  BY <1>1, <1>2 DEF NodeAnswers, SetCall, AccessInv, SeenInv, TasksTyped, RunningOrOver

\* A field of the chain of an instance compares with the manifest's value as the
\* number it stands for, for all numbers, written as an integer or as decimal
\* digits (challenge.py:76-82).
THEOREM CoercionAlwaysExact == AccessSpec => []CoercionExact
<1>1. EveryComparisonExact
  <2>1. FieldValues \subseteq Nat /\ {0, 1} \subseteq Nat
    BY FieldAssumption
  <2>2. QED
    BY <2>1, ComparisonsExact DEF EveryComparisonExact
<1>2. AccessInv => CoercionExact
  <2>1. ASSUME NEW x \in FieldValues, NEW n \in FieldValues,
               solve.value \in Written([type |-> "u64", is |-> n])
        PROVE  Exact("u64", solve.op, x, solve.value, n)
    <3>1. x \in Nat /\ n \in Nat
      BY FieldAssumption
    <3>2. QED
      BY <2>1, <3>1, ComparisonsExact
  <2>2. QED
    BY <1>1, <2>1 DEF CoercionExact
<1>3. QED
  BY <1>2, AccessAlways, PTL DEF AccessSpec

\* A flag is given only for a win that stood on the chain of an instance that
\* was running then, for any number of instances and whatever ends under the
\* call (instances.py:159-174).
THEOREM FlagIsEarned == AccessSpec => FlagEarned
<1>1. ASSUME AccessInv, CoercionExact, [AccessNext]_accessVars
      PROVE  [\A f \in Calls : call[f] # "solved" /\ call'[f] = "solved" =>
                 row[about[f]] = "running" /\ Won(about[f])]_<<callVars, chains>>
  <2>1. ASSUME NEW f \in Calls, call[f] # "solved", call'[f] = "solved"
        PROVE  row[about[f]] = "running" /\ Won(about[f])
    BY <1>1, <2>1, AnswersAreOfNode, CheckIsWin DEF AccessInv
  <2>2. QED
    BY <2>1
<1>2. QED
  BY <1>1, AccessAlways, CoercionAlwaysExact, PTL DEF AccessSpec, FlagEarned

\* A win is recognised, unless a page of later events follows the player's
\* (sui_rpc.py:52-64).
THEOREM WinIsRecognised == AccessSpec => WinRecognised
<1>1. ASSUME AccessInv, CoercionExact, [AccessNext]_accessVars
      PROVE  [\A f \in Calls : call[f] # "unsolved" /\ call'[f] = "unsolved" =>
                 \/ ~Won(about[f])
                 \/ /\ solve.type = "event"
                    /\ \A i \in DOMAIN events[about[f]] :
                          events[about[f]][i] = "player" =>
                             i + PageSize <= Len(events[about[f]])]_<<callVars, chains>>
  <2>1. ASSUME NEW f \in Calls, call[f] # "unsolved", call'[f] = "unsolved", Won(about[f])
        PROVE  /\ solve.type = "event"
               /\ \A i \in DOMAIN events[about[f]] :
                     events[about[f]][i] = "player" => i + PageSize <= Len(events[about[f]])
    BY <1>1, <2>1, AnswersAreOfNode, CheckIsWin DEF AccessInv
  <2>2. QED
    BY <2>1
<1>2. QED
  BY <1>1, AccessAlways, CoercionAlwaysExact, PTL DEF AccessSpec, WinRecognised

=============================================================================
