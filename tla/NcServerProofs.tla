--------------------------- MODULE NcServerProofs ---------------------------
(***************************************************************************)
(* The connection counters and the proof-of-work gate of NcServer, for any *)
(* numbers of connections and addresses, any caps and any pipelining; and  *)
(* the arithmetic of Pow.                                                  *)
(***************************************************************************)
EXTENDS NcServer, NumeralProofs, FiniteSetTheorems, TLAPS

(* Steps that neither open nor close a connection. *)

Inside(c) ==
    \/ \E line \in Sendable : PlayerSends(c, line)
    \/ PlayerLeaves(c)
    \/ Breaks(c) \/ HeartbeatBreaks(c)
    \/ ChooseSpawn(c) \/ ChooseOther(c) \/ MenuSilence(c)
    \/ PowAccepted(c) \/ PowFailed(c)
    \/ SpawnReturns(c) \/ SpawnRaises(c)
    \/ ReadUuid(c) \/ UuidSilence(c) \/ CallReturns(c)

\* Next is one of these, an Accept or a Close.
LEMMA NextSplit ==
    Next => \E c \in Conns : Inside(c) \/ (\E ip \in IPs : Accept(c, ip)) \/ Close(c)
BY DEF Next, ConnStep, HandlerStep, Inside

\* Reading a line leaves a sequence of lines.
LEMMA ReadsType ==
    ASSUME NEW c \in Conns, buffered \in [Conns -> Seq(Lines)], reads(c)
    PROVE  buffered' \in [Conns -> Seq(Lines)]
BY DEF reads

-----------------------------------------------------------------------------
(* The counters. *)

\* Nothing that happens to an open connection changes which are open, where
\* they come from, or the counters.
LEMMA InsideKeepsConnections ==
    ASSUME NcTypeOK, NEW c \in Conns, Inside(c)
    PROVE  /\ UNCHANGED <<peer, counters>>
           /\ \A d \in Conns : Open(d)' <=> Open(d)
           /\ session' \in [Conns -> {"closed", "closing"} \union Prompts \union Calls]
<1>1. CASE \E line \in Sendable : PlayerSends(c, line)
  BY <1>1 DEF PlayerSends, Open, NcTypeOK
<1>2. CASE PlayerLeaves(c)
  BY <1>2 DEF PlayerLeaves, Open, NcTypeOK
<1>3. CASE Breaks(c)
  BY <1>3 DEF Breaks, goto, Open, NcTypeOK, Prompts, Calls
<1>4. CASE HeartbeatBreaks(c)
  BY <1>4 DEF HeartbeatBreaks, Open, NcTypeOK
<1>5. CASE ChooseSpawn(c) \/ ChooseOther(c) \/ MenuSilence(c)
  BY <1>5 DEF ChooseSpawn, ChooseOther, MenuSilence, chooses, goto, Open, NcTypeOK,
              Prompts, Calls
<1>6. CASE PowAccepted(c) \/ PowFailed(c)
  BY <1>6 DEF PowAccepted, PowFailed, goto, Open, NcTypeOK, Prompts, Calls
<1>7. CASE SpawnReturns(c) \/ SpawnRaises(c)
  BY <1>7 DEF SpawnReturns, SpawnRaises, goto, Open, NcTypeOK, Prompts, Calls
<1>8. CASE ReadUuid(c) \/ UuidSilence(c) \/ CallReturns(c)
  BY <1>8 DEF ReadUuid, UuidSilence, CallReturns, goto, Open, NcTypeOK, Prompts, Calls
<1> QED
  BY <1>1, <1>2, <1>3, <1>4, <1>5, <1>6, <1>7, <1>8 DEF Inside

\* Every open connection has an address: Close finds its counter.
PeersKnown == \A c \in Conns : Open(c) => peer[c] \in IPs

CountersInv == NcTypeOK /\ PeersKnown /\ CountersTrue

(* The gate: a session at its proof of work holds a challenge that nobody has *)
(* solved, and that no other session holds.                                   *)

PowBuys == \A c \in Conns : session[c] = "pow" => challenge[c] \in (1 .. issued) \ spent

PowApart ==
    \A c, d \in Conns :
        session[c] = "pow" /\ session[d] = "pow" /\ challenge[c] = challenge[d] => c = d

\* The sets whose sizes are counted are finite.
LEMMA ConnectionsFinite ==
    /\ IsFiniteSet(Connections)
    /\ \A ip \in IPs : IsFiniteSet(ConnectionsFrom(ip))
<1>1. Connections \subseteq Conns /\ \A ip \in IPs : ConnectionsFrom(ip) \subseteq Conns
  BY DEF Connections, ConnectionsFrom
<1> QED
  BY <1>1, ConnsAssumption, FS_Subset

\* A connection accepted adds one to both counts.
LEMMA AcceptCounts ==
    ASSUME CountersInv, NEW c \in Conns, NEW ip \in IPs, Accept(c, ip)
    PROVE  PeersKnown' /\ CountersTrue'
<1>1. /\ c \notin Connections
      /\ Connections' = Connections \union {c}
  BY DEF CountersInv, NcTypeOK, Accept, Connections, Open
<1>2. c \notin ConnectionsFrom(ip) /\ ConnectionsFrom(ip)' = ConnectionsFrom(ip) \union {c}
  BY <1>1 DEF CountersInv, NcTypeOK, Accept, ConnectionsFrom, Connections, Open
<1>3. \A a \in IPs \ {ip} : ConnectionsFrom(a)' = ConnectionsFrom(a)
  BY <1>1 DEF CountersInv, NcTypeOK, Accept, ConnectionsFrom, Connections, Open
<1>4. Cardinality(Connections') = Cardinality(Connections) + 1
  BY <1>1, ConnectionsFinite, FS_AddElement
<1>5. Cardinality(ConnectionsFrom(ip)') = Cardinality(ConnectionsFrom(ip)) + 1
  BY <1>2, ConnectionsFinite, FS_AddElement
<1>6. active' = Cardinality(Connections')
  BY <1>4 DEF CountersInv, CountersTrue, Accept
<1>7. \A a \in IPs : per_ip'[a] = Cardinality(ConnectionsFrom(a)')
  BY <1>3, <1>5 DEF CountersInv, NcTypeOK, CountersTrue, Accept
<1>8. PeersKnown'
  BY DEF CountersInv, NcTypeOK, PeersKnown, Accept, Open
<1> QED
  BY <1>6, <1>7, <1>8 DEF CountersTrue

\* A handler that ends takes one from both counts, which were positive.
LEMMA CloseCounts ==
    ASSUME CountersInv, NEW c \in Conns, Close(c)
    PROVE  /\ PeersKnown' /\ CountersTrue'
           /\ active' \in Nat /\ per_ip'[peer[c]] \in Nat /\ peer[c] \in IPs
<1>0. PICK ip \in IPs : peer[c] = ip
  BY DEF CountersInv, PeersKnown, Close, Open
<1>1. c \in Connections
  BY DEF CountersInv, PeersKnown, Close, Connections, Open
<1>2. Connections' = Connections \ {c}
  BY DEF CountersInv, NcTypeOK, Close, goto, Connections, Open
<1>3. c \in ConnectionsFrom(ip) /\ ConnectionsFrom(ip)' = ConnectionsFrom(ip) \ {c}
  BY <1>0, <1>1, <1>2, NcNoIpAssumption
  DEF CountersInv, NcTypeOK, Close, goto, ConnectionsFrom, Connections, Open
<1>4. \A a \in IPs \ {ip} : ConnectionsFrom(a)' = ConnectionsFrom(a)
  BY <1>0, <1>1, <1>2, NcNoIpAssumption
  DEF CountersInv, NcTypeOK, Close, goto, ConnectionsFrom, Connections, Open
<1>5. /\ Cardinality(Connections') = Cardinality(Connections) - 1
      /\ Cardinality(Connections') \in Nat
  BY <1>1, <1>2, ConnectionsFinite, FS_RemoveElement, FS_CardinalityType
<1>6. /\ Cardinality(ConnectionsFrom(ip)') = Cardinality(ConnectionsFrom(ip)) - 1
      /\ Cardinality(ConnectionsFrom(ip)') \in Nat
  BY <1>3, ConnectionsFinite, FS_RemoveElement, FS_CardinalityType
<1>7. active' = Cardinality(Connections')
  BY <1>5 DEF CountersInv, CountersTrue, Close
<1>8. per_ip' = [per_ip EXCEPT ![ip] = @ - 1]
  BY <1>0 DEF Close
<1>9. per_ip'[ip] = Cardinality(ConnectionsFrom(ip)')
  BY <1>6, <1>8 DEF CountersInv, NcTypeOK, CountersTrue
<1>10. \A a \in IPs : per_ip'[a] = Cardinality(ConnectionsFrom(a)')
  BY <1>4, <1>8, <1>9 DEF CountersInv, NcTypeOK, CountersTrue
<1>11. PeersKnown'
  BY DEF CountersInv, NcTypeOK, PeersKnown, Close, goto, Open
<1> QED
  BY <1>0, <1>5, <1>6, <1>7, <1>9, <1>10, <1>11 DEF CountersTrue

-----------------------------------------------------------------------------
(* Types. *)

\* What a player may send is a line.
LEMMA SendableLines == NcTypeOK => Sendable \subseteq Lines
BY DEF NcTypeOK, Sendable, Lines, Choices

\* The types no step disturbs through the counters.
RestTyped ==
    /\ pow_required \in BOOLEAN
    /\ challenge \in [Conns -> 0 .. issued]
    /\ heartbeat \subseteq Conns
    /\ buffered \in [Conns -> Seq(Lines)]
    /\ issued \in Nat
    /\ spent \subseteq 1 .. issued
    /\ attempts \in 0 .. MaxAttempts

\* Inside steps keep them.
LEMMA InsideTyped ==
    ASSUME NcTypeOK, NEW c \in Conns, Inside(c), PowBuys
    PROVE  RestTyped' /\ quiet' \in [Conns -> BOOLEAN]
<1> USE DEF RestTyped, NcTypeOK
<1>1. CASE \E line \in Sendable : PlayerSends(c, line)
  <2>1. PICK line \in Lines : PlayerSends(c, line)
    BY <1>1, SendableLines
  <2>2. buffered' \in [Conns -> Seq(Lines)]
    BY <2>1 DEF PlayerSends
  <2>3. attempts' \in 0 .. MaxAttempts
    BY <2>1, NcBoundsAssumption DEF PlayerSends
  <2> QED
    BY <2>1, <2>2, <2>3 DEF PlayerSends, pow
<1>2. CASE PlayerLeaves(c)
  BY <1>2 DEF PlayerLeaves, pow
<1>3. CASE Breaks(c) \/ HeartbeatBreaks(c)
  BY <1>3 DEF Breaks, HeartbeatBreaks, cancel_heartbeat, pow, player
<1>4. CASE ChooseSpawn(c)
  <2>1. buffered' \in [Conns -> Seq(Lines)]
    BY <1>4, ReadsType DEF ChooseSpawn, chooses
  <2>2. UNCHANGED <<quiet, attempts>>
    BY <1>4 DEF ChooseSpawn, chooses, reads
  <2>3. CASE new_challenge(c) /\ UNCHANGED heartbeat
    BY <2>1, <2>2, <2>3 DEF new_challenge
  <2>4. CASE start_heartbeat(c) /\ UNCHANGED pow
    BY <2>1, <2>2, <2>4 DEF start_heartbeat, pow
  <2> QED
    BY <1>4, <2>3, <2>4 DEF ChooseSpawn
<1>5. CASE ChooseOther(c) \/ MenuSilence(c)
  BY <1>5, ReadsType DEF ChooseOther, MenuSilence, chooses, reads, times_out, pow, player
<1>6. CASE PowAccepted(c)
  <2>1. buffered' \in [Conns -> Seq(Lines)]
    BY <1>6, ReadsType DEF PowAccepted
  <2>2. spent' \subseteq 1 .. issued
    BY <1>6 DEF PowAccepted, PowBuys
  <2> QED
    BY <1>6, <2>1, <2>2 DEF PowAccepted, reads, start_heartbeat
<1>7. CASE PowFailed(c)
  BY <1>7, ReadsType DEF PowFailed, reads, times_out, pow, player
<1>8. CASE SpawnReturns(c) \/ SpawnRaises(c)
  BY <1>8 DEF SpawnReturns, SpawnRaises, cancel_heartbeat, pow, player
<1>9. CASE ReadUuid(c) \/ UuidSilence(c) \/ CallReturns(c)
  BY <1>9, ReadsType DEF ReadUuid, UuidSilence, CallReturns, reads, times_out, pow, player
<1> QED
  BY <1>1, <1>2, <1>3, <1>4, <1>5, <1>6, <1>7, <1>8, <1>9 DEF Inside

-----------------------------------------------------------------------------
(* The inductive invariant. *)

NcInv == CountersInv /\ PowBuys /\ PowApart

\* At first nobody is connected.
LEMMA NcInit == Init => NcInv
<1> SUFFICES ASSUME Init PROVE NcInv
  OBVIOUS
<1>1. NcTypeOK
  BY NcCapsAssumption, NcBoundsAssumption DEF Init, NcTypeOK
<1>2. Connections = {} /\ \A ip \in IPs : ConnectionsFrom(ip) = {}
  BY DEF Init, Connections, ConnectionsFrom, Open
<1>3. CountersTrue
  BY <1>2, FS_EmptySet DEF Init, CountersTrue
<1>4. PeersKnown /\ PowBuys /\ PowApart
  BY DEF Init, PeersKnown, PowBuys, PowApart, Open
<1> QED
  BY <1>1, <1>3, <1>4 DEF NcInv, CountersInv

\* Every step keeps the types and the counters.
LEMMA CountersStep ==
    ASSUME NcInv, NEW c \in Conns,
           Inside(c) \/ (\E ip \in IPs : Accept(c, ip)) \/ Close(c)
    PROVE  CountersInv'
<1> USE DEF NcInv
<1>1. CASE Inside(c)
  <2>1. /\ UNCHANGED <<peer, counters>>
        /\ \A d \in Conns : Open(d)' <=> Open(d)
        /\ session' \in [Conns -> {"closed", "closing"} \union Prompts \union Calls]
    BY <1>1, InsideKeepsConnections DEF CountersInv
  <2>2. RestTyped' /\ quiet' \in [Conns -> BOOLEAN]
    BY <1>1, InsideTyped DEF CountersInv
  <2>3. NcTypeOK'
    BY <2>1, <2>2 DEF RestTyped, NcTypeOK, CountersInv, counters
  <2>4. /\ Connections' = Connections
        /\ \A ip \in IPs : ConnectionsFrom(ip)' = ConnectionsFrom(ip)
    BY <2>1 DEF Connections, ConnectionsFrom
  <2> QED
    BY <2>1, <2>3, <2>4 DEF CountersInv, PeersKnown, CountersTrue, counters
<1>2. CASE \E ip \in IPs : Accept(c, ip)
  <2>1. PICK ip \in IPs : Accept(c, ip)
    BY <1>2
  <2>2. PeersKnown' /\ CountersTrue'
    BY <2>1, AcceptCounts
  <2>3. active' \in 0 .. MaxConn /\ per_ip' \in [IPs -> 0 .. MaxConnPerIp]
    BY <2>1, NcCapsAssumption DEF Accept, HasCapacity, CountersInv, NcTypeOK
  <2>4. NcTypeOK'
    BY <2>1, <2>3 DEF Accept, CountersInv, NcTypeOK, pow, player, Prompts
  <2> QED
    BY <2>2, <2>4 DEF CountersInv
<1>3. CASE Close(c)
  <2>1. /\ PeersKnown' /\ CountersTrue'
        /\ active' \in Nat /\ per_ip'[peer[c]] \in Nat /\ peer[c] \in IPs
    BY <1>3, CloseCounts
  <2>2. active' \in 0 .. MaxConn /\ per_ip' \in [IPs -> 0 .. MaxConnPerIp]
    BY <1>3, <2>1, NcCapsAssumption DEF Close, CountersInv, NcTypeOK
  <2>3. /\ session' \in [Conns -> {"closed", "closing"} \union Prompts \union Calls]
        /\ peer' \in [Conns -> IPs \union {NoIp}]
        /\ challenge' \in [Conns -> 0 .. issued]
        /\ buffered' \in [Conns -> Seq(Lines)]
    BY <1>3 DEF Close, goto, CountersInv, NcTypeOK
  <2>4. quiet' \in [Conns -> BOOLEAN]
    BY <1>3 DEF Close, CountersInv, NcTypeOK
  <2>5. UNCHANGED <<heartbeat, pow_required, issued, spent, attempts>>
    BY <1>3 DEF Close
  <2>6. NcTypeOK'
    BY <2>2, <2>3, <2>4, <2>5 DEF CountersInv, NcTypeOK
  <2> QED
    BY <2>1, <2>6 DEF CountersInv
<1> QED
  BY <1>1, <1>2, <1>3

\* A step that issues and spends nothing and brings nobody to the proof of work
\* keeps what a challenge is good for.
LEMMA PowUntouched ==
    ASSUME PowBuys, PowApart, UNCHANGED pow,
           \A d \in Conns : session'[d] = "pow" => session[d] = "pow"
    PROVE  PowBuys' /\ PowApart'
BY DEF PowBuys, PowApart, pow

\* So do the others.  Sessions enter "pow" with a challenge above all others;
\* accepting one spends it and leaves "pow".
LEMMA PowStep ==
    ASSUME NcInv, NEW c \in Conns,
           Inside(c) \/ (\E ip \in IPs : Accept(c, ip)) \/ Close(c)
    PROVE  PowBuys' /\ PowApart'
<1> USE DEF NcInv, CountersInv, NcTypeOK
<1>1. CASE ChooseSpawn(c)
  <2>1. CASE pow_required /\ new_challenge(c) /\ goto(c, "pow")
    BY <2>1 DEF new_challenge, goto, PowBuys, PowApart
  <2>2. CASE goto(c, "spawning") /\ UNCHANGED pow
    BY <2>2, PowUntouched DEF goto
  <2> QED
    BY <1>1, <2>1, <2>2 DEF ChooseSpawn
<1>2. CASE PowAccepted(c)
  BY <1>2 DEF PowAccepted, goto, PowBuys, PowApart
<1>3. ASSUME NEW position, position # "pow", goto(c, position), UNCHANGED pow
      PROVE  PowBuys' /\ PowApart'
  BY <1>3, PowUntouched DEF goto
<1>4. ASSUME UNCHANGED session, UNCHANGED pow PROVE PowBuys' /\ PowApart'
  BY <1>4, PowUntouched
<1>5. CASE (\E ip \in IPs : Accept(c, ip)) \/ Close(c)
  <2>1. CASE \E ip \in IPs : Accept(c, ip)
    BY <1>3, <2>1 DEF Accept, goto
  <2>2. CASE Close(c)
    BY <2>2 DEF Close, goto, PowBuys, PowApart
  <2> QED
    BY <1>5, <2>1, <2>2
<1>6. CASE \/ \E line \in Sendable : PlayerSends(c, line)
           \/ PlayerLeaves(c) \/ HeartbeatBreaks(c)
  BY <1>4, <1>6 DEF PlayerSends, PlayerLeaves, HeartbeatBreaks
<1>7. CASE Breaks(c) \/ ChooseOther(c) \/ MenuSilence(c) \/ PowFailed(c)
  BY <1>3, <1>4, <1>7 DEF Breaks, ChooseOther, MenuSilence, PowFailed
<1>8. CASE SpawnReturns(c) \/ SpawnRaises(c) \/ ReadUuid(c) \/ UuidSilence(c) \/ CallReturns(c)
  BY <1>3, <1>4, <1>8 DEF SpawnReturns, SpawnRaises, ReadUuid, UuidSilence, CallReturns
<1> QED
  BY <1>1, <1>2, <1>5, <1>6, <1>7, <1>8 DEF Inside

\* The counters are true and the gate's challenges unspent in every state.
THEOREM NcInvariant == Spec => []NcInv
<1>1. NcInv /\ Next => NcInv'
  BY NextSplit, CountersStep, PowStep DEF NcInv
<1>2. NcInv /\ UNCHANGED vars => NcInv'
  BY DEF vars, counters, pow, player, NcInv, CountersInv, NcTypeOK, PeersKnown, CountersTrue,
         Connections, ConnectionsFrom, Open, PowBuys, PowApart
<1> QED
  BY NcInit, <1>1, <1>2, PTL DEF Spec

\* The types hold and neither counter passes its cap: lines 79-90.
THEOREM NcTypeCorrect == Spec => []NcTypeOK
<1>1. NcInv => NcTypeOK
  BY DEF NcInv, CountersInv
<1> QED
  BY <1>1, NcInvariant, PTL

\* Every way out of a handler gives back exactly what its start took.
THEOREM CountersHold == Spec => []CountersTrue
<1>1. NcInv => CountersTrue
  BY DEF NcInv, CountersInv
<1> QED
  BY <1>1, NcInvariant, PTL

-----------------------------------------------------------------------------
(* The gate. *)

\* The action EverySpawnPaid speaks of.
Paid ==
    \A c \in Conns :
        pow_required /\ session[c] # "spawning" /\ session'[c] = "spawning" =>
           \E n \in (1 .. issued) \ spent :
              line_read(c).solves = n /\ spent' = spent \union {n}

\* Only PowAccepted and, without a gate, ChooseSpawn lead to a spawn.
LEMMA SpawnEntry ==
    ASSUME NcInv, NEW c \in Conns, NEW d \in Conns,
           Inside(c) \/ (\E ip \in IPs : Accept(c, ip)) \/ Close(c),
           pow_required, session[d] # "spawning", session'[d] = "spawning"
    PROVE  d = c /\ PowAccepted(c)
<1> USE DEF NcInv, CountersInv, NcTypeOK
<1>1. CASE ChooseSpawn(c)
  BY <1>1 DEF ChooseSpawn, goto
<1>2. CASE PowAccepted(c)
  BY <1>2 DEF PowAccepted, goto
<1>3. CASE Close(c) \/ \E ip \in IPs : Accept(c, ip)
  BY <1>3 DEF Close, Accept, goto
<1>4. CASE \/ \E line \in Sendable : PlayerSends(c, line)
           \/ PlayerLeaves(c) \/ HeartbeatBreaks(c)
  BY <1>4 DEF PlayerSends, PlayerLeaves, HeartbeatBreaks
<1>5. CASE Breaks(c) \/ ChooseOther(c) \/ MenuSilence(c) \/ PowFailed(c)
  BY <1>5 DEF Breaks, ChooseOther, MenuSilence, PowFailed, goto
<1>6. CASE SpawnReturns(c) \/ SpawnRaises(c) \/ ReadUuid(c) \/ UuidSilence(c) \/ CallReturns(c)
  BY <1>6 DEF SpawnReturns, SpawnRaises, ReadUuid, UuidSilence, CallReturns, goto
<1> QED
  BY <1>1, <1>2, <1>3, <1>4, <1>5, <1>6 DEF Inside

\* With a gate, every spawn costs a fresh challenge, solved: lines 141-168.
THEOREM GateHolds == Spec => EverySpawnPaid
<1>1. NcInv /\ Next => Paid
  <2> SUFFICES ASSUME NcInv, Next, NEW d \in Conns,
                      pow_required, session[d] # "spawning", session'[d] = "spawning"
               PROVE  \E n \in (1 .. issued) \ spent :
                         line_read(d).solves = n /\ spent' = spent \union {n}
    BY DEF Paid
  <2>1. PowAccepted(d)
    BY NextSplit, SpawnEntry
  <2>2. challenge[d] \in (1 .. issued) \ spent
    BY <2>1 DEF PowAccepted, NcInv, PowBuys
  <2> QED
    BY <2>1, <2>2 DEF PowAccepted, verify
<1>2. NcInv /\ UNCHANGED vars => Paid
  BY DEF vars, Paid
<1>3. NcInv /\ [Next]_vars => [Paid]_vars
  BY <1>1, <1>2
<1>4. [][Paid]_vars => EverySpawnPaid
  BY DEF Paid, EverySpawnPaid
<1> QED
  BY NcInvariant, <1>3, <1>4, PTL DEF Spec

-----------------------------------------------------------------------------
(* The heartbeat. *)

\* However a spawn ends, its heartbeat ends with it (ncserver.py, _do_spawn).
THEOREM HeartbeatAlwaysStops == Spec => []HeartbeatStops
<1>1. Init => HeartbeatStops
  BY DEF Init, HeartbeatStops
<1>2. NcTypeOK /\ HeartbeatStops /\ [Next]_vars => HeartbeatStops'
  <2> SUFFICES ASSUME NcTypeOK, HeartbeatStops, [Next]_vars PROVE HeartbeatStops'
    OBVIOUS
  <2> USE DEF NcTypeOK, HeartbeatStops, goto, start_heartbeat, cancel_heartbeat
  <2>1. ASSUME NEW c \in Conns, NEW ip \in IPs, Accept(c, ip) PROVE HeartbeatStops'
    BY <2>1 DEF Accept, Open
  <2>2. ASSUME NEW c \in Conns, Close(c) \/ Breaks(c) PROVE HeartbeatStops'
    BY <2>2 DEF Close, Breaks, Prompts
  <2>3. ASSUME NEW c \in Conns,
               PlayerLeaves(c) \/ \E line \in Sendable : PlayerSends(c, line)
        PROVE  HeartbeatStops'
    BY <2>3 DEF PlayerLeaves, PlayerSends
  <2>4. ASSUME NEW c \in Conns, ChooseSpawn(c) PROVE HeartbeatStops'
    BY <2>4 DEF ChooseSpawn, chooses
  <2>5. ASSUME NEW c \in Conns,
               \/ ChooseOther(c) \/ MenuSilence(c) \/ ReadUuid(c) \/ UuidSilence(c)
               \/ CallReturns(c) \/ PowFailed(c)
        PROVE  HeartbeatStops'
    BY <2>5 DEF ChooseOther, chooses, MenuSilence, ReadUuid, UuidSilence, CallReturns, PowFailed
  <2>6. ASSUME NEW c \in Conns, PowAccepted(c) PROVE HeartbeatStops'
    BY <2>6 DEF PowAccepted
  <2>7. ASSUME NEW c \in Conns, SpawnReturns(c) \/ SpawnRaises(c) \/ HeartbeatBreaks(c)
        PROVE  HeartbeatStops'
    BY <2>7 DEF SpawnReturns, SpawnRaises, HeartbeatBreaks
  <2>8. CASE UNCHANGED vars
    BY <2>8 DEF vars
  <2>9. QED
    BY <2>1, <2>2, <2>3, <2>4, <2>5, <2>6, <2>7, <2>8 DEF Next, ConnStep, HandlerStep
<1>3. QED
  BY <1>1, <1>2, NcTypeCorrect, PTL DEF Spec

-----------------------------------------------------------------------------
(* The arithmetic: what the server counts and what the printed solver shifts   *)
(* is the number of leading zero bits, for bytes of any width and digests of   *)
(* any length.                                                                 *)

Byte == 0 .. 2^ByteBits - 1

\* The bits from i on, counted as Bit does, are dropped.
Top(digest, i) == from_bytes(digest) \div 2^(Width - i)

-----------------------------------------------------------------------------
(* The value of a digest, byte by byte. *)

\* The values of the digest's prefixes, the last of which is its own.
LEMMA PrefixValues ==
    ASSUME NEW digest \in Digests
    PROVE  \E f : /\ f[0] = 0 /\ f[DigestBytes] = from_bytes(digest)
                  /\ \A k \in 0 .. DigestBytes : f[k] \in Nat
                  /\ \A k \in 0 .. DigestBytes - 1 :
                        f[k + 1] = 2^ByteBits * f[k] + digest[k + 1]
<1>1. 2^ByteBits \in Nat \ {0} /\ DigestBytes \in Nat
  BY DigestAssumption, PowerPositive
<1>2. digest \in Seq(Nat) /\ Len(digest) = DigestBytes
  <2>1. digest \in [1 .. DigestBytes -> Nat]
    BY <1>1 DEF Digests
  <2>2. QED
    BY <1>1, <2>1, IsASeq, LenProperties
<1>3. PICK f : Reads(f, 2^ByteBits, digest) /\ Value(2^ByteBits, digest) = f[Len(digest)]
  BY <1>1, <1>2, ValueReads
<1>4. \A k \in 0 .. DigestBytes : f[k] \in Nat
  BY <1>1, <1>2, <1>3, ReadsPrefix
<1>5. f[0] = 0 /\ \A k \in Nat : k + 1 <= Len(digest) =>
                                   f[k + 1] = 2^ByteBits * f[k] + digest[k + 1]
  BY <1>1, <1>2, <1>3, ReadsStep
<1>6. \A k \in 0 .. DigestBytes - 1 : k \in Nat /\ k + 1 <= Len(digest)
  BY <1>1, <1>2
<1>7. QED
  BY <1>2, <1>3, <1>4, <1>5, <1>6 DEF from_bytes

\* Dropping whole bytes.
LEMMA DropBytes ==
    ASSUME NEW digest \in Digests, NEW f,
           f[DigestBytes] = from_bytes(digest),
           \A k \in 0 .. DigestBytes : f[k] \in Nat,
           \A k \in 0 .. DigestBytes - 1 : f[k + 1] = 2^ByteBits * f[k] + digest[k + 1]
    PROVE  \A j \in 0 .. DigestBytes :
               from_bytes(digest) \div 2^(ByteBits * j) = f[DigestBytes - j]
<1> DEFINE v == from_bytes(digest)
           T == {j \in Nat : j <= DigestBytes => v \div 2^(ByteBits * j) = f[DigestBytes - j]}
<1>1. ByteBits \in Nat /\ DigestBytes \in Nat /\ 2^ByteBits \in Nat \ {0} /\ v \in Nat
  <2>1. DigestBytes \in 0 .. DigestBytes
    BY DigestAssumption
  <2>2. QED
    BY <2>1, DigestAssumption, PowerPositive
<1> HIDE DEF v
<1>2. 0 \in T
  <2>1. ByteBits * 0 = 0 /\ DigestBytes - 0 = DigestBytes /\ 2^0 = 1 /\ v \div 1 = v
    BY <1>1
  <2>2. QED
    BY <2>1 DEF v
<1>3. ASSUME NEW j \in T PROVE j + 1 \in T
  <2> SUFFICES ASSUME j + 1 <= DigestBytes
               PROVE  v \div 2^(ByteBits * (j + 1)) = f[DigestBytes - (j + 1)]
    BY <1>3
  <2> DEFINE k == DigestBytes - (j + 1)
  <2>1. /\ j \in Nat /\ v \div 2^(ByteBits * j) = f[DigestBytes - j]
        /\ k \in 0 .. DigestBytes - 1 /\ DigestBytes - j = k + 1
    BY <1>1, <1>3
  <2> HIDE DEF k
  <2>2. f[k + 1] = 2^ByteBits * f[k] + digest[k + 1] /\ f[k] \in Nat
    BY <1>1, <2>1
  <2>3. digest[k + 1] \in 0 .. 2^ByteBits - 1
    BY <1>1, <2>1 DEF Digests
  <2>4. f[k + 1] \div 2^ByteBits = f[k]
    BY <1>1, <2>2, <2>3, QuotientIs
  <2>5. 2^(ByteBits * (j + 1)) = 2^(ByteBits * j) * 2^ByteBits
    <3>1. ByteBits * (j + 1) = ByteBits * j + ByteBits /\ ByteBits * j \in Nat
      BY <1>1, <2>1, SMT
    <3>2. QED
      BY <1>1, <3>1, PowerOfSum
  <2>6. 2^(ByteBits * j) \in Nat \ {0}
    <3>1. ByteBits * j \in Nat
      BY <1>1, <2>1, SMT
    <3>2. QED
      BY <3>1, PowerPositive
  <2>7. (v \div 2^(ByteBits * j)) \div 2^ByteBits = v \div (2^(ByteBits * j) * 2^ByteBits)
    BY <1>1, <2>6, QuotientOfQuotient
  <2>8. QED
    BY <2>1, <2>4, <2>5, <2>7, Zenon DEF k
<1>4. T = Nat
  <2> HIDE DEF T
  <2>1. T \in SUBSET Nat
    BY DEF T
  <2>2. QED
    BY <1>2, <1>3, <2>1, SimpleInduction
<1>5. ASSUME NEW j \in 0 .. DigestBytes
      PROVE  v \div 2^(ByteBits * j) = f[DigestBytes - j]
  <2> HIDE DEF T
  <2>1. j \in T /\ j <= DigestBytes
    BY <1>1, <1>4
  <2>2. QED
    BY <2>1, Zenon DEF T
<1>6. QED
  BY <1>5 DEF v

\* Bit i is the last one of those kept.
LEMMA BitOfTop ==
    ASSUME NEW digest \in Digests, NEW i \in 1 .. Width
    PROVE  Bit(digest, i) = Top(digest, i) % 2
<1>1. PICK f : /\ f[0] = 0 /\ f[DigestBytes] = from_bytes(digest)
               /\ \A k \in 0 .. DigestBytes : f[k] \in Nat
               /\ \A k \in 0 .. DigestBytes - 1 :
                     f[k + 1] = 2^ByteBits * f[k] + digest[k + 1]
  BY PrefixValues
<1> DEFINE k == (i - 1) \div ByteBits
           r == (i - 1) % ByteBits
           s == ByteBits - 1 - r
           j == DigestBytes - (k + 1)
           v == from_bytes(digest)
           y == digest[1 + k]
<1>2. ByteBits \in Nat \ {0} /\ DigestBytes \in Nat \ {0} /\ v \in Nat
  <2>1. DigestBytes \in 0 .. DigestBytes
    BY DigestAssumption
  <2>2. QED
    BY <1>1, <2>1, DigestAssumption
<1>3. /\ i - 1 \in Nat /\ i - 1 < ByteBits * DigestBytes
      /\ k \in Nat /\ r \in 0 .. ByteBits - 1 /\ i - 1 = ByteBits * k + r
  <2>1. Width \in Nat
    BY <1>2, SMT DEF Width
  <2>2. i - 1 \in Nat /\ i - 1 < Width
    BY <2>1
  <2>3. QED
    BY <1>2, <2>2, Quotient DEF Width
<1> HIDE DEF k, r, v
<1>4. k < DigestBytes
  <2>1. CASE DigestBytes <= k
    <3>1. ByteBits * DigestBytes <= ByteBits * k
      BY <1>2, <1>3, <2>1, MulMono
    <3>2. ByteBits * DigestBytes \in Nat /\ ByteBits * k \in Nat
      BY <1>2, <1>3, SMT
    <3>3. QED
      BY <1>3, <3>1, <3>2
  <2>2. QED
    BY <1>2, <1>3, <2>1
<1>5. j \in 0 .. DigestBytes /\ DigestBytes - j = k + 1 /\ k \in 0 .. DigestBytes - 1
      /\ s \in Nat /\ s + (r + 1) = ByteBits
  BY <1>2, <1>3, <1>4
<1>6. Width - i = ByteBits * j + s
  <2>1. ByteBits * j = ByteBits * DigestBytes - ByteBits * k - ByteBits
    BY <1>2, <1>3, SMT
  <2>2. ByteBits * DigestBytes \in Nat /\ ByteBits * k \in Nat
    BY <1>2, <1>3, SMT
  <2>3. QED
    BY <1>2, <1>3, <2>1, <2>2 DEF Width
<1> HIDE DEF s, j
<1>7. v \div 2^(ByteBits * j) = f[k + 1]
  BY <1>1, <1>5, DropBytes DEF v
<1>8. ByteBits * j \in Nat /\ 2^(ByteBits * j) \in Nat \ {0} /\ 2^s \in Nat \ {0}
  <2>1. ByteBits * j \in Nat
    BY <1>2, <1>5, SMT
  <2>2. QED
    BY <1>5, <2>1, PowerPositive
<1>9. Top(digest, i) = f[k + 1] \div 2^s
  <2>1. 2^(Width - i) = 2^(ByteBits * j) * 2^s
    BY <1>5, <1>6, <1>8, PowerOfSum
  <2>2. (v \div 2^(ByteBits * j)) \div 2^s = v \div (2^(ByteBits * j) * 2^s)
    BY <1>2, <1>8, QuotientOfQuotient
  <2>3. QED
    BY <1>7, <2>1, <2>2 DEF Top, v
<1>10. y \in Nat /\ f[k] \in Nat /\ f[k + 1] = 2^ByteBits * f[k] + y
  <2>1. 1 + k \in 1 .. DigestBytes /\ 1 + k = k + 1
    BY <1>2, <1>5
  <2>2. y \in Nat
    BY <2>1, PowerPositive DEF Digests
  <2>3. k \in 0 .. DigestBytes
    BY <1>2, <1>5
  <2>4. QED
    BY <1>1, <1>5, <2>1, <2>2, <2>3
<1> HIDE DEF y
<1>11. PICK c \in Nat : 2^ByteBits * f[k] = 2^s * (2 * c)
  <2>1. 2^ByteBits = 2^s * (2 * 2^r)
    <3>1. r \in Nat /\ r + 1 \in Nat
      BY <1>2, <1>3
    <3>2. 2^(s + (r + 1)) = 2^s * 2^(r + 1) /\ 2^(r + 1) = 2 * 2^r
      BY <1>5, <3>1, PowerOfSum, Doubles
    <3>3. QED
      BY <1>5, <3>2
  <2>2. 2^r \in Nat
    BY <1>2, <1>3, PowerPositive
  <2>3. (2^s * (2 * 2^r)) * f[k] = 2^s * (2 * (2^r * f[k])) /\ 2^r * f[k] \in Nat
    BY <1>8, <1>10, <2>2, SMT
  <2>4. QED
    BY <2>1, <2>3
<1>12. f[k + 1] \div 2^s = 2 * c + (y \div 2^s)
  <2>1. 2 * c \in Nat
    OBVIOUS
  <2>2. (2^s * (2 * c) + y) \div 2^s = 2 * c + (y \div 2^s)
    BY <1>8, <1>10, <2>1, QuotientOfSum
  <2>3. QED
    BY <1>10, <1>11, <2>2
<1>13. (2 * c + (y \div 2^s)) % 2 = (y \div 2^s) % 2
  <2> DEFINE q == y \div 2^s
  <2>1. q \in Nat
    BY <1>8, <1>10, Quotient
  <2> HIDE DEF q
  <2>2. (2 * c + q) % 2 = q % 2
    BY <2>1
  <2>3. QED
    BY <2>2 DEF q
<1>14. Bit(digest, i) = (y \div 2^s) % 2
  BY DEF Bit, y, s, k, r
<1>15. QED
  BY <1>9, <1>12, <1>13, <1>14

-----------------------------------------------------------------------------
(* Bits, shifts and the bit length say the same. *)

LEMMA DigestNumber ==
    ASSUME NEW digest \in Digests
    PROVE  Width \in Nat /\ from_bytes(digest) \in Nat /\ from_bytes(digest) < 2^Width
<1>1. PICK f : /\ f[0] = 0 /\ f[DigestBytes] = from_bytes(digest)
               /\ \A k \in 0 .. DigestBytes : f[k] \in Nat
               /\ \A k \in 0 .. DigestBytes - 1 :
                     f[k + 1] = 2^ByteBits * f[k] + digest[k + 1]
  BY PrefixValues
<1>2. /\ DigestBytes \in 0 .. DigestBytes /\ DigestBytes - DigestBytes = 0
      /\ ByteBits \in Nat /\ DigestBytes \in Nat
  BY DigestAssumption
<1>3. Width \in Nat
  BY <1>2, SMT DEF Width
<1>4. from_bytes(digest) \in Nat
  BY <1>1, <1>2
<1>5. from_bytes(digest) \div 2^Width = 0
  BY <1>1, <1>2, DropBytes DEF Width
<1>6. QED
  BY <1>3, <1>4, <1>5, PowerPositive, Quotient

\* The first d bits are zero if and only if nothing of them is left.
LEMMA ZeroBits ==
    ASSUME NEW digest \in Digests, NEW d \in 0 .. Width
    PROVE  (\A i \in 1 .. d : Bit(digest, i) = 0) <=> Top(digest, d) = 0
<1> DEFINE Zero(n) == \A i \in 1 .. n : Bit(digest, i) = 0
           T == {n \in Nat : n <= Width => (Zero(n) <=> Top(digest, n) = 0)}
<1>1. Width \in Nat /\ from_bytes(digest) \in Nat /\ from_bytes(digest) < 2^Width
  BY DigestNumber
<1>2. 0 \in T
  <2>1. Top(digest, 0) = 0
    <3>1. 2^Width \in Nat \ {0} /\ Width - 0 = Width
      BY <1>1, PowerPositive
    <3>2. QED
      BY <1>1, <3>1, Quotient DEF Top
  <2>2. Zero(0)
    OBVIOUS
  <2>3. QED
    BY <2>1, <2>2
<1>3. ASSUME NEW n \in T PROVE n + 1 \in T
  <2> SUFFICES ASSUME n + 1 <= Width PROVE Zero(n + 1) <=> Top(digest, n + 1) = 0
    BY <1>3
  <2>1. n \in Nat /\ (Zero(n) <=> Top(digest, n) = 0) /\ n + 1 \in 1 .. Width
    BY <1>1, <1>3
  <2>2. Zero(n + 1) <=> Zero(n) /\ Bit(digest, n + 1) = 0
    BY <2>1
  <2>3. Bit(digest, n + 1) = Top(digest, n + 1) % 2
    BY <2>1, BitOfTop
  <2>4. Top(digest, n + 1) \in Nat /\ Top(digest, n) = Top(digest, n + 1) \div 2
    <3> DEFINE m == Width - (n + 1)
               v == from_bytes(digest)
    <3>1. m \in Nat /\ Width - n = m + 1
      BY <1>1, <2>1
    <3> HIDE DEF m, v
    <3>2. v \in Nat /\ 2^m \in Nat \ {0} /\ 2^(m + 1) = 2 * 2^m
      BY <1>1, <3>1, PowerPositive, Doubles DEF v
    <3>3. 2 * 2^m = 2^m * 2
      BY <3>2
    <3>4. (v \div 2^m) \div 2 = v \div (2^m * 2) /\ v \div 2^m \in Nat
      <4>1. 2 \in Nat \ {0}
        OBVIOUS
      <4>2. QED
        BY <3>2, <4>1, QuotientOfQuotient, Quotient, Zenon
    <3>5. QED
      BY <3>1, <3>2, <3>3, <3>4 DEF Top, m, v
  <2> HIDE DEF Zero
  <2>5. QED
    BY <2>1, <2>2, <2>3, <2>4
<1>4. T = Nat
  <2> HIDE DEF T
  <2>1. T \in SUBSET Nat
    BY DEF T
  <2>2. QED
    BY <1>2, <1>3, <2>1, SimpleInduction
<1>5. d \in T /\ d <= Width
  BY <1>1, <1>4
<1> HIDE DEF Zero
<1>6. Zero(d) <=> Top(digest, d) = 0
  BY <1>5
<1>7. QED
  BY <1>6 DEF Zero

\* The bit length of v is the least n with v < 2^n.
LEMMA BitLength ==
    ASSUME NEW v \in Nat, Width \in Nat, v < 2^Width
    PROVE  /\ bit_length(v) \in 0 .. Width
           /\ \A m \in 0 .. Width : v < 2^m <=> bit_length(v) <= m
<1> DEFINE Fits == {n \in Nat : v < 2^n}
<1>1. Fits \in SUBSET Nat /\ Width \in Fits
  OBVIOUS
<1>2. PICK n \in Fits : \A m \in Fits : n <= m
  <2> HIDE DEF Fits
  <2>1. Fits # {}
    BY <1>1
  <2>2. QED
    BY <1>1, <2>1, LeastNumber
<1>3. n \in 0 .. Width /\ v < 2^n /\ \A m \in 0 .. n - 1 : 2^m <= v
  <2>1. n \in Nat /\ n <= Width /\ v < 2^n
    BY <1>1, <1>2
  <2>2. ASSUME NEW m \in 0 .. n - 1 PROVE 2^m <= v
    <3>1. m \in Nat /\ m \notin Fits
      BY <1>2, <2>1
    <3>2. 2^m \in Nat
      BY <3>1, PowerPositive
    <3>3. QED
      BY <3>1, <3>2
  <2>3. QED
    BY <2>1, <2>2
<1> DEFINE b == bit_length(v)
<1>4. b \in 0 .. Width /\ v < 2^b /\ \A m \in 0 .. b - 1 : 2^m <= v
  BY <1>3 DEF bit_length
<1> HIDE DEF b
<1>5. ASSUME NEW m \in 0 .. Width PROVE v < 2^m <=> b <= m
  <2>1. b \in Nat /\ m \in Nat /\ 2^b \in Nat /\ 2^m \in Nat
    BY <1>4, PowerPositive
  <2>2. CASE b <= m
    BY <1>4, <2>1, <2>2, PowerGrows
  <2>3. CASE ~(b <= m)
    <3>1. m \in 0 .. b - 1
      BY <2>1, <2>3
    <3>2. 2^m <= v
      BY <1>4, <3>1
    <3>3. QED
      BY <2>1, <2>3, <3>2
  <2>4. QED
    BY <2>2, <2>3
<1>6. QED
  BY <1>4, <1>5 DEF b

\* Server and printed solver accept the digests that begin with the difficulty's
\* number of zero bits, and no others, at every difficulty.
THEOREM SolverAndServerAgree ==
    ASSUME NEW difficulty \in Nat
    PROVE  Agrees(difficulty)
<1> SUFFICES ASSUME NEW digest \in Digests
             PROVE  LET meant == /\ difficulty <= Width
                                 /\ \A i \in 1 .. difficulty : Bit(digest, i) = 0
                    IN  /\ verify_digest(difficulty, digest) <=> meant
                        /\ solver_accepts(difficulty, digest) <=> meant
  BY DEF Agrees
<1> DEFINE v == from_bytes(digest)
           meant == difficulty <= Width /\ \A i \in 1 .. difficulty : Bit(digest, i) = 0
<1>1. Width \in Nat /\ v \in Nat /\ v < 2^Width
  BY DigestNumber
<1>2. /\ bit_length(v) \in 0 .. Width
      /\ \A m \in 0 .. Width : v < 2^m <=> bit_length(v) <= m
  BY <1>1, BitLength
<1> HIDE DEF v, meant
<1>3. CASE difficulty <= Width
  <2> DEFINE m == Width - difficulty
  <2>1. m \in 0 .. Width /\ m \in Nat /\ difficulty \in 0 .. Width
    BY <1>1, <1>3
  <2>2. 2^m \in Nat \ {0}
    BY <2>1, PowerPositive
  <2>3. meant <=> v < 2^m
    <3>1. meant <=> Top(digest, difficulty) = 0
      BY <1>3, <2>1, ZeroBits DEF meant
    <3>2. Top(digest, difficulty) = v \div 2^m
      BY DEF Top, v
    <3> HIDE DEF m
    <3>3. v \div 2^m = 0 <=> v < 2^m
      BY <1>1, <2>2, Quotient
    <3>4. QED
      BY <3>1, <3>2, <3>3
  <2>4. solver_accepts(difficulty, digest) <=> v < 2^m
    <3>1. solver_accepts(difficulty, digest) <=> v \div 2^m = 0
      BY <1>3 DEF solver_accepts, v
    <3> HIDE DEF m
    <3>2. v \div 2^m = 0 <=> v < 2^m
      BY <1>1, <2>2, Quotient
    <3>3. QED
      BY <3>1, <3>2
  <2>5. verify_digest(difficulty, digest) <=> v < 2^m
    <3>1. v < 2^m <=> bit_length(v) <= m
      BY <1>2, <2>1
    <3>2. v = 0 => v < 2^m
      BY <2>2
    <3>3. leading_zero_bits(digest) = IF v # 0 THEN Width - bit_length(v) ELSE Width
      BY DEF leading_zero_bits, v
    <3>4. v < 2^m <=> leading_zero_bits(digest) >= difficulty
      BY <1>1, <1>2, <2>1, <3>1, <3>2, <3>3
    <3>5. difficulty <= 0 => v < 2^m
      BY <1>1, <2>1
    <3>6. QED
      BY <3>4, <3>5 DEF verify_digest
  <2>6. QED
    BY <2>3, <2>4, <2>5 DEF meant
<1>4. CASE ~(difficulty <= Width)
  <2>1. ~(difficulty <= 0) /\ ~(leading_zero_bits(digest) >= difficulty)
    BY <1>1, <1>2, <1>4 DEF leading_zero_bits, v
  <2>2. QED
    BY <1>4, <2>1 DEF verify_digest, solver_accepts
<1>5. QED
  BY <1>3, <1>4

\* Server and printed solver agree, at every difficulty and for digests of any
\* width (pow.py:20-24, 44).
THEOREM PowAlwaysAgrees == Spec => []PowAgrees
<1>1. NcTypeOK => PowAgrees
  <2>1. Difficulties \subseteq Nat
    <3>1. Width \in Nat
      BY DigestAssumption, SMT DEF Width
    <3>2. QED
      BY <3>1 DEF Difficulties
  <2>2. QED
    BY <2>1, SolverAndServerAgree DEF PowAgrees
<1>2. QED
  BY <1>1, NcTypeCorrect, PTL
=============================================================================
