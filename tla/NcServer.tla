------------------------------ MODULE NcServer ------------------------------
(***************************************************************************)
(* The nc menu, orchestrator/app/ncserver.py, with the proof of work of    *)
(* orchestrator/app/pow.py: a handler coroutine per connection, the two    *)
(* connection counters they share, and the heartbeat task of a spawn.      *)
(*                                                                         *)
(* What lies between two awaits is one action.  A line the player sends    *)
(* waits in the reader's buffer until some prompt reads it, whichever      *)
(* prompt that is by then: a solution or a uuid that comes after its       *)
(* timeout is read as a menu choice.  A read times out only when nothing   *)
(* is buffered; the end of the stream reads the same, only sooner.         *)
(*                                                                         *)
(* Of the instance manager the handler sees that a call returns or raises; *)
(* what it does meanwhile is InstanceManager.  A connection refused at a   *)
(* cap changes nothing and is no step.                                     *)
(***************************************************************************)
EXTENDS Pow, FiniteSets

CONSTANTS
    Conns,              \* the connections there may be at a time
    IPs,                \* addresses, "unknown" where there is no peername
    NoIp,
    MaxConn,            \* _MAX_CONN
    MaxConnPerIp,       \* _MAX_CONN_PER_IP
    MaxBuffered,        \* bound: lines a player sends ahead of the prompts
    MaxAttempts         \* bound: lines "1" the players send in a behaviour

ASSUME ConnsAssumption == IsFiniteSet(Conns)
ASSUME NcNoIpAssumption == NoIp \notin IPs
ASSUME NcCapsAssumption == MaxConn \in Nat \ {0} /\ MaxConnPerIp \in Nat \ {0}
ASSUME NcBoundsAssumption == MaxBuffered \in Nat /\ MaxAttempts \in Nat

VARIABLES
    pow_required,       \* whether the process was configured with a gate:
                        \* pow_difficulty_bits > 0
    session,            \* session[c]: where the handler of c is
    peer,               \* peer[c]: the address it was accepted from
    active,             \* _active
    per_ip,             \* _per_ip; an address without entry counts 0
    challenge,          \* challenge[c]: the last challenge issued on c, 0 for none
    heartbeat,          \* the connections whose heartbeat task runs
    buffered,           \* buffered[c]: the lines sent and not yet read
    quiet,              \* quiet[c]: the player sends nothing more, or has left
    issued,             \* challenges 1 .. issued have been made
    spent,              \* history: those whose solution was accepted
    attempts            \* lines "1" sent

counters == <<active, per_ip>>
pow == <<pow_required, challenge, issued, spent>>
player == <<buffered, quiet, attempts>>
vars == <<session, peer, counters, heartbeat, pow, player>>

Prompts == {"menu", "pow", "kill", "flag"}
Calls == {"spawning", "killing", "checking"}
Choices == {"1", "2", "3", "q", "other"}

Open(c) == session[c] # "closed"
Connections == {c \in Conns : Open(c)}
ConnectionsFrom(ip) == {c \in Connections : peer[c] = ip}

Lines == [choice : Choices, solves : Nat]

\* A line solves one issued challenge or none: a challenge is random and cannot
\* be solved before it is made, but its solution may be sent on any connection.
Sendable == [choice : Choices, solves : {0}]
              \union [choice : {"other"}, solves : 1 .. issued]

Init ==
    /\ pow_required \in BOOLEAN
    /\ session = [c \in Conns |-> "closed"]
    /\ peer = [c \in Conns |-> NoIp]
    /\ active = 0
    /\ per_ip = [ip \in IPs |-> 0]
    /\ challenge = [c \in Conns |-> 0]
    /\ heartbeat = {}
    /\ buffered = [c \in Conns |-> <<>>]
    /\ quiet = [c \in Conns |-> FALSE]
    /\ issued = 0
    /\ spent = {}
    /\ attempts = 0

-----------------------------------------------------------------------------
(* Players. *)

PlayerSends(c, line) ==
    /\ Open(c) /\ ~quiet[c]
    /\ Len(buffered[c]) < MaxBuffered
    /\ line.choice = "1" => attempts < MaxAttempts
    /\ buffered' = [buffered EXCEPT ![c] = Append(@, line)]
    /\ attempts' = IF line.choice = "1" THEN attempts + 1 ELSE attempts
    /\ UNCHANGED <<session, peer, counters, heartbeat, pow, quiet>>

PlayerLeaves(c) ==
    /\ Open(c) /\ ~quiet[c]
    /\ quiet' = [quiet EXCEPT ![c] = TRUE]
    /\ UNCHANGED <<session, peer, counters, heartbeat, pow, buffered, attempts>>

-----------------------------------------------------------------------------
(* The connection. *)

\* Mutant of HasCapacity: one connection too many.
HasCapacityForOneMore(ip) == active <= MaxConn /\ per_ip[ip] <= MaxConnPerIp

HasCapacity(ip) == active < MaxConn /\ per_ip[ip] < MaxConnPerIp

Accept(c, ip) ==
    /\ ~Open(c)
    /\ HasCapacity(ip)
    /\ active' = active + 1
    /\ per_ip' = [per_ip EXCEPT ![ip] = @ + 1]
    /\ peer' = [peer EXCEPT ![c] = ip]
    /\ session' = [session EXCEPT ![c] = "menu"]
    /\ UNCHANGED <<heartbeat, pow, player>>

goto(c, position) == session' = [session EXCEPT ![c] = position]

\* Mutant of Breaks: the counters are given back only after an orderly goodbye.
BreaksAtOnce(c) ==
    /\ session[c] \in Prompts \union {"killing", "checking"}
    /\ goto(c, "closed")
    /\ peer' = [peer EXCEPT ![c] = NoIp]
    /\ challenge' = [challenge EXCEPT ![c] = 0]
    /\ buffered' = [buffered EXCEPT ![c] = <<>>]
    /\ quiet' = [quiet EXCEPT ![c] = FALSE]
    /\ UNCHANGED <<counters, heartbeat, pow_required, issued, spent, attempts>>

\* A send meets a reset connection, a read a line beyond the stream's limit, or
\* a call of the manager other than spawn raises: the loop ends.
Breaks(c) ==
    /\ session[c] \in Prompts \union {"killing", "checking"}
    /\ goto(c, "closing")
    /\ UNCHANGED <<peer, counters, heartbeat, pow, player>>

\* The finally block, once the writer is closed.
Close(c) ==
    /\ session[c] = "closing"
    /\ goto(c, "closed")
    /\ active' = active - 1
    /\ per_ip' = [per_ip EXCEPT ![peer[c]] = @ - 1]
    /\ peer' = [peer EXCEPT ![c] = NoIp]
    /\ challenge' = [challenge EXCEPT ![c] = 0]
    /\ buffered' = [buffered EXCEPT ![c] = <<>>]
    /\ quiet' = [quiet EXCEPT ![c] = FALSE]
    /\ UNCHANGED <<heartbeat, pow_required, issued, spent, attempts>>

-----------------------------------------------------------------------------
(* Reading a line, or nothing. *)

line_read(c) == Head(buffered[c])

reads(c) ==
    /\ buffered[c] # <<>>
    /\ buffered' = [buffered EXCEPT ![c] = Tail(@)]
    /\ UNCHANGED <<quiet, attempts>>

times_out(c) == buffered[c] = <<>> /\ UNCHANGED player

chooses(c, choice) == session[c] = "menu" /\ reads(c) /\ line_read(c).choice = choice

start_heartbeat(c) == heartbeat' = heartbeat \union {c}
cancel_heartbeat(c) == heartbeat' = heartbeat \ {c}

-----------------------------------------------------------------------------
(* The menu. *)

\* Mutant of new_challenge: a connection keeps its first challenge.
keep_challenge(c) ==
    /\ issued' = IF challenge[c] = 0 THEN issued + 1 ELSE issued
    /\ challenge' = [challenge EXCEPT ![c] = IF @ = 0 THEN issued' ELSE @]
    /\ UNCHANGED <<pow_required, spent>>

new_challenge(c) ==
    /\ issued' = issued + 1
    /\ challenge' = [challenge EXCEPT ![c] = issued']
    /\ UNCHANGED <<pow_required, spent>>

ChooseSpawn(c) ==
    /\ chooses(c, "1")
    /\ \/ pow_required /\ new_challenge(c) /\ goto(c, "pow") /\ UNCHANGED heartbeat
       \/ ~pow_required /\ start_heartbeat(c) /\ goto(c, "spawning") /\ UNCHANGED pow
    /\ UNCHANGED <<peer, counters>>

ChooseOther(c) ==
    /\ \/ chooses(c, "2") /\ goto(c, "kill")
       \/ chooses(c, "3") /\ goto(c, "flag")
       \/ chooses(c, "q") /\ goto(c, "closing")
       \/ chooses(c, "other") /\ UNCHANGED session
    /\ UNCHANGED <<peer, counters, heartbeat, pow>>

\* Mutant of MenuSilence: a timeout shows the menu again.
MenuAgain(c) ==
    /\ session[c] = "menu" /\ times_out(c)
    /\ UNCHANGED <<session, peer, counters, heartbeat, pow>>

MenuSilence(c) ==
    /\ session[c] = "menu" /\ times_out(c)
    /\ goto(c, "closing")
    /\ UNCHANGED <<peer, counters, heartbeat, pow>>

-----------------------------------------------------------------------------
(* Spawn. *)

verify(c) == line_read(c).solves = challenge[c]

\* The sends before the spawn may meet a reset connection: the work is done and
\* the challenge gone, but nothing is spawned.
PowAccepted(c) ==
    /\ session[c] = "pow" /\ reads(c) /\ verify(c)
    /\ spent' = spent \union {challenge[c]}
    /\ \/ goto(c, "spawning") /\ start_heartbeat(c)
       \/ goto(c, "closing") /\ UNCHANGED heartbeat
    /\ UNCHANGED <<peer, counters, pow_required, challenge, issued>>

PowFailed(c) ==
    /\ session[c] = "pow"
    /\ (reads(c) /\ ~verify(c)) \/ times_out(c)
    /\ goto(c, "menu")
    /\ UNCHANGED <<peer, counters, heartbeat, pow>>

\* A write of the heartbeat meets a reset connection; the spawn goes on.
HeartbeatBreaks(c) ==
    /\ c \in heartbeat
    /\ cancel_heartbeat(c)
    /\ UNCHANGED <<session, peer, counters, pow, player>>

\* manager.spawn has returned; the send of the instance may fail.
SpawnReturns(c) ==
    /\ session[c] = "spawning"
    /\ cancel_heartbeat(c)
    /\ goto(c, "menu") \/ goto(c, "closing")
    /\ UNCHANGED <<peer, counters, pow, player>>

\* Mutant of SpawnRaises: only a spawn that succeeds cancels the heartbeat.
RaiseKeepsHeartbeat(c) ==
    /\ session[c] = "spawning"
    /\ goto(c, "menu") \/ goto(c, "closing")
    /\ UNCHANGED <<peer, counters, heartbeat, pow, player>>

\* manager.spawn has raised, SpawnError or another exception.
SpawnRaises(c) ==
    /\ session[c] = "spawning"
    /\ cancel_heartbeat(c)
    /\ goto(c, "menu") \/ goto(c, "closing")
    /\ UNCHANGED <<peer, counters, pow, player>>

-----------------------------------------------------------------------------
(* Kill and flag. *)

\* Any line is taken for a uuid.
ReadUuid(c) ==
    /\ reads(c)
    /\ \/ session[c] = "kill" /\ goto(c, "killing")
       \/ session[c] = "flag" /\ goto(c, "checking")
    /\ UNCHANGED <<peer, counters, heartbeat, pow>>

UuidSilence(c) ==
    /\ session[c] \in {"kill", "flag"} /\ times_out(c)
    /\ goto(c, "menu")
    /\ UNCHANGED <<peer, counters, heartbeat, pow>>

CallReturns(c) ==
    /\ session[c] \in {"killing", "checking"}
    /\ goto(c, "menu")
    /\ UNCHANGED <<peer, counters, heartbeat, pow, player>>

-----------------------------------------------------------------------------
HandlerStep(c) ==
    \/ ChooseSpawn(c) \/ ChooseOther(c) \/ MenuSilence(c)
    \/ PowAccepted(c) \/ PowFailed(c)
    \/ SpawnReturns(c) \/ SpawnRaises(c)
    \/ ReadUuid(c) \/ UuidSilence(c) \/ CallReturns(c)
    \/ Close(c)

ConnStep(c) ==
    \/ \E line \in Sendable : PlayerSends(c, line)
    \/ PlayerLeaves(c)
    \/ \E ip \in IPs : Accept(c, ip)
    \/ Breaks(c)
    \/ HeartbeatBreaks(c)
    \/ HandlerStep(c)

Next == \E c \in Conns : ConnStep(c)

Spec == Init /\ [][Next]_vars

\* Reads time out, calls of the manager end (Orchestrator, SpawnResolves, for
\* the longest of them) and so do sends.  Players and connections owe nothing.
FairSpec == Spec /\ \A c \in Conns : WF_vars(HandlerStep(c))

-----------------------------------------------------------------------------
(* Properties. *)

\* Types; the counters stay within _MAX_CONN and _MAX_CONN_PER_IP.
NcTypeOK ==
    /\ pow_required \in BOOLEAN
    /\ session \in [Conns -> {"closed", "closing"} \union Prompts \union Calls]
    /\ peer \in [Conns -> IPs \union {NoIp}]
    /\ active \in 0 .. MaxConn
    /\ per_ip \in [IPs -> 0 .. MaxConnPerIp]
    /\ challenge \in [Conns -> 0 .. issued]
    /\ heartbeat \subseteq Conns
    /\ buffered \in [Conns -> Seq(Lines)]
    /\ quiet \in [Conns -> BOOLEAN]
    /\ issued \in Nat
    /\ spent \subseteq 1 .. issued
    /\ attempts \in 0 .. MaxAttempts

\* The counters are the connections that are open, in all and per address,
\* whichever way each handler ends: every slot is given back exactly once, so
\* that no address is locked out for good and no cap is passed.
CountersTrue ==
    /\ active = Cardinality(Connections)
    /\ \A ip \in IPs : per_ip[ip] = Cardinality(ConnectionsFrom(ip))

\* Spawning is gated by a proof of work (ncserver.py:9): the manager's spawn is
\* called only after a line that solves a challenge which has bought no spawn
\* before, on this connection or another, however late lines are read.
EverySpawnPaid ==
    [][\A c \in Conns :
          pow_required /\ session[c] # "spawning" /\ session'[c] = "spawning" =>
             \E n \in (1 .. issued) \ spent :
                line_read(c).solves = n /\ spent' = spent \union {n}]_vars

\* No heartbeat outlives its spawn: no dots into a later prompt, no task left
\* behind by the way the spawn ended.
HeartbeatStops == \A c \in heartbeat : session[c] = "spawning"

\* The POW_DIFFICULTY_BITS with which there is a gate, or is none.
Difficulties == IF pow_required THEN 1 .. Width + 1 ELSE {0}

\* With or without a gate, server and printed solver accept the same digests at
\* every difficulty up to the digest's width, zero and byte boundaries included;
\* beyond the width none is accepted (pow.py:7 and the all-zero digest at
\* pow.py:22).  It depends on the state through pow_required alone, and is
\* looked at before the first player has come.
PowAgrees ==
    issued = 0 /\ attempts = 0 /\ Connections = {} =>
        \A difficulty \in Difficulties : Agrees(difficulty)

\* A player who says nothing more, or leaves, is disconnected (config.py:73,
\* `idle disconnect') and gives back the slots, from every prompt and call and
\* whatever was still buffered.
QuietSessionEnds == \A c \in Conns : quiet[c] ~> ~Open(c)
=============================================================================
