----------------------------- MODULE SolveCheck -----------------------------
(***************************************************************************)
(* The flag: get_flag of orchestrator/app/instances.py, check_solved of    *)
(* challenge.py and the two reads of sui_rpc.py.                           *)
(*                                                                         *)
(* A call reads the row, asks the instance's node once, and answers when   *)
(* the loop resumes it.  The chain of an instance is external: of it the   *)
(* model keeps what the manifest's solve section reads, a field of the     *)
(* challenge object or the events of one type, oldest first, each by its   *)
(* sender.                                                                 *)
(***************************************************************************)
EXTENDS Lifecycle, Coercion

CONSTANTS
    Calls,              \* the get_flag calls there may be at a time
    PageSize,           \* the 50 of suix_queryEvents
    FieldValues,        \* bound: what the field may be
    StartValue,         \* what the deploy steps leave in it
    Ops,                \* bound: the operators of the manifests tried
    MaxEvents           \* bound: events of the type per instance

ASSUME PageAssumption == PageSize \in Nat \ {0}
ASSUME FieldAssumption == FieldValues \subseteq Nat /\ StartValue \in FieldValues
ASSUME EventsAssumption == MaxEvents \in Nat
ASSUME OpsAssumption == Ops \subseteq {"eq", "ne", "lt", "lte", "gt", "gte"}

Senders == {"player", "other"}

-----------------------------------------------------------------------------
(* The manifest, the chains, the calls. *)

Manifests ==
    [type : {"state"}, op : Ops,
     value : UNION {Written([type |-> "u64", is |-> n]) : n \in FieldValues}]
        \union [type : {"event"}, sender : {"player", "any"}]

\* The object was deleted, or is inside another one.
Gone == -1

VARIABLES
    solve,              \* the manifest's solve section
    field,              \* field[u]: the u64 field of the object, or Gone
    events,             \* events[u]: the senders of the events of the type
    call,               \* call[f]: "none", "asking" the node, or what it answered
    about               \* about[f]: the uuid

chains == <<field, events>>
callVars == <<call, about>>
checkVars == <<solve, chains, callVars>>

CheckTypeOK ==
    /\ solve \in Manifests
    /\ field \in [Uuids -> FieldValues \union {Gone}]
    /\ \A u \in Uuids :
          Len(events[u]) <= MaxEvents /\ ToSet(events[u]) \subseteq Senders
    /\ call \in [Calls -> {"none", "asking", "solved", "unsolved"}]
    /\ about \in [Calls -> Uuids \union {NoUuid}]

CheckInit ==
    /\ solve \in Manifests
    /\ field = [u \in Uuids |-> StartValue]
    /\ events = [u \in Uuids |-> <<>>]
    /\ call = [f \in Calls |-> "none"]
    /\ about = [f \in Calls |-> NoUuid]

\* What a request may do to the chain of u, external: nothing, or a transaction.
Transacts(u) ==
    \/ UNCHANGED chains
    \/ /\ solve.type = "state"
       /\ \E v \in FieldValues \union {Gone} : field' = [field EXCEPT ![u] = v]
       /\ UNCHANGED events
    \/ /\ solve.type = "event" /\ Len(events[u]) < MaxEvents
       /\ \E s \in Senders : events' = [events EXCEPT ![u] = Append(@, s)]
       /\ UNCHANGED field

-----------------------------------------------------------------------------
(* check_solved *)

\* _check_state: an object without content has no field and is not solved.
check_state(u) ==
    /\ field[u] # Gone
    /\ Compare(solve.op, FromMove([type |-> "u64", is |-> field[u]]), solve.value)

\* Mutant of Page: ascending order, the oldest events.
OldestPage(u) ==
    SubSeq(events[u], 1, IF Len(events[u]) > PageSize THEN PageSize ELSE Len(events[u]))

\* The newest events of the type, whoever sent them.
Page(u) ==
    LET n == Len(events[u])
    IN  SubSeq(events[u], IF n > PageSize THEN n - PageSize + 1 ELSE 1, n)

query_event_exists(u, sender) ==
    IF sender = "any" THEN Page(u) # <<>> ELSE sender \in ToSet(Page(u))

check_solved(u) ==
    IF solve.type = "state" THEN check_state(u) ELSE query_event_exists(u, solve.sender)

-----------------------------------------------------------------------------
(* get_flag *)

SetCall(f, pc, u) ==
    /\ call' = [call EXCEPT ![f] = pc]
    /\ about' = [about EXCEPT ![f] = u]
    /\ UNCHANGED <<solve, chains>>

\* Mutant of FlagBegin: the status is not looked at.
FlagBeginAnyRow(f, u) ==
    /\ call[f] = "none"
    /\ row[u] # "absent"
    /\ SetCall(f, "asking", u)

\* Of a row that is absent or not running get_flag says so at once.
FlagBegin(f, u) ==
    /\ call[f] = "none"
    /\ row[u] = "running"
    /\ SetCall(f, "asking", u)

\* The node reads its chain.
NodeAnswers(f) ==
    /\ call[f] = "asking"
    /\ about[f] \in rpc
    /\ SetCall(f, IF check_solved(about[f]) THEN "solved" ELSE "unsolved", about[f])

\* The loop resumes the call: the flag or `Not solved yet'; or, when the
\* answer was lost or late, `Could not evaluate'.
FlagEnd(f) == call[f] # "none" /\ SetCall(f, "none", NoUuid)

CallsLost ==
    /\ call' = [f \in Calls |-> "none"]
    /\ about' = [f \in Calls |-> NoUuid]
    /\ UNCHANGED <<solve, chains>>

-----------------------------------------------------------------------------
\* What the manifest's author means: numbers by their values, the winning
\* event by its sender, whenever it was emitted.
Won(u) ==
    IF solve.type = "state"
    THEN /\ field[u] # Gone
         /\ \E n \in FieldValues :
               /\ solve.value \in Written([type |-> "u64", is |-> n])
               /\ Holds(solve.op, field[u] = n, field[u] < n)
    ELSE events[u] # <<>> /\ (solve.sender = "player" => "player" \in ToSet(events[u]))

\* The comparisons of any manifest, with fields of other types than u64 too.
EveryComparisonExact ==
    /\ \A type \in {"u64", "u32"}, op \in {"eq", "ne", "lt", "lte", "gt", "gte"} :
          \A x, n \in FieldValues : \A v \in Written([type |-> type, is |-> n]) :
              Exact(type, op, x, v, n)
    /\ \A type \in {"bool", "address"}, op \in {"eq", "ne"} :
          \A x, n \in {0, 1} : \A v \in Written([type |-> type, is |-> n]) :
              Exact(type, op, x, v, n)

\* Whatever the field holds, it compares with the value of the manifest in
\* force as the number it stands for, although one is a string and the other
\* may not be; and at the start, whatever the manifest might have said
\* (challenge.py:76-82).
CoercionExact ==
    /\ solve.type = "state" =>
          \A x, n \in FieldValues :
              solve.value \in Written([type |-> "u64", is |-> n]) =>
                  Exact("u64", solve.op, x, solve.value, n)
    /\ (\A u \in Uuids : row[u] = "absent") => EveryComparisonExact

\* A flag is given only for a win that stood on the instance's chain while it
\* was running, although the row is read before the node is asked and may
\* have ended, or the process restarted, since (README.md:112 `released only
\* by the backend after the solve-check').
FlagEarned ==
    [][\A f \in Calls :
          call[f] # "solved" /\ call'[f] = "solved" =>
             row[about[f]] = "running" /\ Won(about[f])]_<<callVars, chains>>

\* And a player who has won, and whose node answers, is told so: in a state that
\* wins, or by an event that fewer than PageSize later ones follow, whoever
\* emitted those.
WinRecognised ==
    [][\A f \in Calls :
          call[f] # "unsolved" /\ call'[f] = "unsolved" =>
             \/ ~Won(about[f])
             \/ /\ solve.type = "event"
                /\ \A i \in DOMAIN events[about[f]] :
                      events[about[f]][i] = "player" => i + PageSize <= Len(events[about[f]])
          ]_<<callVars, chains>>

\* sui_rpc.py:54: `True if at least one event of event_type (optionally from
\* sender) has been emitted on this instance'.
EventFound ==
    [][\A f \in Calls :
          call[f] # "unsolved" /\ call'[f] = "unsolved" =>
             ~(solve.type = "event" /\ Won(about[f]))]_<<callVars, chains>>
=============================================================================
