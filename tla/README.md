# sui-ctf-infrastructure: a TLA+ model of the orchestrator

The program gives every player of a Sui CTF a throwaway chain: a menu over `nc`
starts a Docker container per player, waits until its entrypoint has deployed the
challenge, hands out a uuid and keys, and destroys it on request, on failure or when
its TTL is over. What is hard is that three kinds of tasks (spawns, kills and the
reaper) write the same registry rows and remove the same containers, each deciding on
what it read before an `await`, while the process may be restarted at any point.

All of it is Python on one asyncio event loop; blocking Docker calls run in worker
threads (`asyncio.to_thread`). The registry is SQLite and survives restarts, and so do
the containers.

## Inventory

| Component | State | Operations | Called by | Hard because |
|---|---|---|---|---|
| Registry (`registry.py`) | a row per uuid: status, source ip, container id, created/expires | create, set_container, set_running, set_status; counts, due_for_reap | manager, reaper, proxy | writes are unconditional: any of them may land late |
| Docker manager (`docker_manager.py`) | none; the daemon's containers | run_instance (create + start), read_ready, container_status, stop_and_remove, list_managed | manager, reaper | every call may fail, and most failures are swallowed |
| Instance manager (`instances.py`) | coroutines of spawn and kill | spawn, kill, get_flag, status, reconcile_startup | nc server, main | cap check against concurrent spawns; failure and crash at each await; stale records |
| Reaper (`reaper.py`) | one task | sweep every `reaper_interval` | main | works from a snapshot; competes with kills and with boots |
| Process (`main.py`, compose, Makefile) | up or down | start, reconcile, serve; stop, restart, `make clean` | | what a restart finds |
| RPC proxy (`proxy.py`) | in-flight counters, a request's place in them | forward | players | counters on every way out; row changes under a request |
| nc server (`ncserver.py`) | connection counters, a handler and its buffered lines each, heartbeats | menu, proof of work, spawn, kill, flag | players | timeouts, lines read by another prompt, every way a handler ends |
| Proof of work (`pow.py`) | a challenge per attempt | verify | nc server | bit arithmetic |
| Challenge and solve check (`challenge.py`, `sui_rpc.py`) | none; what the node's chain holds | check state, check event | get_flag | row read before the node is asked; event page of 50 filtered afterwards; string/number comparison |
| Instance image (`entrypoint.sh`) | a deploy script beside a node | boot, fund, publish, deploy steps, ready.json | Docker | five retry loops, a node that may die, commands that fail after they took effect |
| Configuration, sample contract | | | | |

What makes each correct: the registry's active rows stay within the caps and a row that
has ended stays ended; every container belongs to an active row or to a cleanup in
progress, and every active row to a container, also after a restart; a spawn always
ends, a slot and a container are always given back; proxy and nc counters return to
zero and never pass their caps; the solve check says what the chain says.

## Modules

`Registry` <- `DockerManager` <- `InstanceManager`, `Reaper` <- `Orchestrator`
(each extends the ones before the arrow), `Slots` (abstract), `MCOrchestrator` (TLC),
`OrchestratorProofs` (types, faults, rows and caps) <- `ContainerProofs` (rows and
containers, `Lifecycle`) (TLAPS).
`Lifecycle` (abstract) <- `Proxy`, `SolveCheck` <- `Access`, with `MCAccess` and
`AccessProofs`; `Orchestrator` implements `Lifecycle`, which is how the two halves meet.
`Orchestrator`, `Access` <- `System` <- `SystemProofs`: the two halves as one process.
`Numerals` <- `Coercion` <- `SolveCheck`, with `NumeralProofs` <- `CoercionProofs` <-
`AccessProofs`. `Numerals` <- `Pow` <- `NcServer`, with `MCNcServer` and `NumeralProofs` <-
`NcServerProofs`. `Entrypoint` stands by itself, with `EntrypointProofs`.

* **Registry**: the columns the program decides on, as functions of the uuid. A row's
  `created_at` and `expires_at` are its `age`, the time since `create`; ages saturate
  one unit past both limits (`Horizon`), where no comparison changes any more. A uuid
  is reserved at most once (uuid4), so `Uuids` bounds the spawns of a behaviour.
* **DockerManager**: the daemon's container for each uuid: none, created, booting,
  ready (has `ready.json`), exited. `containers.run` is two requests, so a launch may
  fail half way. `Faults` selects what may go wrong: `launch` (create or start fails,
  or the start's reply is lost), `poll`, `swallow` (a `DockerException` in a removal),
  `raise` (another exception out of a removal, e.g. a transport timeout), `list`. A removal
  is one step. A real daemon takes a while over it and refuses a second removal (409), which
  `docker_manager.py:114` swallows: when a kill and a sweep race on one container, the task
  that was refused may write its end shortly before the container is gone. In the model
  that is a `swallow`, so "no `swallow`" excludes a little more than a failing daemon.
* **InstanceManager**: spawn and kill. What lies between two awaits is one action; an
  awaited thread is two, its effect on the daemon and the coroutine's resumption.
  `spawn[u]` is the position of the coroutine; the actions follow the code's order:
  `Reserve` (both cap checks and the row, under the lock), `LaunchCreate`,
  `LaunchStart` (thread of `run_instance`), `Launched` (`set_container`, deadline),
  `ReadReady`, `LookAtStatus`, `Wake` (the poll loop and its deadline), `BootReady`
  (`set_running` and the reply, which may be lost), `Fail` (status "error" *before* the
  removal, which happens only if an id was recorded), `Cleanup`. A kill is `KillBegin`
  (reads the record), `KillRemove` (thread), `KillEnd` (writes "killed" if the record
  *it read* was active).
* **Reaper**: `SweepBegin` takes the snapshot of due rows with the boot-window guard,
  `ReaperRemove` is the thread (an exception aborts the sweep), `ReaperExpire` writes
  "expired" unconditionally and goes on to the next row of the snapshot. Sweeps that
  find nothing are not steps.
* **Orchestrator**: composes them; `Start`, `RemoveOrphan`, `MarkMissing`, `Serve` are
  `reconcile_startup` and the rest of `main`; `Crash` loses all tasks at any point
  (what a thread had already done to the daemon stays done); containers become ready or
  exit, `Tick` is time. `OperatorCleans` is `make clean`, modelled only while the process is
  down, although an operator may run it while the process serves.
* **Slots**: the promise of capacity. A slot is free, held, released; it is taken once,
  under both caps. `Orchestrator` implements it with `slot[u]` read off the status
  (`absent`, active, ended) and `source_ip` as holder.
* **Lifecycle**: the promise to those who only look at an instance: its row goes one way,
  its container starts while the row is starting, and a running row ends only when its
  container no longer runs. `Orchestrator` implements it with the three ends as one and
  `rpc` the live containers. `listing` in `Orchestrator` is a history variable: whether this
  start's listing named any container; if not, it may have failed (`ReconcileRestores`
  needs to know).
* **Proxy**: `_forward`. `Arrive` is everything up to the first await: the record, both
  caps and both increments; `BodyRead` and `Delivered` are the body and the upstream call,
  `Leave` is the finally block, which every way out takes (`ClientDisconnects`, `Answered`,
  `UpstreamFails`). `inflight_per` is a dict, so its domain is part of its state.
* **SolveCheck**: `get_flag`. `FlagBegin` reads the row, `NodeAnswers` is the node's reading
  of its chain, `FlagEnd` the coroutine resumed. Of a chain it keeps what a manifest's solve
  section reads: a field (or no object) or the senders of one event type. `Page` is the newest
  `PageSize` events, filtered by sender afterwards.
* **Coercion**: `Compare` is `_coerce_pair` and the operator, on the values as Python sees
  them, strings by their characters, because a u64 comes as a string and 9 < 10 while
  "9" > "10". `Digits` writes a number, `int` reads it. A manifest writes a number as an
  integer or as decimal digits, a bool or an address as the node does (`Written`).
* **Numerals**: `Value`, the number that digits in some base stand for: `int()` of a string
  and `int.from_bytes`.
* **Access**: proxied requests and flag checks on instances of which only `Lifecycle` is
  known; a delivered request may change the chain the flag check reads.
* **System**: both together. Requests and flag checks read the orchestrator's rows and reach
  its containers (`row`, `rpc`), are served while `mode` is "up", and are lost in the step in
  which the process ends.
* **Entrypoint**: the script by its phases (`pc`) beside the node. `tries` is the loop's
  counter, `slept` what the script has spent in `sleep`; a publication or a deploy step
  may land although its command fails; the faucet pays later or never; the
  node may die anywhere. `DockerManager` keeps of this that a container goes from booting to
  ready or exits.
* **Pow**: `verify` and the printed solver on a digest of `DigestBytes` bytes.
* **NcServer**: the handlers of the nc menu and what they share, `_active` and `_per_ip`.
  `session[c]` is the prompt or the call a handler is at. A prompt reads the oldest
  buffered line, whoever it was meant for, and times out only if there is none; the end
  of the stream reads as a timeout. A challenge is a number, `challenge[c]` the last one
  issued on `c`, `spent` (history) those whose solution was accepted; a line solves one
  issued challenge or none, and may be sent on another connection. `Breaks` is an
  exception that leaves the loop, `Close` the finally block. Whether there is a gate
  (`POW_DIFFICULTY_BITS` above 0) is chosen at the start. Of the manager it sees that a
  call returns or raises: `spawning` there is `SpawnStep` until `spawn[u] = "none"` here.

Definitions marked "Mutant of ..." are not part of the model: each is the definition
below it with a plausible bug, kept to show that a property can fail.

### Assumptions that are constants

* `BootsInTime`: a launch and boot end before the row is both past its TTL and past the
  boot timeout since `create`. With the defaults (TTL 900 s, boot timeout 360 s) it
  means that a launch takes less than nine minutes. The deadline itself counts from the end
  of the launch, so the code does not enforce it; `orch_faults` and `orch_live` drop it.
* `OperatorKills`: kill also called with a uuid that no player was told (the names in
  `make ps` contain it). Otherwise kill is called with uuids from a reply.
* `PromptLoop`: a coroutine whose removal has finished is resumed before a container
  launched *after* that removal has booted: one loop iteration against tens of seconds.
  Only `orch_live` needs it, because only there may a removal precede the launch.

## What the runs show

| Run | Bounds | Checks |
|---|---|---|
| `orch_safety` | 3 uuids, 2 addresses, 2 slots in all, 1 per address, 1 kill slot, 1 crash, TTL = boot timeout = 1, polls may fail, `BootsInTime` | `TypeOK`, `CapRespected`, `BootOwnsRow`, `NoOrphan`, `CapBoundsContainers`, `NoGhost`, `KillDestroys`, `ImplementsSlots`, `ImplementsLifecycle` |
| `orch_faults` | 2 uuids, TTL 2, boot timeout 1, 2 kill slots, 1 crash, faults launch/poll/raise/list, boots may be late | `EndsForAReason`, `ReconcileRestores` |
| `orch_live` | 1 uuid, 2 kill slots, 2 crashes, failed polls, late boots, kills during boot | `SpawnResolves`, `SlotFreed`, `ContainerCollected` |
| `terminal_overwritten` | 2 uuids, no faults | `TerminalIsFinal` is violated |
| `boot_window_reaped` | TTL 1, boot timeout 2 | `BootWindowProtected` is violated |
| `live_over_cap` | 1 slot | `LiveWithinCap` is violated |
| `launch_leak` | fault launch | `NoOrphan` is violated |
| `nc_safety` | 3 connections, 3 addresses, 2 in all, 1 per address, 1 buffered line, 2 lines "1"; digests of three 3-bit bytes | `NcTypeOK`, `CountersTrue`, `HeartbeatStops`, `EverySpawnPaid`, `PowAgrees` |
| `nc_live` | 1 connection, 3 buffered lines, 2 lines "1" | `QuietSessionEnds` |
| `access` | 2 uuids, 4 requests, 3 in all, 2 per uuid, 1 flag check, page of 2, 3 events, field 9 or 10 | `AccessTypeOK`, `InflightTrue`, `CoercionExact`, `ReachesOnlyRunning`, `FlagEarned`, `WinRecognised` |
| `event_page` | page of 2, 3 events | `EventFound` is violated |
| `entrypoint` | the script's own numbers: 90 and 40 tries, 4 publications 3 s apart, 3 grants, boot timeout 360; 2 deploy steps | `BootTypeOK`, `ReadyIsComplete`, `BudgetKept`, `BootEnds` |

Why the bounds are enough: three uuids are the fewest with which one address can be
refused while the server has room and the server refused while the address has none;
two tasks race on one row, and a kill, the reaper and the row's own spawn are all there
are; times matter only through which of TTL, boot timeout and deadline comes first,
and the runs cover TTL equal to, above and below the boot timeout. Liveness is
about one instance at a time (nothing an instance waits for belongs to another), so
its run spends its states on more kills and crashes of one. What does not depend on
the bounds is proved (below). Of the nc server the same is true: three connections make
each cap refuse one the other would admit, two attempts let one challenge's solution meet
another's prompt, and a session ends without waiting for another. With four requests
to two uuids each in-flight cap refuses one that the other would admit; three events
are one more than a page; 9 and 10 are the smallest numbers that text orders
the other way round, and the five other operators differ from `lte` in the comparison
only: `CoercionExact` is about the manifest in force and, in the states without an
instance, about all six operators on u32, bool and address too.
`PowAgrees` is arithmetic in the number of bits: three bytes have a first, an inner
and a last one, and difficulties run from zero to one past the width.
The orchestrator's runs stop where all uuids are used up, and the entrypoint ends with its container, so deadlock is not checked there; it is for
the nc server and for `access`.

Five disagreements between the code and what the repository says, each with its run:

* `terminal_overwritten`: kill and reaper working on one instance both write its end,
  and the later write wins (expired becomes killed), although the lifecycle comment
  (`registry.py:17`) ends there. Capacity is not affected: `ImplementsSlots` holds.
* `boot_window_reaped`: "Never reap a container still inside its boot window"
  (`reaper.py:45`). The guard counts from `created_at`, the spawn's deadline from the
  end of the launch; with a TTL shorter than the window the reaper takes a container
  that its spawn is still waiting for.
* `live_over_cap`: a failed spawn frees its slot and then removes its container, so
  more than `MAX_TOTAL_INSTANCES` containers may be live (`README.md:139`).
  `CapBoundsContainers` says that nothing else exceeds the cap.
* `launch_leak`: a launch that fails after the create leaves a container that only the
  next restart removes (`README.md:27`, "no orphaned containers").
* `event_page`: `query_event_exists` promises "True if at least one event of `event_type`
  (optionally from `sender`)" (`sui_rpc.py:54`), but looks for the sender only in the newest
  50: a page of later events by others hides the player's. `WinRecognised` says that
  nothing else does.

Noticed, with no run of its own: `proxy.py:6` and `README.md:111` say that a uuid that is
not running gets a 404, where the code answers 503. A bool field compared with a manifest
value written as the quoted text "true" never matches (`str(True)` is "True"), and an
object that a solver deletes counts as unsolved.

### Fairness

`FairSpec` assumes weak fairness of each spawn's steps, each kill's steps, the reaper,
startup and the clock: the event loop runs what is ready, Docker requests end (they
have a transport timeout), `asyncio.sleep` ends, compose restarts the process
(`restart: unless-stopped`). Nothing is assumed of players, the operator, crashes
(bounded by `MaxCrashes`) or containers: one may neither become ready nor exit, and
then only the deadline ends its spawn.

Of the nc server it assumes weak fairness of each handler: reads time out, a call of the
manager ends (`SpawnResolves` for the longest), and so does a send. The last is an
assumption about players: `drain()` has no timeout, and a peer that stays connected and
reads nothing could hold a handler.

Of the entrypoint it assumes that every command returns, and nothing of the node or the
faucet. `curl` is called without `--max-time`, so a node that accepts a connection and never
answers would break that; then only the orchestrator's deadline ends the boot, which is
`SpawnResolves`. `BudgetKept` counts what the script sleeps, at most 185 of the 360
seconds; what its commands take is not bounded anywhere. `access` states no liveness:
nothing bounds how long a client takes to send its body.

## What is proved

For every value of the constants (finite `Uuids`, positive caps and times):

| Theorem | Assumes | Says |
|---|---|---|
| `TypeCorrect` | - | `[]TypeOK` |
| `OwnershipHolds`, `BootOwnsRowHolds` | B | no task touches the row of a booting spawn |
| `CapHolds` | B | `[]CapRespected` |
| `SlotsImplemented` | B | the orchestrator implements `Slots` |
| `EndsForAReasonHolds` | - | why a running row may end, under every set of faults |
| `ReconcileHolds` | S | what a restart restores, under every other fault |
| `AgreementHolds` | B | rows and containers agree, each part under the faults it can stand |
| `NoOrphanHolds`, `CapBoundsContainersHolds` | B, F | no orphans; the cap bounds the containers |
| `NoGhostHolds` | B, G | a running row has a container, or is about to end |
| `KillDestroysHolds` | B, S | a kill that returns has destroyed |
| `LifecycleImplemented` | B, S, L | the orchestrator implements `Lifecycle` |
| `NcTypeCorrect`, `CountersHold` | - | connection counters: within the caps, and true |
| `GateHolds` | - | every spawn is paid with a solved challenge of its own |
| `HeartbeatAlwaysStops` | - | a heartbeat runs only while its connection's spawn does |
| `SolverAndServerAgree`, `PowAlwaysAgrees` | - | server, printed solver and "so many zero bits" are one |
| `AccessTypeCorrect`, `InflightAlwaysTrue` | - | types; in-flight counters true and within the caps |
| `OnlyRunningReached` | - | a delivered request finds a running instance |
| `DigitsReadBack`, `CoercionAlwaysExact` | - | numbers compare as numbers, written as an integer or as decimal digits |
| `FlagIsEarned`, `WinIsRecognised` | - | a flag for a win, and for nothing else |
| `SystemImplementsAccess` | B, S, L | the orchestrator with its clients implements `Access` |
| `SystemDeliversToRunning`, `SystemFlagIsEarned` | B, S, L, C | so, in the whole, requests reach running instances only, and flags are earned |
| `BootTypeCorrect` | - | types; one package per attempt at most |
| `ReadyAlwaysComplete` | - | ready.json is absent, or whole and true |
| `BudgetAlwaysKept` | R | the script's sleeps stay below the boot timeout |

The assumptions:

* B is `BootsInTime /\ ~OperatorKills`. Without it a sweep or a kill may end a row whose
  spawn then sets it running.
* F is `Faults \subseteq {"poll"}`; `launch_leak` is its violation.
* S is `"swallow" \notin Faults`: no refused removal is taken for done. With that fault a
  kill returns and its container stays, or, if another removal of it is in progress, goes
  a moment later. All that assumes S (`ReconcileHolds`, `KillDestroysHolds`,
  `LifecycleImplemented` and the theorems of `System`) leaves that moment out, and so do
  `KillDestroys`, `ReconcileRestores` and `ImplementsLifecycle` in their runs.
* G is `"raise" \notin Faults`: a removal that raises may have removed, and then the
  row stays running until the TTL.
* L is `"list" \notin Faults`: a listing that fails makes reconcile write "error" to rows whose
  containers run.
* C is `ClientConstants`: what `Access` assumes of its constants (finitely many requests,
  positive caps and page size).
* R is `RpcTries + 2 * GasTries + PublishTries * PublishSleep + Grants < BootTimeout`, which
  the defaults satisfy with 185 < 360; an operator who lowers `INSTANCE_BOOT_TIMEOUT`
  can read off it how far.

The argument. None of `CapRespected`, `NoOrphan`, `BootOwnsRow` is inductive alone: a
state in which a kill is under way on a booting row satisfies them and loses them in
two steps. `Ownership` adds why that state is not reachable: a uuid becomes known only
when its boot is over, kills are of known uuids, a booting row's age is below one of
the reaper's limits, so no snapshot contains it, and no spawn outlives the process.
From `Ownership` every step changes the rows in one of four ways (`RowChangeNext`:
nothing, a reservation with room, starting to running, an end), and the caps
(`CapStep`) and the refinement (`SlotStep`) follow from that alone. `Agreement` adds
the containers: a spawn past its launch has one, a spawn that fails knows its id, what
a kill or a sweep removed stays removed until its row is written (only a booting spawn
creates), and the lists of reconcile are true while it works on them. Its parts that a
fault of the daemon breaks carry that fault as a condition, and each step preserves each
part under its condition; so one induction serves theorems that assume different faults.
From no orphan, `BootOwnsRow` and the cap it follows that the cap bounds the containers.

For the nc server the types are not inductive without the counters: a decrement stays
in range only because the closing connection is one of those counted. `NcInv` is both,
with `PowBuys` and `PowApart`: a session at its proof of work holds an unspent challenge,
and no two sessions hold the same one, so that one accepted does not devalue another.

`Reconciled` says of a reconcile under way that every container without an active row is
on its list of orphans, and every active row without a container on that of the missing; `Reasons` that
whatever may still write an end, a kill or a sweep, was entitled to when it began.

For `Access`, `SeenInv`: a uuid that a request or a flag check has seen running is running
or over, never starting, because rows go one way. Since a row that is over has no
container that answers, a late request or a late question finds a running instance or
nothing; that is all `OnlyRunningReached` and half of `FlagIsEarned` need of the
orchestrator, and `LifecycleImplemented` is that it gets it. The other half is `check_solved`:
a page contains every event that fewer than `PageSize` later ones follow, and a field
compares as the number it stands for (`ComparisonsExact`).
In `System` that becomes a refinement: a step of the orchestrator is a step of `Lifecycle` or
none, a step of a client is itself, and a process that ends while it serves is `Restart`, because
only a crash does that and it changes neither rows nor containers (`ServingEnds`). A removal
that raises out of reconcile does change containers, but then nobody is being
served (`NoClients`).
For `Entrypoint`, `BudgetInv` bounds `slept` by what the phases before and the tries of this
one can have cost (`Limit`). `ReadyInv` says what the chain has at each phase: from the
publication on, the announced package is the newest (`PackagesOlder`), and what the chain
has of it are the deploy steps done so far, in order; a failed deploy step ends the script,
so a step that landed twice is never announced.

`Digits` and `Value` are recursive functions, and what they compute is proved by induction
on numbers: a set of naturals without a least member is empty (`LeastNumber`), which
gives strong induction over sets; the functions' domains are finite, so that they exist is
proved the same way (`WriterExists`, `ReaderExists`). The last digit is the number mod 10 and
the others are those of its tenth, so reading what was written gives it back. For `Pow`,
`2^(n+1) = 2 * 2^n` comes from counting subsets (`Doubles`); from it a digest is below
`2^Width`, its first i bits are zero exactly if it is below `2^(Width - i)`, by induction on i
(`ZeroBits`), and that is what both the shift and the bit length ask.

Only model-checked: all of liveness (`SpawnResolves`, `SlotFreed`, `ContainerCollected`,
`QuietSessionEnds`, `BootEnds`), which is out of the prover's reach. Every safety property of a
passing run is stated by a theorem.
`System` has no run: its states are nearly the product of those of `orch_safety` and `access`,
and its proof uses nothing but what these two check.

## Plan

1. `NcServer` composed with the manager: a handler's `spawning` is a `SpawnStep`, a lost
   reply is a reset before `SpawnReturns`.
2. A removal as two steps of the daemon, so that a second one can be refused while the first
   is in progress; a swallowed removal, and a sweep that the same raising removal aborts every time, so
   that the rows behind it wait (needs the order of `due_for_reap`).

## Not modelled

Configuration parsing, logging, message texts, HTTP details and headers, `get_logs`,
CPU and memory limits, loading and validating a manifest, and the sample contract's
economics: none decides what the rows or containers become, or what a flag check answers
about a given chain. Of manifest values, YAML floats (which `int()` truncates), strings with
a sign, spaces or underscores (which `int()` reads), and a sender given as an address.
What node, faucet, CLI, Docker daemon and players do is external.
`active_for_ip` and `Reaper.stop` have no caller. Rows are never deleted and uuid4 is taken not to collide.
