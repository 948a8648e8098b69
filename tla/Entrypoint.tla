----------------------------- MODULE Entrypoint -----------------------------
(***************************************************************************)
(* The boot of an instance, instance-image/entrypoint.sh: a script that    *)
(* starts a node, waits for it, funds a deployer, publishes the package,   *)
(* runs the deploy steps, funds the player, writes ready.json and stays    *)
(* with the node.  The script ends the container: pc = "exit".             *)
(*                                                                         *)
(* Script and node run side by side, and the node may die at any time: the *)
(* script learns of it only from a command that fails.  What the node, its *)
(* faucet and the CLI do is external: a transaction may land although the  *)
(* command that sent it fails, and a grant comes later than asked for.     *)
(***************************************************************************)
EXTENDS Integers, Sequences

CONSTANTS
    RpcTries,           \* 90, a second apart
    GasTries,           \* 40, a second apart
    PublishTries,       \* 4
    PublishSleep,       \* 3 seconds
    Steps,              \* the length of DEPLOY_SPEC
    Grants,             \* PLAYER_FAUCET_COINS
    BootTimeout         \* INSTANCE_BOOT_TIMEOUT of the orchestrator

ASSUME BudgetAssumption ==
    /\ {RpcTries, GasTries, PublishTries, PublishSleep, Steps, Grants} \subseteq Nat
    /\ BootTimeout \in Nat

VARIABLES
    pc,                 \* the phase the script is in
    tries,              \* the counter of the phase's loop
    slept,              \* seconds slept so far, no further than BootTimeout
    node,               \* "silent" before its RPC answers, "up", "dead"
    requested,          \* addresses a grant is on its way to
    funded,             \* addresses that have gas
    chain,              \* the transactions on the chain, oldest first: step 0
                        \* publishes the package, step i is the i-th deploy step
    package,            \* PACKAGE_ID, 0 when empty: the package it numbers
    objects,            \* the transactions whose created objects ALL_OBJECTS has
    tmp, ready          \* ready.json.tmp, ready.json: "none", "part", "whole"

scriptVars == <<pc, tries, slept, package, objects, tmp, ready>>
nodeVars == <<node, requested, funded, chain>>
vars == <<scriptVars, nodeVars>>

Addresses == {"deployer", "player"}
Phases == {"rpc", "keys", "deployer", "publish", "deploy", "player", "grants",
           "export", "write", "rename", "wait", "exit"}
Transactions == [package : 1 .. PublishTries, step : 0 .. Steps]

Published == {chain[i].package : i \in 1 .. Len(chain)}

\* Every variable holds what the script and the node can put in it.
BootTypeOK ==
    /\ pc \in Phases
    /\ tries \in Nat
    /\ slept \in 0 .. BootTimeout
    /\ node \in {"silent", "up", "dead"}
    /\ requested \in SUBSET Addresses /\ funded \in SUBSET Addresses
    /\ chain \in Seq(Transactions) /\ objects \in Seq(Transactions)
    /\ package \in 0 .. PublishTries
    /\ tmp \in {"none", "part", "whole"} /\ ready \in {"none", "part", "whole"}

Init ==
    /\ pc = "rpc" /\ tries = 0 /\ slept = 0
    /\ node = "silent" /\ requested = {} /\ funded = {} /\ chain = <<>>
    /\ package = 0 /\ objects = <<>> /\ tmp = "none" /\ ready = "none"

-----------------------------------------------------------------------------
Up == node = "up"

\* To another phase, or around a loop after a sleep.
Enter(phase) == pc' = phase /\ tries' = 0 /\ UNCHANGED slept

Sleep(seconds) ==
    slept' = IF slept + seconds < BootTimeout THEN slept + seconds ELSE BootTimeout

Again(seconds) == tries' = tries + 1 /\ Sleep(seconds) /\ UNCHANGED pc

files == <<package, objects, tmp, ready>>

-----------------------------------------------------------------------------
(* The node is waited for, a second at a time. *)

RpcAnswers ==
    /\ pc = "rpc" /\ tries < RpcTries /\ Up
    /\ Enter("keys")
    /\ UNCHANGED <<files, nodeVars>>

\* Mutant of RpcSilent: the loop has no end.
RpcSilentForever ==
    /\ pc = "rpc" /\ node # "dead"
    /\ Sleep(1) /\ UNCHANGED <<pc, tries, files, nodeVars>>

RpcSilent ==
    /\ pc = "rpc" /\ tries < RpcTries /\ node # "dead"
    /\ Again(1)
    /\ UNCHANGED <<files, nodeVars>>

\* The process is gone, or there was no answer in time.
RpcFails ==
    /\ pc = "rpc" /\ (node = "dead" \/ tries = RpcTries)
    /\ Enter("exit")
    /\ UNCHANGED <<files, nodeVars>>

\* The chain id and two fresh keys.
Keys ==
    /\ pc = "keys"
    /\ (Up /\ Enter("deployer")) \/ Enter("exit")
    /\ UNCHANGED <<files, nodeVars>>

-----------------------------------------------------------------------------
(* ensure_gas, for the deployer and later for the player. *)

Funding == pc \in Addresses

GasThere ==
    /\ Funding /\ Up /\ pc \in funded
    /\ Enter(IF pc = "deployer" THEN "publish" ELSE "grants")
    /\ UNCHANGED <<files, nodeVars>>

\* Asking is best effort: the request may fail, or be paid later.
faucet(a) ==
    /\ requested' \in {requested} \union (IF Up THEN {requested \union {a}} ELSE {})
    /\ UNCHANGED <<node, funded, chain>>

\* Mutant of GasMissing: an attempt that finds the faucet down is not counted.
GasMissingUncounted ==
    /\ Funding
    /\ faucet(pc)
    /\ IF tries + 1 > GasTries THEN Enter("exit")
       ELSE /\ tries' = IF Up THEN tries + 1 ELSE tries
            /\ Sleep(1) /\ UNCHANGED pc
    /\ UNCHANGED files

\* No coin is seen, because there is none or because the query fails.
GasMissing ==
    /\ Funding
    /\ faucet(pc)
    /\ IF tries + 1 > GasTries THEN Enter("exit") ELSE Again(1)
    /\ UNCHANGED files

-----------------------------------------------------------------------------
(* Publishing, with retries. *)

NextPackage == 1 + (IF chain = <<>> THEN 0 ELSE chain[Len(chain)].package)

Lands(p, i) == chain' = Append(chain, [package |-> p, step |-> i])

PublishSucceeds ==
    /\ pc = "publish" /\ tries < PublishTries
    /\ Up
    /\ Lands(NextPackage, 0)
    /\ package' = NextPackage
    /\ objects' = <<[package |-> NextPackage, step |-> 0]>>
    /\ Enter("deploy")
    /\ UNCHANGED <<tmp, ready, node, requested, funded>>

\* Mutant of PublishFails: it is retried for ever.
PublishFailsForever ==
    /\ pc = "publish"
    /\ UNCHANGED chain \/ (Up /\ Lands(NextPackage, 0))
    /\ Again(PublishSleep)
    /\ UNCHANGED <<files, node, requested, funded>>

\* The command fails: mostly before it sends anything, possibly after it did.
PublishFails ==
    /\ pc = "publish" /\ tries < PublishTries
    /\ UNCHANGED chain \/ (Up /\ Lands(NextPackage, 0))
    /\ Again(PublishSleep)
    /\ UNCHANGED <<files, node, requested, funded>>

\* After the last attempt; or before the first, the switch to the deployer fails.
PublishGivesUp ==
    /\ pc = "publish" /\ tries \in {0, PublishTries}
    /\ Enter("exit")
    /\ UNCHANGED <<files, nodeVars>>

-----------------------------------------------------------------------------
(* The deploy steps, in the manifest's order, each on PACKAGE_ID. *)

DeployStep ==
    /\ pc = "deploy" /\ tries < Steps
    /\ Up
    /\ Lands(package, tries + 1)
    /\ objects' = Append(objects, [package |-> package, step |-> tries + 1])
    /\ Again(0)
    /\ UNCHANGED <<package, tmp, ready, node, requested, funded>>

\* Mutant of DeployFails: the next step is run all the same.
DeployFailsAndGoesOn ==
    /\ pc = "deploy" /\ tries < Steps
    /\ Again(0)
    /\ UNCHANGED <<files, nodeVars>>

\* A step is not retried, executed or not; nor is jq on what it printed.
DeployFails ==
    /\ pc = "deploy"
    /\ UNCHANGED chain \/ (Up /\ tries < Steps /\ Lands(package, tries + 1))
    /\ Enter("exit")
    /\ UNCHANGED <<files, node, requested, funded>>

DeployEnds ==
    /\ pc = "deploy" /\ tries = Steps
    /\ Enter("player")
    /\ UNCHANGED <<files, nodeVars>>

-----------------------------------------------------------------------------
(* The player's grants, its key, ready.json. *)

Grant ==
    /\ pc = "grants" /\ tries < Grants
    /\ faucet("player")
    /\ Again(1)
    /\ UNCHANGED files

GrantsEnd ==
    /\ pc = "grants" /\ tries = Grants
    /\ Enter("export")
    /\ UNCHANGED <<files, nodeVars>>

Export ==
    /\ pc = "export"
    /\ Enter("write") \/ Enter("exit")
    /\ UNCHANGED <<files, nodeVars>>

\* jq writes the temporary file, at once or in parts; the disk may be full.
Write ==
    /\ pc = "write"
    /\ \/ tmp' = "part" /\ UNCHANGED <<pc, tries, slept>>
       \/ tmp' = "whole" /\ Enter("rename")
       \/ UNCHANGED tmp /\ Enter("exit")
    /\ UNCHANGED <<package, objects, ready, nodeVars>>

\* mv is atomic.
Rename ==
    /\ pc = "rename"
    /\ \/ ready' = tmp /\ tmp' = "none" /\ Enter("wait")
       \/ UNCHANGED <<ready, tmp>> /\ Enter("exit")
    /\ UNCHANGED <<package, objects, nodeVars>>

NodeGone ==
    /\ pc = "wait" /\ node = "dead"
    /\ Enter("exit")
    /\ UNCHANGED <<files, nodeVars>>

Script ==
    \/ RpcAnswers \/ RpcSilent \/ RpcFails \/ Keys
    \/ GasThere \/ GasMissing
    \/ PublishSucceeds \/ PublishFails \/ PublishGivesUp
    \/ DeployStep \/ DeployFails \/ DeployEnds
    \/ Grant \/ GrantsEnd \/ Export \/ Write \/ Rename \/ NodeGone

-----------------------------------------------------------------------------
(* The node. *)

NodeStep ==
    /\ \/ node = "silent" /\ node' = "up" /\ UNCHANGED funded
       \/ node # "dead" /\ node' = "dead" /\ UNCHANGED funded
       \/ Up /\ UNCHANGED node /\ requested # {} /\ funded' = funded \union requested
    /\ UNCHANGED <<requested, chain, scriptVars>>

Running == pc # "exit"

Next == Running /\ (Script \/ NodeStep)

Spec == Init /\ [][Next]_vars

\* Every command returns; the node owes nothing.
FairSpec == Spec /\ WF_vars(Running /\ Script)

-----------------------------------------------------------------------------
\* The chain ends with the publication of PACKAGE_ID and its first n deploy
\* steps, each once and in order, and has nothing else of this package; their
\* created objects, and no others, are in ALL_OBJECTS.
Deployed(n) ==
    /\ package # 0
    /\ objects = [i \in 1 .. n + 1 |-> [package |-> package, step |-> i - 1]]
    /\ \E k \in 0 .. Len(chain) :
          /\ SubSeq(chain, k + 1, Len(chain)) = objects
          /\ \A i \in 1 .. k : chain[i].package # package

\* Whoever reads ready.json reads all of it, and finds in it the package whose
\* deploy steps the chain has, every one, once and in order, with the objects
\* of these and of no package an earlier, failed attempt published; and the
\* player of it has gas.  (docker_manager.py, `the entrypoint writes
\* atomically'; registry.py's running.)
ReadyIsComplete ==
    Running /\ ready # "none" =>
        /\ ready = "whole"
        /\ Deployed(Steps)
        /\ "player" \in funded

\* config.py:44: INSTANCE_BOOT_TIMEOUT `must exceed the instance entrypoint's
\* own internal retry budget'.  It does whatever fails and however often, so
\* far as the script's own waiting goes: no sequence of retries sleeps it away.
BudgetKept == slept < BootTimeout

\* The script ends its boot, with an instance or without: no loop of it waits
\* forever for a node that died or a faucet that does not pay.
BootEnds == <>(pc \in {"wait", "exit"})
=============================================================================
