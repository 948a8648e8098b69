-------------------------- MODULE EntrypointProofs --------------------------
(***************************************************************************)
(* Types, that the entrypoint's retries fit in the boot timeout, and that  *)
(* ready.json is absent or whole and true, for any number of deploy steps  *)
(* and any retry counts (for the second, any that leave room for it).      *)
(***************************************************************************)
EXTENDS Entrypoint, SequenceTheorems, TLAPS

Publishing == PublishTries * PublishSleep
Total == RpcTries + 2 * GasTries + Publishing + Grants

\* What the script can have slept when it is where it is.
Limit ==
    CASE pc = "rpc" -> tries
      [] pc = "keys" -> RpcTries
      [] pc = "deployer" -> RpcTries + tries
      [] pc = "publish" -> RpcTries + GasTries + tries * PublishSleep
      [] pc = "deploy" -> RpcTries + GasTries + Publishing
      [] pc = "player" -> RpcTries + GasTries + Publishing + tries
      [] pc = "grants" -> RpcTries + 2 * GasTries + Publishing + tries
      [] OTHER -> Total

TriesBounded ==
    /\ pc = "rpc" => tries <= RpcTries
    /\ pc \in Addresses => tries <= GasTries
    /\ pc = "publish" => tries <= PublishTries
    /\ pc = "grants" => tries <= Grants

BudgetInv ==
    /\ pc \in Phases /\ tries \in Nat /\ slept \in Nat
    /\ TriesBounded
    /\ slept <= Limit

Fits == Total < BootTimeout

-----------------------------------------------------------------------------
LEMMA Times ==
    ASSUME NEW n \in Nat, NEW t \in Nat, NEW s \in Nat, t <= n
    PROVE  t * s \in Nat /\ n * s \in Nat /\ t * s <= n * s /\ (t + 1) * s = t * s + s
OBVIOUS

LEMMA PublishingNat == Publishing \in Nat /\ Total \in Nat
<1>1. PublishTries * PublishSleep \in Nat
  BY BudgetAssumption, Times
<1>2. QED
  BY <1>1, BudgetAssumption DEF Publishing, Total

\* A loop that goes around has slept at most that much longer.
LEMMA AgainSleeps ==
    ASSUME BudgetInv, NEW s \in Nat, Again(s)
    PROVE  /\ pc' = pc /\ tries' = tries + 1 /\ slept' \in Nat
           /\ slept' <= slept + s
BY BudgetAssumption DEF BudgetInv, Again, Sleep

LEMMA BudgetScript == ASSUME BudgetInv, Script PROVE BudgetInv'
<1> USE BudgetAssumption, PublishingNat
<1> USE DEF BudgetInv, TriesBounded, Limit, Total, Phases, Addresses
<1>1. ASSUME pc = "rpc" /\ tries < RpcTries, Again(1) PROVE BudgetInv'
  BY <1>1, AgainSleeps
<1>2. ASSUME pc \in Addresses, tries + 1 <= GasTries, Again(1) PROVE BudgetInv'
  BY <1>2, AgainSleeps
<1>3. ASSUME pc = "publish", tries < PublishTries, Again(PublishSleep) PROVE BudgetInv'
  <2>1. tries * PublishSleep \in Nat /\ (tries + 1) * PublishSleep = tries * PublishSleep + PublishSleep
    BY <1>3, Times
  <2>2. QED
    BY <1>3, <2>1, AgainSleeps
<1>4. ASSUME pc = "deploy", Again(0) PROVE BudgetInv'
  BY <1>4, AgainSleeps
<1>5. ASSUME pc = "grants", tries < Grants, Again(1) PROVE BudgetInv'
  BY <1>5, AgainSleeps
<1>6. tries * PublishSleep \in Nat /\ (pc = "publish" => tries * PublishSleep <= Publishing)
  BY Times DEF Publishing
<1>7. ASSUME NEW phase, Enter(phase),
             \/ phase = "exit"
             \/ pc = "rpc" /\ phase = "keys"
             \/ pc = "keys" /\ phase = "deployer"
             \/ pc = "deployer" /\ phase = "publish"
             \/ pc = "publish" /\ phase = "deploy"
             \/ pc = "deploy" /\ phase = "player"
             \/ pc = "player" /\ phase = "grants"
             \/ pc = "grants" /\ phase = "export"
             \/ pc = "export" /\ phase = "write"
             \/ pc = "write" /\ phase = "rename"
             \/ pc = "rename" /\ phase = "wait"
      PROVE  BudgetInv'
  <2>1. slept <= Total
    BY <1>6
  <2>2. pc' = phase /\ tries' = 0 /\ slept' = slept
    BY <1>7 DEF Enter
  <2>3. QED
    BY <1>6, <1>7, <2>1, <2>2
<1>8. CASE RpcAnswers \/ RpcSilent \/ RpcFails \/ Keys
  BY <1>1, <1>7, <1>8 DEF RpcAnswers, RpcSilent, RpcFails, Keys
<1>9. CASE GasThere \/ GasMissing
  BY <1>2, <1>7, <1>9 DEF GasThere, GasMissing, Funding
<1>10. CASE PublishSucceeds \/ PublishFails \/ PublishGivesUp
  BY <1>3, <1>7, <1>10 DEF PublishSucceeds, PublishFails, PublishGivesUp
<1>11. CASE DeployStep \/ DeployFails \/ DeployEnds
  BY <1>4, <1>7, <1>11 DEF DeployStep, DeployFails, DeployEnds
<1>12. CASE Grant \/ GrantsEnd \/ Export
  BY <1>5, <1>7, <1>12 DEF Grant, GrantsEnd, Export
<1>13. CASE Write \/ Rename \/ NodeGone
  BY <1>7, <1>13 DEF Write, Rename, NodeGone
<1>14. QED
  BY <1>8, <1>9, <1>10, <1>11, <1>12, <1>13 DEF Script

\* No sequence of failures and retries sleeps the boot timeout away, if the
\* retry counts leave room (config.py:44; entrypoint.sh has 90, 40, 40, 4 times
\* 3 and PLAYER_FAUCET_COINS seconds, which is 185 of 360).
THEOREM BudgetAlwaysKept == Fits => (Spec => []BudgetKept)
<1> SUFFICES ASSUME Fits PROVE Spec => []BudgetKept
  OBVIOUS
<1>1. Init => BudgetInv
  BY BudgetAssumption DEF Init, BudgetInv, TriesBounded, Limit, Phases, Addresses
<1>2. BudgetInv /\ [Next]_vars => BudgetInv'
  <2>1. ASSUME BudgetInv, UNCHANGED scriptVars PROVE BudgetInv'
    BY <2>1 DEF BudgetInv, TriesBounded, Limit, scriptVars
  <2>2. QED
    BY <2>1, BudgetScript DEF Next, NodeStep, vars
<1>3. BudgetInv => BudgetKept
  <2>1. ASSUME BudgetInv PROVE tries * PublishSleep \in Nat /\
                              (pc = "publish" => tries * PublishSleep <= Publishing)
    BY <2>1, BudgetAssumption, Times DEF BudgetInv, TriesBounded, Publishing
  <2>2. QED
    BY <2>1, BudgetAssumption, PublishingNat
       DEF BudgetInv, TriesBounded, Limit, Total, Fits, BudgetKept, Addresses
<1>4. QED
  BY <1>1, <1>2, <1>3, PTL DEF Spec

-----------------------------------------------------------------------------
(* Types: every attempt publishes at most one package. *)

TypeInv ==
    /\ BootTypeOK
    /\ pc \in {"rpc", "keys", "deployer"} => chain = <<>>
    /\ pc = "publish" =>
          tries <= PublishTries /\ \A i \in 1 .. Len(chain) : chain[i].package <= tries
    /\ pc = "deploy" => package \in 1 .. PublishTries /\ tries <= Steps

LEMMA TransactionType ==
    /\ \A t \in Transactions : t.package \in 1 .. PublishTries
    /\ \A p \in 1 .. PublishTries, i \in 0 .. Steps :
          [package |-> p, step |-> i] \in Transactions
BY DEF Transactions

\* Every transaction of the chain is one.
LEMMA ChainType ==
    ASSUME TypeInv
    PROVE  \A i \in 1 .. Len(chain) : chain[i].package \in 1 .. PublishTries
<1>1. \A i \in 1 .. Len(chain) : chain[i] \in Transactions
  BY DEF TypeInv, BootTypeOK
<1>2. QED
  BY <1>1, TransactionType

LEMMA LandsType ==
    ASSUME chain \in Seq(Transactions), NEW p \in 1 .. PublishTries, NEW i \in 0 .. Steps,
           Lands(p, i)
    PROVE  /\ chain' \in Seq(Transactions)
           /\ Len(chain') = Len(chain) + 1
           /\ \A j \in 1 .. Len(chain) : chain'[j] = chain[j]
           /\ chain'[Len(chain) + 1].package = p
BY TransactionType DEF Lands

\* The package of the attempt at hand is a new one.
LEMMA NextPackageType ==
    ASSUME TypeInv, pc = "publish", tries < PublishTries
    PROVE  NextPackage \in 1 .. PublishTries /\ NextPackage <= tries + 1
<1>1. PublishTries \in Nat /\ tries \in Nat
  BY BudgetAssumption DEF TypeInv, BootTypeOK
<1>2. CASE chain = <<>>
  <2>1. NextPackage = 1 + 0
    BY <1>2, Zenon DEF NextPackage
  <2>2. QED
    BY <1>1, <2>1
<1>3. CASE chain # <<>>
  <2>1. Len(chain) \in 1 .. Len(chain)
    BY <1>3 DEF TypeInv, BootTypeOK
  <2>2. chain[Len(chain)].package \in 1 .. PublishTries /\ chain[Len(chain)].package <= tries
    BY <2>1, ChainType DEF TypeInv
  <2>3. NextPackage = 1 + chain[Len(chain)].package
    BY <1>3, Zenon DEF NextPackage
  <2>4. QED
    BY <1>1, <2>2, <2>3
<1>4. QED
  BY <1>2, <1>3

\* What going elsewhere or around a loop does to the script's own counters.
LEMMA EnterType ==
    ASSUME TypeInv, NEW phase \in Phases, Enter(phase)
    PROVE  pc' = phase /\ tries' = 0 /\ slept' \in 0 .. BootTimeout
BY DEF Enter, TypeInv, BootTypeOK

LEMMA AgainType ==
    ASSUME TypeInv, NEW s \in Nat, Again(s)
    PROVE  pc' = pc /\ tries' = tries + 1 /\ slept' \in 0 .. BootTimeout
BY BudgetAssumption DEF Again, Sleep, TypeInv, BootTypeOK

\* Steps that publish nothing and start no deploy step.
LEMMA OtherTypes ==
    ASSUME TypeInv, UNCHANGED <<package, objects, node, funded, chain>>,
           requested' \in SUBSET Addresses,
           tmp' \in {"none", "part", "whole"}, ready' \in {"none", "part", "whole"},
           \/ \E phase \in Phases :
                 /\ Enter(phase)
                 /\ phase = "publish" => pc = "deployer"
                 /\ phase = "deployer" => pc = "keys"
                 /\ phase = "keys" => pc = "rpc"
                 /\ phase \notin {"deploy", "rpc"}
           \/ pc # "publish" /\ pc # "deploy" /\ Again(1)
           \/ pc = "publish" /\ tries < PublishTries /\ Again(PublishSleep)
           \/ UNCHANGED <<pc, tries, slept>>
    PROVE  TypeInv'
<1> USE DEF TypeInv, BootTypeOK
<1>1. ASSUME NEW phase \in Phases, Enter(phase),
             phase = "publish" => pc = "deployer",
             phase = "deployer" => pc = "keys",
             phase = "keys" => pc = "rpc",
             phase \notin {"deploy", "rpc"}
      PROVE  TypeInv'
  <2>1. pc' = phase /\ tries' = 0 /\ slept' \in 0 .. BootTimeout
    BY <1>1, EnterType
  <2>2. phase = "publish" => Len(chain) = 0
    BY <1>1
  <2>3. QED
    BY <1>1, <2>1, <2>2, BudgetAssumption
<1>2. CASE pc # "publish" /\ pc # "deploy" /\ Again(1)
  BY <1>2, AgainType
<1>3. CASE pc = "publish" /\ tries < PublishTries /\ Again(PublishSleep)
  <2>1. pc' = pc /\ tries' = tries + 1 /\ slept' \in 0 .. BootTimeout
    BY <1>3, AgainType, BudgetAssumption
  <2>2. BootTypeOK'
    BY <2>1
  <2>3. tries' <= PublishTries
    BY <1>3, <2>1, BudgetAssumption
  <2>4. \A i \in 1 .. Len(chain) : chain[i].package \in Nat /\ chain[i].package <= tries
    BY <1>3, ChainType
  <2>5. \A i \in 1 .. Len(chain) : chain[i].package <= tries + 1
    <3>1. tries \in Nat
      OBVIOUS
    <3>2. QED
      BY <2>4, <3>1
  <2>6. QED
    BY <1>3, <2>1, <2>2, <2>3, <2>5
<1>4. CASE UNCHANGED <<pc, tries, slept>>
  BY <1>4
<1>5. QED
  BY <1>1, <1>2, <1>3, <1>4

LEMMA TypeScript == ASSUME TypeInv, Script PROVE TypeInv'
<1> USE DEF files, nodeVars
<1>1. /\ {"rpc", "keys", "deployer", "publish", "deploy", "player", "grants", "export",
          "write", "rename", "wait", "exit"} \subseteq Phases
      /\ requested \in SUBSET Addresses
      /\ tmp \in {"none", "part", "whole"} /\ ready \in {"none", "part", "whole"}
  BY DEF Phases, TypeInv, BootTypeOK
<1>2. CASE RpcAnswers \/ RpcSilent \/ RpcFails \/ Keys
  BY <1>1, <1>2, OtherTypes DEF RpcAnswers, RpcSilent, RpcFails, Keys
<1>3. CASE GasThere \/ GasMissing
  BY <1>1, <1>3, OtherTypes DEF GasThere, GasMissing, Funding, faucet, Addresses
<1>4. CASE PublishSucceeds
  <2>1. NextPackage \in 1 .. PublishTries /\ 0 \in 0 .. Steps
    BY <1>4, NextPackageType, BudgetAssumption DEF PublishSucceeds
  <2>2. chain' \in Seq(Transactions) /\ objects' \in Seq(Transactions)
    <3>1. chain' \in Seq(Transactions)
      BY <1>4, <2>1, LandsType DEF PublishSucceeds, TypeInv, BootTypeOK
    <3>2. objects' = <<[package |-> NextPackage, step |-> 0]>>
      BY <1>4 DEF PublishSucceeds
    <3>3. [package |-> NextPackage, step |-> 0] \in Transactions
      BY <2>1, TransactionType
    <3>4. QED
      BY <3>1, <3>2, <3>3
  <2>3. pc' = "deploy" /\ tries' = 0 /\ slept' \in 0 .. BootTimeout
    BY <1>1, <1>4, EnterType DEF PublishSucceeds
  <2>4. QED
    BY <1>1, <1>4, <2>1, <2>2, <2>3, BudgetAssumption DEF PublishSucceeds, TypeInv, BootTypeOK
<1>5. CASE PublishFails
  <2>1. CASE UNCHANGED chain
    BY <1>1, <1>5, <2>1, OtherTypes DEF PublishFails
  <2>2. CASE Lands(NextPackage, 0)
    <3>1. NextPackage \in 1 .. PublishTries /\ NextPackage <= tries + 1 /\ 0 \in 0 .. Steps
      BY <1>5, NextPackageType, BudgetAssumption DEF PublishFails
    <3>2. /\ chain' \in Seq(Transactions) /\ Len(chain') = Len(chain) + 1
          /\ \A j \in 1 .. Len(chain) : chain'[j] = chain[j]
          /\ chain'[Len(chain) + 1].package = NextPackage
      <4>1. chain \in Seq(Transactions)
        BY DEF TypeInv, BootTypeOK
      <4>2. QED
        BY <2>2, <3>1, <4>1, LandsType
    <3>3. ASSUME NEW j \in 1 .. Len(chain) PROVE chain[j].package <= tries + 1
      <4>1. chain[j].package \in 1 .. PublishTries /\ chain[j].package <= tries
        BY <1>5, <3>3, ChainType DEF PublishFails, TypeInv
      <4>2. QED
        BY <4>1 DEF TypeInv, BootTypeOK
    <3>4. \A j \in 1 .. Len(chain') : chain'[j].package <= tries + 1
      BY <3>1, <3>2, <3>3 DEF TypeInv, BootTypeOK
    <3>5. pc' = pc /\ tries' = tries + 1 /\ slept' \in 0 .. BootTimeout
      BY <1>5, AgainType, BudgetAssumption DEF PublishFails
    <3>6. QED
      BY <1>1, <1>5, <3>2, <3>4, <3>5, BudgetAssumption DEF PublishFails, TypeInv, BootTypeOK
  <2>3. QED
    BY <1>5, <2>1, <2>2 DEF PublishFails
<1>6. CASE PublishGivesUp \/ DeployEnds
  BY <1>1, <1>6, OtherTypes DEF PublishGivesUp, DeployEnds
<1>7. CASE DeployStep
  <2>1. tries + 1 \in 0 .. Steps /\ package \in 1 .. PublishTries
    BY <1>7, BudgetAssumption DEF DeployStep, TypeInv, BootTypeOK
  <2>2. chain' \in Seq(Transactions) /\ objects' \in Seq(Transactions)
    <3>1. chain' \in Seq(Transactions)
      BY <1>7, <2>1, LandsType DEF DeployStep, TypeInv, BootTypeOK
    <3>2. [package |-> package, step |-> tries + 1] \in Transactions
      BY <2>1, TransactionType
    <3>3. QED
      BY <1>7, <3>1, <3>2 DEF DeployStep, TypeInv, BootTypeOK
  <2>3. pc' = pc /\ tries' = tries + 1 /\ slept' \in 0 .. BootTimeout
    BY <1>7, AgainType DEF DeployStep
  <2>4. QED
    BY <1>1, <1>7, <2>1, <2>2, <2>3 DEF DeployStep, TypeInv, BootTypeOK
<1>8. CASE DeployFails
  <2>1. tries < Steps => tries + 1 \in 0 .. Steps /\ package \in 1 .. PublishTries
    BY <1>8, BudgetAssumption DEF DeployFails, TypeInv, BootTypeOK
  <2>2. chain' \in Seq(Transactions)
    BY <1>8, <2>1, LandsType DEF DeployFails, TypeInv, BootTypeOK
  <2>3. pc' = "exit" /\ tries' = 0 /\ slept' \in 0 .. BootTimeout
    BY <1>1, <1>8, EnterType DEF DeployFails
  <2>4. QED
    BY <1>1, <1>8, <2>2, <2>3 DEF DeployFails, TypeInv, BootTypeOK
<1>9. CASE Grant \/ GrantsEnd \/ Export
  BY <1>1, <1>9, OtherTypes DEF Grant, GrantsEnd, Export, faucet, Addresses
<1>10. CASE Write \/ Rename \/ NodeGone
  BY <1>1, <1>10, OtherTypes DEF Write, Rename, NodeGone
<1>11. QED
  BY <1>2, <1>3, <1>4, <1>5, <1>6, <1>7, <1>8, <1>9, <1>10 DEF Script

LEMMA TypeInvHolds == Spec => []TypeInv
<1>1. Init => TypeInv
  BY BudgetAssumption DEF Init, TypeInv, BootTypeOK, Phases
<1>2. TypeInv /\ [Next]_vars => TypeInv'
  <2>1. ASSUME TypeInv, NodeStep PROVE TypeInv'
    BY <2>1 DEF NodeStep, scriptVars, TypeInv, BootTypeOK
  <2>2. ASSUME TypeInv, UNCHANGED vars PROVE TypeInv'
    BY <2>2 DEF vars, scriptVars, nodeVars, TypeInv, BootTypeOK
  <2>3. QED
    BY <2>1, <2>2, TypeScript DEF Next
<1>3. QED
  BY <1>1, <1>2, PTL DEF Spec

\* Every variable keeps its type: above all, failed publications that landed
\* all the same leave at most one package per attempt.
THEOREM BootTypeCorrect == Spec => []BootTypeOK
<1>1. TypeInv => BootTypeOK
  BY DEF TypeInv
<1>2. QED
  BY <1>1, TypeInvHolds, PTL

-----------------------------------------------------------------------------
(* The end of a sequence that grows. *)

LEMMA SubSeqAppend ==
    ASSUME NEW S, NEW s \in Seq(S), NEW e \in S, NEW k \in 0 .. Len(s)
    PROVE  SubSeq(Append(s, e), k + 1, Len(s) + 1) = Append(SubSeq(s, k + 1, Len(s)), e)
<1> DEFINE n == Len(s)
           t == Append(s, e)
           a == SubSeq(t, k + 1, n + 1)
           b == SubSeq(s, k + 1, n)
<1>1. n \in Nat /\ \A i \in 1 .. n : s[i] \in S
  BY LenProperties
<1>2. t \in Seq(S) /\ Len(t) = n + 1 /\ t[n + 1] = e /\ \A i \in 1 .. n : t[i] = s[i]
  BY AppendProperties
<1> HIDE DEF n, t
<1>3. a \in Seq(S) /\ Len(a) = n + 1 - k /\ \A i \in 1 .. n + 1 - k : a[i] = t[k + i]
  <2>1. \A i \in k + 1 .. n + 1 : t[i] \in S
    BY <1>1, <1>2
  <2>2. k + 1 \in Int /\ n + 1 \in Int /\ k + 1 <= n + 1 /\ (n + 1) - (k + 1) + 1 = n + 1 - k
    BY <1>1 DEF n
  <2>3. /\ a \in Seq(S)
        /\ Len(a) = (n + 1) - (k + 1) + 1
        /\ \A i \in 1 .. (n + 1) - (k + 1) + 1 : a[i] = t[(k + 1) + i - 1]
    BY <2>1, <2>2, SubSeqProperties
  <2> HIDE DEF a
  <2>4. a \in Seq(S) /\ Len(a) = n + 1 - k
    BY <2>2, <2>3
  <2>5. ASSUME NEW i \in 1 .. n + 1 - k PROVE a[i] = t[k + i]
    <3>1. i \in 1 .. (n + 1) - (k + 1) + 1 /\ (k + 1) + i - 1 = k + i
      BY <1>1, <2>2
    <3>2. QED
      BY <2>3, <3>1
  <2>6. QED
    BY <2>4, <2>5
<1>4. b \in Seq(S) /\ Len(b) = n - k /\ \A i \in 1 .. n - k : b[i] = s[k + i]
  <2>1. \A i \in k + 1 .. n : s[i] \in S
    BY <1>1
  <2>2. k + 1 \in Int /\ n \in Int /\ n - (k + 1) + 1 = n - k /\ (n < k + 1 => n - k = 0)
    BY <1>1 DEF n
  <2>3. /\ b \in Seq(S)
        /\ Len(b) = IF k + 1 <= n THEN n - (k + 1) + 1 ELSE 0
        /\ \A i \in 1 .. n - (k + 1) + 1 : b[i] = s[(k + 1) + i - 1]
    BY <2>1, <2>2, SubSeqProperties
  <2> HIDE DEF b
  <2>4. b \in Seq(S) /\ Len(b) = n - k
    BY <1>1, <2>2, <2>3
  <2>5. ASSUME NEW i \in 1 .. n - k PROVE b[i] = s[k + i]
    <3>1. i \in 1 .. n - (k + 1) + 1 /\ (k + 1) + i - 1 = k + i
      BY <1>1, <2>2
    <3>2. QED
      BY <2>3, <3>1
  <2>6. QED
    BY <2>4, <2>5
<1> HIDE DEF a, b
<1>5. /\ Append(b, e) \in Seq(S) /\ Len(Append(b, e)) = n - k + 1
      /\ \A i \in 1 .. n - k : Append(b, e)[i] = b[i]
      /\ Append(b, e)[n - k + 1] = e
  BY <1>4, AppendProperties
<1>6. \A i \in 1 .. Len(a) : a[i] = Append(b, e)[i]
  <2>1. n \in Nat /\ k \in 0 .. n
    BY <1>1 DEF n
  <2>2. ASSUME NEW i \in 1 .. n - k PROVE a[i] = Append(b, e)[i]
    BY <1>2, <1>3, <1>4, <1>5, <2>1
  <2>3. a[n - k + 1] = e
    <3>1. n - k + 1 \in 1 .. n + 1 - k /\ k + (n - k + 1) = n + 1
      BY <2>1
    <3>2. QED
      BY <1>2, <1>3, <3>1
  <2>4. \A i \in 1 .. Len(a) : i \in 1 .. n - k \/ i = n - k + 1
    BY <1>3, <2>1
  <2>5. QED
    BY <1>5, <2>2, <2>3, <2>4
<1>7. a = Append(b, e)
  BY <1>1, <1>3, <1>5, <1>6, SeqEqual DEF n
<1>8. QED
  BY <1>7 DEF a, b, t, n

LEMMA SubSeqLast ==
    ASSUME NEW S, NEW s \in Seq(S), NEW e \in S
    PROVE  SubSeq(Append(s, e), Len(s) + 1, Len(s) + 1) = <<e>>
<1>1. SubSeq(s, Len(s) + 1, Len(s)) = <<>>
  BY LenProperties, SubSeqEmpty
<1>2. Len(s) \in 0 .. Len(s) /\ Append(<<>>, e) = <<e>>
  BY LenProperties
<1>3. SubSeq(Append(s, e), Len(s) + 1, Len(s) + 1) = Append(SubSeq(s, Len(s) + 1, Len(s)), e)
  BY <1>2, SubSeqAppend
<1>4. QED
  BY <1>1, <1>2, <1>3

-----------------------------------------------------------------------------
(* What ready.json says. *)

\* The phases after the deploy steps, and those after the player was funded.
Funded == {"grants", "export", "write", "rename", "wait"}

PackagesOlder == \A i \in 1 .. Len(chain) : chain[i].package < NextPackage

ReadyInv ==
    /\ PackagesOlder
    /\ pc = "deploy" => Deployed(tries)
    /\ pc \in {"player"} \union Funded => Deployed(Steps)
    /\ pc \in Funded => "player" \in funded
    /\ pc = "rename" => tmp = "whole"
    /\ pc = "wait" => ready = "whole"
    /\ pc \notin {"wait", "exit"} => ready = "none"

\* There is a next package in every phase.
LEMMA NextPackageNat == ASSUME TypeInv PROVE NextPackage \in Nat
<1>1. CASE chain = <<>>
  <2>1. NextPackage = 1 + 0
    BY <1>1, Zenon DEF NextPackage
  <2>2. QED
    BY <2>1
<1>2. CASE chain # <<>>
  <2>1. Len(chain) \in 1 .. Len(chain)
    BY <1>2 DEF TypeInv, BootTypeOK
  <2>2. chain[Len(chain)].package \in Nat
    BY <2>1, ChainType, BudgetAssumption
  <2>3. NextPackage = 1 + chain[Len(chain)].package
    BY <1>2, Zenon DEF NextPackage
  <2>4. QED
    BY <2>2, <2>3
<1>3. QED
  BY <1>1, <1>2

\* A transaction that lands is the last; its package is the newest, or the one
\* the script is at, which is.
LEMMA LandsNewest ==
    ASSUME TypeInv, ReadyInv, NEW p \in 1 .. PublishTries, NEW i \in 0 .. Steps, Lands(p, i),
           p + 1 >= NextPackage
    PROVE  PackagesOlder'
<1>1. chain \in Seq(Transactions)
  BY DEF TypeInv, BootTypeOK
<1>2. /\ Len(chain) \in Nat /\ Len(chain') = Len(chain) + 1
      /\ \A j \in 1 .. Len(chain) : chain'[j] = chain[j]
      /\ chain'[Len(chain) + 1].package = p
  BY <1>1, LandsType
<1>3. NextPackage' = 1 + p
  <2>1. chain' # <<>>
    BY <1>1, <1>2
  <2>2. QED
    BY <1>2, <2>1 DEF NextPackage
<1>4. ASSUME NEW j \in 1 .. Len(chain) PROVE chain'[j].package < 1 + p
  <2>1. chain[j].package \in 1 .. PublishTries /\ chain[j].package < NextPackage
    BY <1>4, ChainType DEF ReadyInv, PackagesOlder
  <2>2. NextPackage \in Nat
    BY NextPackageNat
  <2>3. QED
    BY <1>2, <2>1, <2>2, BudgetAssumption
<1>5. QED
  BY <1>2, <1>3, <1>4, BudgetAssumption DEF PackagesOlder

\* Publishing starts what is deployed: no transaction has the package yet.
LEMMA PublishDeploys ==
    ASSUME TypeInv, ReadyInv, PublishSucceeds
    PROVE  Deployed(tries)'
<1> DEFINE e == [package |-> NextPackage, step |-> 0]
<1>1. chain \in Seq(Transactions) /\ e \in Transactions
  BY NextPackageType, TransactionType, BudgetAssumption
     DEF TypeInv, BootTypeOK, PublishSucceeds
<1>2. /\ chain' = Append(chain, e) /\ objects' = <<e>>
      /\ package' = NextPackage /\ tries' = 0
  BY DEF PublishSucceeds, Lands, Enter
<1>3. package' # 0
  BY NextPackageType, BudgetAssumption DEF PublishSucceeds
<1>4. objects' = [i \in 1 .. 0 + 1 |-> [package |-> package', step |-> i - 1]]
  <2>1. <<e>> = [i \in 1 .. 1 |-> e]
    OBVIOUS
  <2>2. \A i \in 1 .. 1 : [package |-> NextPackage, step |-> i - 1] = e
    OBVIOUS
  <2>3. QED
    BY <1>2, <2>1, <2>2
<1>5. Len(chain) \in 0 .. Len(chain') /\ SubSeq(chain', Len(chain) + 1, Len(chain')) = objects'
  <2> HIDE DEF e
  <2>1. Len(chain) \in Nat /\ Len(chain') = Len(chain) + 1
    BY <1>1, <1>2
  <2>2. SubSeq(Append(chain, e), Len(chain) + 1, Len(chain) + 1) = <<e>>
    BY <1>1, SubSeqLast
  <2>3. QED
    BY <1>2, <2>1, <2>2
<1>6. \A i \in 1 .. Len(chain) : chain'[i].package # package'
  <2>1. ASSUME NEW i \in 1 .. Len(chain) PROVE chain'[i].package # package'
    <3>1. chain'[i] = chain[i]
      BY <1>1, <1>2
    <3>2. chain[i].package \in Nat /\ chain[i].package < NextPackage
      BY ChainType, BudgetAssumption DEF ReadyInv, PackagesOlder
    <3>3. QED
      BY <1>2, <3>1, <3>2, NextPackageNat
  <2>2. QED
    BY <2>1
<1>7. QED
  BY <1>2, <1>3, <1>4, <1>5, <1>6 DEF Deployed

\* A deploy step continues it.
LEMMA StepDeploys ==
    ASSUME TypeInv, Deployed(tries), DeployStep
    PROVE  Deployed(tries)'
<1> DEFINE e == [package |-> package, step |-> tries + 1]
<1>1. /\ chain \in Seq(Transactions) /\ objects \in Seq(Transactions)
      /\ tries \in Nat /\ e \in Transactions
  BY TransactionType, BudgetAssumption DEF TypeInv, BootTypeOK, DeployStep
<1>2. /\ chain' = Append(chain, e) /\ objects' = Append(objects, e)
      /\ tries' = tries + 1 /\ UNCHANGED package
  BY DEF DeployStep, Lands, Again
<1>3. package' # 0
  BY <1>2 DEF Deployed
<1>4. objects' = [i \in 1 .. (tries + 1) + 1 |-> [package |-> package', step |-> i - 1]]
  <2>1. objects = [i \in 1 .. tries + 1 |-> [package |-> package, step |-> i - 1]]
    BY DEF Deployed
  <2>2. Len(objects) = tries + 1
    BY <1>1, <2>1
  <2>3. \A i \in 1 .. tries + 1 : objects'[i] = [package |-> package, step |-> i - 1]
    BY <1>1, <1>2, <2>1, <2>2
  <2>4. objects'[(tries + 1) + 1] = [package |-> package, step |-> ((tries + 1) + 1) - 1]
    BY <1>1, <1>2, <2>2
  <2>5. objects' = [i \in 1 .. (tries + 1) + 1 |-> objects'[i]]
    BY <1>1, <1>2, <2>2
  <2>6. \A i \in 1 .. (tries + 1) + 1 :
           objects'[i] = [package |-> package, step |-> i - 1]
    BY <1>1, <2>3, <2>4
  <2>7. QED
    BY <1>2, <2>5, <2>6
<1>5. PICK k \in 0 .. Len(chain) :
         /\ SubSeq(chain, k + 1, Len(chain)) = objects
         /\ \A i \in 1 .. k : chain[i].package # package
  BY DEF Deployed
<1> HIDE DEF e
<1>6. k \in 0 .. Len(chain') /\ SubSeq(chain', k + 1, Len(chain')) = objects'
  <2>1. Len(chain) \in Nat /\ Len(chain') = Len(chain) + 1
    BY <1>1, <1>2
  <2>2. SubSeq(Append(chain, e), k + 1, Len(chain) + 1)
           = Append(SubSeq(chain, k + 1, Len(chain)), e)
    BY <1>1, SubSeqAppend
  <2>3. k \in 0 .. Len(chain')
    BY <1>5, <2>1
  <2>4. SubSeq(chain', k + 1, Len(chain')) = Append(objects, e)
    BY <1>2, <1>5, <2>1, <2>2, Zenon
  <2>5. QED
    BY <1>2, <2>3, <2>4
<1>7. \A i \in 1 .. k : chain'[i].package # package'
  BY <1>1, <1>2, <1>5
<1>8. QED
  BY <1>2, <1>3, <1>4, <1>6, <1>7 DEF Deployed

\* What is deployed is at the end of the chain.
LEMMA DeployedLast ==
    ASSUME TypeInv, Deployed(tries)
    PROVE  NextPackage = 1 + package
<1>1. chain \in Seq(Transactions) /\ tries \in Nat
  BY DEF TypeInv, BootTypeOK
<1>2. PICK k \in 0 .. Len(chain) : SubSeq(chain, k + 1, Len(chain)) = objects
  BY DEF Deployed
<1>3. objects = [i \in 1 .. tries + 1 |-> [package |-> package, step |-> i - 1]]
  BY DEF Deployed
<1>4. Len(objects) = tries + 1 /\ objects[tries + 1].package = package
  BY <1>1, <1>3
<1>5. /\ Len(chain) \in Nat /\ \A i \in k + 1 .. Len(chain) : chain[i] \in Transactions
      /\ k + 1 \in Int
  BY <1>1, LenProperties
<1>6. /\ Len(objects) = IF k + 1 <= Len(chain) THEN Len(chain) - (k + 1) + 1 ELSE 0
      /\ \A i \in 1 .. Len(chain) - (k + 1) + 1 : objects[i] = chain[(k + 1) + i - 1]
  BY <1>2, <1>5, SubSeqProperties
<1>7. Len(chain) # 0 /\ objects[tries + 1] = chain[Len(chain)]
  <2>1. k + 1 <= Len(chain) /\ tries + 1 = Len(chain) - (k + 1) + 1
    BY <1>1, <1>4, <1>5, <1>6
  <2>2. tries + 1 \in 1 .. Len(chain) - (k + 1) + 1 /\ (k + 1) + (tries + 1) - 1 = Len(chain)
    BY <1>1, <1>5, <2>1
  <2>3. QED
    BY <1>5, <1>6, <2>1, <2>2
<1>8. chain # <<>>
  BY <1>7
<1>9. QED
  BY <1>4, <1>7, <1>8 DEF NextPackage

\* A step of the script brings ready.json nearer or leaves it as it is.
LEMMA ReadyScript == ASSUME TypeInv, ReadyInv, Script PROVE ReadyInv'
<1> USE BudgetAssumption
<1> USE DEF files, nodeVars, Funded
<1>0. /\ pc \notin {"wait", "exit"} => ready = "none"
      /\ pc = "rename" => tmp = "whole"
      /\ pc = "wait" => ready = "whole"
  BY DEF ReadyInv
<1>1. ASSUME UNCHANGED <<chain, package, objects, funded>>,
             \/ pc' = pc /\ (pc = "deploy" => tries' = tries)
             \/ pc' \in {"keys", "deployer", "exit"}
             \/ pc' = "publish" /\ pc = "deployer"
             \/ pc' = "player" /\ pc = "deploy" /\ tries = Steps
             \/ pc' = "grants" /\ pc = "player" /\ pc \in funded
             \/ pc' = "export" /\ pc = "grants"
             \/ pc' = "write" /\ pc = "export"
             \/ pc' = "rename" /\ pc = "write" /\ tmp' = "whole"
             \/ pc' = "wait" /\ pc = "rename" /\ ready' = "whole",
             pc' = "wait" => ready' = "whole",
             pc' = "rename" => tmp' = "whole",
             pc' \notin {"wait", "exit"} => ready' = "none"
      PROVE  ReadyInv'
  <2>1. PackagesOlder'
    BY <1>1 DEF ReadyInv, PackagesOlder, NextPackage
  <2>2. Deployed(Steps) => Deployed(Steps)'
    BY <1>1 DEF Deployed
  <2>3. tries' = tries /\ Deployed(tries) => Deployed(tries)'
    BY <1>1 DEF Deployed
  <2>4. pc' = "deploy" => Deployed(tries)'
    BY <1>1, <2>3 DEF ReadyInv
  <2>5. pc' \in {"player"} \union Funded => Deployed(Steps)'
    BY <1>1, <2>2 DEF ReadyInv
  <2>6. pc' \in Funded => "player" \in funded'
    BY <1>1 DEF ReadyInv
  <2>7. QED
    BY <1>1, <2>1, <2>4, <2>5, <2>6 DEF ReadyInv
<1> USE <1>0
<1>2. CASE RpcAnswers \/ RpcSilent \/ RpcFails \/ Keys
  BY <1>1, <1>2 DEF RpcAnswers, RpcSilent, RpcFails, Keys, Enter, Again
<1>3. CASE GasThere \/ GasMissing
  BY <1>1, <1>3 DEF GasThere, GasMissing, faucet, Funding, Addresses, Enter, Again
<1>4. CASE PublishSucceeds
  <2>1. Lands(NextPackage, 0) /\ NextPackage \in 1 .. PublishTries /\ 0 \in 0 .. Steps
    BY <1>4, NextPackageType DEF PublishSucceeds
  <2>2. PackagesOlder'
    BY <2>1, LandsNewest, NextPackageNat
  <2>3. pc' = "deploy" /\ ready' = ready /\ ready = "none"
    BY <1>4 DEF PublishSucceeds, Enter, ReadyInv
  <2>4. QED
    BY <1>4, <2>2, <2>3, PublishDeploys DEF ReadyInv
<1>5. CASE PublishFails
  <2>1. CASE UNCHANGED chain
    BY <1>1, <1>5, <2>1 DEF PublishFails, Again
  <2>2. CASE Lands(NextPackage, 0)
    <3>1. NextPackage \in 1 .. PublishTries /\ 0 \in 0 .. Steps
      BY <1>5, NextPackageType DEF PublishFails
    <3>2. PackagesOlder'
      BY <2>2, <3>1, LandsNewest, NextPackageNat
    <3>3. QED
      BY <1>5, <3>2 DEF PublishFails, Again, ReadyInv
  <2>3. QED
    BY <1>5, <2>1, <2>2 DEF PublishFails
<1>6. CASE PublishGivesUp \/ DeployEnds
  BY <1>1, <1>6 DEF PublishGivesUp, DeployEnds, Enter
<1>7. ASSUME pc = "deploy", tries < Steps, Lands(package, tries + 1)
      PROVE  PackagesOlder'
  <2>1. package \in 1 .. PublishTries /\ tries + 1 \in 0 .. Steps
    BY <1>7 DEF TypeInv, BootTypeOK
  <2>2. NextPackage = 1 + package
    BY <1>7, DeployedLast DEF ReadyInv
  <2>3. QED
    BY <1>7, <2>1, <2>2, LandsNewest
<1>8. CASE DeployStep
  <2>1. PackagesOlder'
    BY <1>7, <1>8 DEF DeployStep
  <2>2. Deployed(tries)'
    BY <1>8, StepDeploys DEF DeployStep, ReadyInv
  <2>3. QED
    BY <1>8, <2>1, <2>2 DEF DeployStep, Again, ReadyInv
<1>9. CASE DeployFails
  <2>1. CASE UNCHANGED chain
    BY <1>1, <1>9, <2>1 DEF DeployFails, Enter
  <2>2. CASE tries < Steps /\ Lands(package, tries + 1)
    BY <1>7, <1>9, <2>2 DEF DeployFails, Enter, ReadyInv
  <2>3. QED
    BY <1>9, <2>1, <2>2 DEF DeployFails
<1>10. CASE Grant \/ GrantsEnd \/ Export
  BY <1>1, <1>10 DEF Grant, GrantsEnd, Export, faucet, Enter, Again
<1>11. CASE Write \/ Rename \/ NodeGone
  BY <1>1, <1>11 DEF Write, Rename, NodeGone, Enter
<1>12. QED
  BY <1>2, <1>3, <1>4, <1>5, <1>6, <1>8, <1>9, <1>10, <1>11 DEF Script

\* What ready.json says is whole and true, whatever failed before it was
\* written and however often: a package of which the chain has every deploy
\* step, once and in order, their objects and no others, and a player with gas.
THEOREM ReadyAlwaysComplete == Spec => []ReadyIsComplete
<1>1. Init => TypeInv /\ ReadyInv
  BY BudgetAssumption
     DEF Init, TypeInv, BootTypeOK, Phases, ReadyInv, PackagesOlder, Funded
<1>2. TypeInv /\ ReadyInv /\ [Next]_vars => ReadyInv'
  <2>1. ASSUME ReadyInv, TypeInv, NodeStep \/ UNCHANGED vars PROVE ReadyInv'
    <3>1. UNCHANGED scriptVars /\ UNCHANGED chain /\ funded \subseteq funded'
      BY <2>1 DEF NodeStep, vars, nodeVars
    <3>2. PackagesOlder' /\ (Deployed(Steps) => Deployed(Steps)')
                         /\ (Deployed(tries) => Deployed(tries)')
      BY <2>1, <3>1 DEF ReadyInv, PackagesOlder, NextPackage, Deployed, scriptVars
    <3>3. QED
      BY <2>1, <3>1, <3>2 DEF ReadyInv, scriptVars
  <2>2. QED
    BY <2>1, ReadyScript DEF Next
<1>3. TypeInv /\ ReadyInv => ReadyIsComplete
  <2> SUFFICES ASSUME TypeInv, ReadyInv, pc # "exit", ready # "none"
               PROVE  ready = "whole" /\ Deployed(Steps) /\ "player" \in funded
    BY DEF ReadyIsComplete, Running
  <2>1. pc = "wait"
    BY DEF ReadyInv
  <2>2. QED
    BY <2>1 DEF ReadyInv, Funded
<1>4. QED
  BY <1>1, <1>2, <1>3, TypeInvHolds, PTL DEF Spec
=============================================================================
