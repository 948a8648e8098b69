--------------------------- MODULE NumeralProofs ---------------------------
(***************************************************************************)
(* Numbers and their digits: induction, division, powers of two, and the   *)
(* value of a sequence of digits.                                          *)
(***************************************************************************)
EXTENDS Numerals, WellFoundedInduction, SequenceTheorems, FiniteSetTheorems, TLAPS

(* Induction, of a set of numbers instead of a predicate: what is to be      *)
(* shown of every number defines the set of those that have it.              *)

\* A set of numbers that is not empty has a least one.
LEMMA LeastNumber ==
    ASSUME NEW T \in SUBSET Nat, T # {}
    PROVE  \E n \in T : \A m \in T : n <= m
<1> DEFINE R == OpToRel(<, Nat)
<1>1. IsWellFoundedOn(R, Nat)
  BY NatLessThanWellFounded
<1>2. \A x, y \in Nat : y < x => <<y, x>> \in R
  BY DEF OpToRel
<1> HIDE DEF R
<1>3. \E x \in T : \A y \in T : ~(<<y, x>> \in R)
  BY <1>1, WFMin
<1>4. PICK n \in T : \A m \in T : ~(<<m, n>> \in R)
  BY <1>3
<1>5. ASSUME NEW m \in T PROVE n <= m
  <2>1. ~(m < n)
    BY <1>2, <1>4
  <2>2. QED
    BY <2>1
<1>6. QED
  BY <1>5

\* A set that contains a number if it contains all smaller ones has them all.
LEMMA StrongInduction ==
    ASSUME NEW T \in SUBSET Nat,
           \A n \in Nat : (\A m \in Nat : m < n => m \in T) => n \in T
    PROVE  T = Nat
<1> SUFFICES ASSUME Nat \ T # {} PROVE FALSE
  OBVIOUS
<1>1. PICK n \in Nat \ T : \A m \in Nat \ T : n <= m
  BY LeastNumber
<1>2. \A m \in Nat : m < n => m \in T
  BY <1>1
<1>3. QED
  BY <1>1, <1>2

\* A set that contains 0, and with a number the next, has them all.
LEMMA SimpleInduction ==
    ASSUME NEW T \in SUBSET Nat, 0 \in T, \A n \in T : n + 1 \in T
    PROVE  T = Nat
<1>1. ASSUME NEW n \in Nat, \A m \in Nat : m < n => m \in T PROVE n \in T
  <2>1. CASE n = 0
    BY <2>1
  <2>2. CASE n # 0
    <3>1. n - 1 \in Nat /\ n - 1 < n
      BY <2>2
    <3>2. n - 1 \in T
      BY <1>1, <3>1
    <3>3. (n - 1) + 1 \in T
      BY <3>2
    <3>4. QED
      BY <3>3
  <2>3. QED
    BY <2>1, <2>2
<1>2. QED
  BY <1>1, StrongInduction

-----------------------------------------------------------------------------
(* Division. *)

\* A product grows with its second factor.
LEMMA MulMono ==
    ASSUME NEW p \in Nat, NEW a \in Nat, NEW c \in Nat, a <= c PROVE p * a <= p * c
BY SMT

\* What \div and % are.
LEMMA Quotient ==
    ASSUME NEW a \in Nat, NEW p \in Nat \ {0}
    PROVE  /\ a \div p \in Nat /\ a % p \in 0 .. p - 1
           /\ a = p * (a \div p) + (a % p)
           /\ a \div p = 0 <=> a < p
BY SMT

\* And nothing else is.
LEMMA QuotientIs ==
    ASSUME NEW p \in Nat \ {0}, NEW q \in Nat, NEW r \in 0 .. p - 1
    PROVE  (p * q + r) \div p = q
<1> DEFINE a == p * q + r
           d == a \div p
<1>0. a \in Nat
  BY SMT
<1>1. d \in Nat /\ a % p \in 0 .. p - 1 /\ a = p * d + (a % p)
  BY <1>0, Quotient
<1> DEFINE s == a % p
<1>2. p * d + s = p * q + r /\ s \in 0 .. p - 1
  BY <1>1
<1> HIDE DEF a, d, s
<1>3. CASE d < q
  <2>1. p * (d + 1) <= p * q
    BY <1>1, <1>3, MulMono
  <2>2. p * (d + 1) = p * d + p
    BY <1>1, SMT
  <2>3. p * d \in Nat /\ p * q \in Nat
    BY <1>1, SMT
  <2>4. QED
    BY <1>1, <1>2, <2>1, <2>2, <2>3
<1>4. CASE q < d
  <2>1. p * (q + 1) <= p * d
    BY <1>1, <1>4, MulMono
  <2>2. p * (q + 1) = p * q + p
    BY <1>1, SMT
  <2>3. p * d \in Nat /\ p * q \in Nat
    BY <1>1, SMT
  <2>4. QED
    BY <1>1, <1>2, <2>1, <2>2, <2>3
<1>5. QED
  BY <1>1, <1>3, <1>4 DEF d, a

\* Dividing in two steps.
LEMMA QuotientOfQuotient ==
    ASSUME NEW a \in Nat, NEW p \in Nat \ {0}, NEW q \in Nat \ {0}
    PROVE  (a \div p) \div q = a \div (p * q)
<1> DEFINE c == a \div p
           d == c \div q
<1>1. c \in Nat /\ a % p \in 0 .. p - 1 /\ a = p * c + (a % p)
  BY Quotient
<1>2. d \in Nat /\ c % q \in 0 .. q - 1 /\ c = q * d + (c % q)
  BY <1>1, Quotient
<1> DEFINE r == a % p
           s == c % q
<1>3. r \in 0 .. p - 1 /\ s \in 0 .. q - 1 /\ a = p * c + r /\ c = q * d + s
  BY <1>1, <1>2
<1> HIDE DEF c, d, r, s
<1>4. a = (p * q) * d + (p * s + r)
  BY <1>1, <1>2, <1>3, SMT
<1>5. p * s + r \in 0 .. p * q - 1
  <2>1. p * (s + 1) <= p * q
    BY <1>3, MulMono
  <2>2. p * (s + 1) = p * s + p /\ p * s \in Nat /\ p * q \in Nat
    BY <1>3, SMT
  <2>3. QED
    BY <1>3, <2>1, <2>2
<1>6. p * q \in Nat \ {0}
  BY SMT
<1>7. a \div (p * q) = d
  <2> DEFINE t == p * s + r
             u == p * q
  <2>1. t \in 0 .. u - 1 /\ u \in Nat \ {0} /\ a = u * d + t
    BY <1>4, <1>5, <1>6
  <2> HIDE DEF t, u
  <2>2. a \div u = d
    BY <1>2, <2>1, QuotientIs
  <2>3. QED
    BY <2>2 DEF u
<1>8. QED
  BY <1>7 DEF c, d

\* Multiples of the divisor pass.
LEMMA QuotientOfSum ==
    ASSUME NEW a \in Nat, NEW c \in Nat, NEW p \in Nat \ {0}
    PROVE  (p * a + c) \div p = a + (c \div p)
<1> DEFINE d == c \div p
           r == c % p
<1>1. d \in Nat /\ r \in 0 .. p - 1 /\ c = p * d + r
  BY Quotient
<1> HIDE DEF d, r
<1>2. p * a + c = p * (a + d) + r
  BY <1>1, SMT
<1>3. (p * (a + d) + r) \div p = a + d
  <2>1. a + d \in Nat
    BY <1>1
  <2>2. QED
    BY <1>1, <2>1, QuotientIs
<1>4. QED
  BY <1>2, <1>3 DEF d

\* The next power of two, by counting subsets.
LEMMA Doubles ==
    ASSUME NEW n \in Nat
    PROVE  2^(n + 1) = 2 * 2^n
<1> DEFINE S == SUBSET (1 .. n)
           T == {A \in SUBSET (1 .. n + 1) : n + 1 \in A}
<1>1. IsFiniteSet(S) /\ Cardinality(S) = 2^n
  <2>1. IsFiniteSet(1 .. n) /\ Cardinality(1 .. n) = n
    BY FS_Interval
  <2>2. QED
    BY <2>1, FS_SUBSET
<1>2. IsFiniteSet(1 .. n + 1) /\ Cardinality(1 .. n + 1) = n + 1
  BY FS_Interval
<1>3. Cardinality(SUBSET (1 .. n + 1)) = 2^(n + 1)
  BY <1>2, FS_SUBSET
<1>4. S \union T = SUBSET (1 .. n + 1) /\ S \intersect T = {}
  OBVIOUS
<1>5. IsFiniteSet(T) /\ Cardinality(T) = Cardinality(S)
  <2> DEFINE f == [A \in S |-> A \union {n + 1}]
  <2>1. f \in [S -> T]
    OBVIOUS
  <2>2. ASSUME NEW A \in S, NEW C \in S, f[A] = f[C] PROVE A = C
    <3>1. A \union {n + 1} = C \union {n + 1} /\ n + 1 \notin A /\ n + 1 \notin C
      BY <2>2
    <3>2. QED
      BY <3>1
  <2>3. ASSUME NEW A \in T PROVE \E C \in S : f[C] = A
    <3>1. A \ {n + 1} \in S /\ (A \ {n + 1}) \union {n + 1} = A
      OBVIOUS
    <3>2. QED
      BY <3>1
  <2> HIDE DEF f, S, T
  <2>4. f \in Bijection(S, T)
    BY <2>1, <2>2, <2>3 DEF Bijection, Injection, Surjection, IsInjective
  <2>5. ExistsBijection(S, T)
    BY <2>4 DEF ExistsBijection
  <2>6. QED
    BY <1>1, <2>5, FS_Bijection
<1> HIDE DEF S, T
<1>6. Cardinality(S \union T) = Cardinality(S) + Cardinality(T) - Cardinality(S \intersect T)
  BY <1>1, <1>5, FS_Union
<1>7. Cardinality(S \intersect T) = 0 /\ Cardinality(S) \in Nat
  BY <1>1, <1>4, FS_EmptySet, FS_CardinalityType
<1>8. Cardinality(S \union T) = 2 * Cardinality(S)
  BY <1>5, <1>6, <1>7
<1>9. QED
  BY <1>1, <1>3, <1>4, <1>8, Zenon

LEMMA PowerPositive ==
    ASSUME NEW n \in Nat
    PROVE  2^n \in Nat \ {0}
<1> DEFINE T == {m \in Nat : 2^m \in Nat \ {0}}
<1>1. 0 \in T
  OBVIOUS
<1>2. ASSUME NEW m \in T PROVE m + 1 \in T
  <2>1. m \in Nat /\ 2^m \in Nat \ {0}
    BY <1>2
  <2>2. 2^(m + 1) = 2 * 2^m
    BY <2>1, Doubles
  <2>3. 2^(m + 1) \in Nat \ {0}
    BY <2>1, <2>2
  <2>4. QED
    BY <2>1, <2>3
<1>3. T = Nat
  <2> HIDE DEF T
  <2>1. T \in SUBSET Nat
    BY DEF T
  <2>2. QED
    BY <1>1, <1>2, <2>1, SimpleInduction
<1>4. QED
  BY <1>3

LEMMA PowerOfSum ==
    ASSUME NEW m \in Nat, NEW n \in Nat
    PROVE  2^(m + n) = 2^m * 2^n
<1> DEFINE T == {k \in Nat : 2^(m + k) = 2^m * 2^k}
<1>1. 0 \in T
  <2>1. 2^m \in Nat /\ m + 0 = m /\ 2^0 = 1
    BY PowerPositive
  <2>2. 2^(m + 0) = 2^m * 2^0
    BY <2>1
  <2>3. QED
    BY <2>2
<1>2. ASSUME NEW k \in T PROVE k + 1 \in T
  <2>1. k \in Nat /\ 2^(m + k) = 2^m * 2^k
    BY <1>2
  <2>2. 2^(k + 1) = 2 * 2^k /\ 2^((m + k) + 1) = 2 * 2^(m + k)
    BY <2>1, Doubles
  <2>3. 2^m \in Nat /\ 2^k \in Nat
    BY <2>1, PowerPositive
  <2>4. 2 * (2^m * 2^k) = 2^m * (2 * 2^k)
    BY <2>3, SMT
  <2>5. m + (k + 1) = (m + k) + 1
    BY <2>1
  <2>6. 2^(m + (k + 1)) = 2^m * 2^(k + 1)
    BY <2>1, <2>2, <2>4, <2>5, Zenon
  <2>7. QED
    BY <2>1, <2>6
<1>3. T = Nat
  <2> HIDE DEF T
  <2>1. T \in SUBSET Nat
    BY DEF T
  <2>2. QED
    BY <1>1, <1>2, <2>1, SimpleInduction
<1>4. QED
  BY <1>3

LEMMA PowerGrows ==
    ASSUME NEW m \in Nat, NEW n \in Nat, m <= n
    PROVE  2^m <= 2^n
<1>1. n - m \in Nat /\ m + (n - m) = n
  OBVIOUS
<1>2. 2^n = 2^m * 2^(n - m)
  BY <1>1, PowerOfSum
<1>3. 2^m \in Nat /\ 2^(n - m) \in Nat \ {0}
  BY <1>1, PowerPositive
<1>4. 2^m * 1 <= 2^m * 2^(n - m) /\ 2^m * 1 = 2^m
  BY <1>3, MulMono
<1>5. QED
  BY <1>2, <1>4

-----------------------------------------------------------------------------
(* Value. *)

\* f reads the prefixes of s.
Reads(f, base, s) ==
    f = [k \in 0 .. Len(s) |-> IF k = 0 THEN 0 ELSE base * f[k - 1] + s[k]]

LEMMA ReadsStep ==
    ASSUME NEW base, NEW s, NEW f, Reads(f, base, s), Len(s) \in Nat
    PROVE  /\ f[0] = 0
           /\ \A k \in Nat : k + 1 <= Len(s) => f[k + 1] = base * f[k] + s[k + 1]
<1>1. \A k \in 0 .. Len(s) : f[k] = IF k = 0 THEN 0 ELSE base * f[k - 1] + s[k]
  BY Zenon DEF Reads
<1>2. ASSUME NEW k \in Nat, k + 1 <= Len(s)
      PROVE  f[k + 1] = base * f[k] + s[k + 1]
  <2>1. k + 1 \in 0 .. Len(s) /\ k + 1 # 0 /\ (k + 1) - 1 = k
    BY <1>2
  <2>2. f[k + 1] = IF k + 1 = 0 THEN 0 ELSE base * f[(k + 1) - 1] + s[k + 1]
    BY <1>1, <2>1, Zenon
  <2>3. QED
    BY <2>1, <2>2, Zenon
<1>3. 0 \in 0 .. Len(s)
  OBVIOUS
<1>4. QED
  BY <1>1, <1>2, <1>3

\* What reads the prefixes of s has one value for each, which depends on that
\* prefix alone.
LEMMA ReadsPrefix ==
    ASSUME NEW base \in Nat, NEW s \in Seq(Nat), NEW t \in Seq(Nat),
           NEW f, NEW g, Reads(f, base, s), Reads(g, base, t),
           NEW m \in 0 .. Len(s), m <= Len(t), \A i \in 1 .. m : s[i] = t[i]
    PROVE  f[m] = g[m] /\ f[m] \in Nat
<1> DEFINE T == {k \in Nat : k <= m => f[k] = g[k] /\ f[k] \in Nat}
<1>0. Len(s) \in Nat /\ Len(t) \in Nat
  BY LenProperties
<1>1. 0 \in T
  BY <1>0, ReadsStep
<1>2. ASSUME NEW k \in T PROVE k + 1 \in T
  <2>1. CASE k + 1 <= m
    <3>1. f[k] = g[k] /\ f[k] \in Nat /\ k + 1 \in 1 .. m
      BY <1>2, <2>1
    <3>2. s[k + 1] = t[k + 1] /\ s[k + 1] \in Nat
      BY <1>0, <3>1, ElementOfSeq
    <3>3. f[k + 1] = base * f[k] + s[k + 1] /\ g[k + 1] = base * g[k] + t[k + 1]
      BY <1>0, <2>1, ReadsStep
    <3>4. base * f[k] \in Nat
      BY <3>1
    <3>5. f[k + 1] = g[k + 1]
      BY <3>1, <3>2, <3>3, Zenon
    <3>6. f[k + 1] \in Nat
      BY <3>2, <3>3, <3>4
    <3>7. QED
      BY <1>2, <3>5, <3>6
  <2>2. CASE ~(k + 1 <= m)
    BY <1>2, <2>2
  <2>3. QED
    BY <2>1, <2>2
<1>3. T = Nat
  <2> HIDE DEF T
  <2>1. T \in SUBSET Nat
    BY DEF T
  <2>2. QED
    BY <1>1, <1>2, <2>1, SimpleInduction
<1>4. m \in T
  BY <1>0, <1>3
<1>5. QED
  BY <1>4

LEMMA ReaderExists ==
    ASSUME NEW base \in Nat, NEW s \in Seq(Nat)
    PROVE  \E f : Reads(f, base, s)
<1> DEFINE Upto(f, m) ==
                f = [k \in 0 .. m |-> IF k = 0 THEN 0 ELSE base * f[k - 1] + s[k]]
           T == {m \in Nat : \E f : Upto(f, m)}
<1>1. 0 \in T
  <2>1. Upto([k \in 0 .. 0 |-> 0], 0)
    OBVIOUS
  <2>2. QED
    BY <2>1
<1>2. ASSUME NEW m \in T PROVE m + 1 \in T
  <2>1. PICK f : Upto(f, m)
    BY <1>2
  <2> DEFINE g == [k \in 0 .. m + 1 |-> IF k = m + 1 THEN base * f[m] + s[k] ELSE f[k]]
  <2>2. m \in Nat
    BY <1>2
  <2>3. ASSUME NEW k \in 0 .. m + 1
        PROVE  g[k] = IF k = 0 THEN 0 ELSE base * g[k - 1] + s[k]
    <3>1. CASE k = m + 1
      BY <2>2, <3>1
    <3>2. CASE k # m + 1
      <4>1. k \in 0 .. m /\ g[k] = f[k] /\ (k # 0 => g[k - 1] = f[k - 1])
        BY <2>2, <3>2
      <4>2. f[k] = IF k = 0 THEN 0 ELSE base * f[k - 1] + s[k]
        BY <2>1, <4>1
      <4>3. QED
        BY <4>1, <4>2
    <3>3. QED
      BY <3>1, <3>2
  <2>4. Upto(g, m + 1)
    <3> HIDE DEF g
    <3>1. g = [k \in 0 .. m + 1 |-> g[k]]
      BY DEF g
    <3>2. QED
      BY <2>3, <3>1
  <2> HIDE DEF g, Upto
  <2>5. QED
    BY <2>2, <2>4
<1>3. T = Nat
  <2> HIDE DEF T
  <2>1. T \in SUBSET Nat
    BY DEF T
  <2>2. QED
    BY <1>1, <1>2, <2>1, SimpleInduction
<1>4. Len(s) \in T
  BY <1>3, LenProperties
<1>5. QED
  BY <1>4 DEF Reads

\* Value is what reading comes to.
LEMMA ValueReads ==
    ASSUME NEW base \in Nat, NEW s \in Seq(Nat)
    PROVE  \E f : Reads(f, base, s) /\ Value(base, s) = f[Len(s)]
<1> DEFINE f == CHOOSE g : Reads(g, base, s)
<1>1. Reads(f, base, s)
  BY ReaderExists
<1>2. Value(base, s) = f[Len(s)]
  BY DEF Value, Reads
<1>3. QED
  BY <1>1, <1>2

LEMMA ValueEmpty ==
    ASSUME NEW base \in Nat
    PROVE  Value(base, <<>>) = 0
<1>1. <<>> \in Seq(Nat) /\ Len(<<>>) = 0
  OBVIOUS
<1>2. PICK f : Reads(f, base, <<>>) /\ Value(base, <<>>) = f[0]
  BY <1>1, ValueReads
<1>3. f[0] = 0
  BY <1>1, <1>2 DEF Reads
<1>4. QED
  BY <1>2, <1>3

\* A digit more.
LEMMA ValueAppend ==
    ASSUME NEW base \in Nat, NEW s \in Seq(Nat), NEW d \in Nat
    PROVE  /\ Value(base, s) \in Nat
           /\ Value(base, Append(s, d)) = base * Value(base, s) + d
<1> DEFINE t == Append(s, d)
<1>1. /\ t \in Seq(Nat) /\ Len(t) = Len(s) + 1 /\ t[Len(s) + 1] = d
      /\ \A i \in 1 .. Len(s) : t[i] = s[i]
      /\ Len(s) \in Nat
  BY AppendProperties, LenProperties
<1> HIDE DEF t
<1>2. PICK f : Reads(f, base, s) /\ Value(base, s) = f[Len(s)]
  BY ValueReads
<1>3. PICK g : Reads(g, base, t) /\ Value(base, t) = g[Len(t)]
  BY <1>1, ValueReads
<1>4. f[Len(s)] = g[Len(s)] /\ f[Len(s)] \in Nat
  <2>1. Len(s) \in 0 .. Len(s) /\ Len(s) <= Len(t) /\ \A i \in 1 .. Len(s) : s[i] = t[i]
    BY <1>1
  <2>2. QED
    BY <1>1, <1>2, <1>3, <2>1, ReadsPrefix
<1>5. g[Len(s) + 1] = base * g[Len(s)] + t[Len(s) + 1]
  BY <1>1, <1>3, ReadsStep
<1>6. QED
  BY <1>1, <1>2, <1>3, <1>4, <1>5 DEF t
=============================================================================
