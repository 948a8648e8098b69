--------------------------- MODULE CoercionProofs ---------------------------
(***************************************************************************)
(* Comparing is exact, for all numbers: writing a number as digits and     *)
(* reading it again gives the number.                                      *)
(***************************************************************************)
EXTENDS Coercion, NumeralProofs

Digit == 0 .. 9

-----------------------------------------------------------------------------
(* Digits. *)

\* f writes the numbers up to n.
Writes(f, n) ==
    f = [k \in 0 .. n |-> IF k < 10 THEN <<k>> ELSE Append(f[k \div 10], k % 10)]

\* A tenth of a number, and what is left.
LEMMA Tenth ==
    ASSUME NEW k \in Nat, k >= 10
    PROVE  /\ k \div 10 \in Nat /\ k \div 10 < k
           /\ k % 10 \in Digit /\ k = 10 * (k \div 10) + (k % 10)
BY SMT DEF Digit

LEMMA WriterExists ==
    ASSUME NEW n \in Nat
    PROVE  \E f : Writes(f, n)
<1> DEFINE T == {m \in Nat : \E f : Writes(f, m)}
<1>1. 0 \in T
  <2>1. Writes([k \in 0 .. 0 |-> <<k>>], 0)
    BY DEF Writes
  <2>2. QED
    BY <2>1
<1>2. ASSUME NEW m \in T PROVE m + 1 \in T
  <2>1. PICK f : Writes(f, m)
    BY <1>2
  <2>2. m \in Nat
    BY <1>2
  <2> DEFINE g == [k \in 0 .. m + 1 |->
                      IF k < 10 THEN <<k>> ELSE Append(f[k \div 10], k % 10)]
  <2>3. ASSUME NEW k \in 0 .. m PROVE g[k] = f[k]
    <3>1. k \in 0 .. m + 1
      BY <2>2
    <3>2. f[k] = IF k < 10 THEN <<k>> ELSE Append(f[k \div 10], k % 10)
      BY <2>1 DEF Writes
    <3>3. QED
      BY <3>1, <3>2
  <2>4. ASSUME NEW k \in 0 .. m + 1, k >= 10 PROVE f[k \div 10] = g[k \div 10]
    <3>1. k \div 10 \in 0 .. m
      <4>1. k \in Nat /\ k <= m + 1
        BY <2>2
      <4>2. k \div 10 \in Nat /\ k \div 10 < k
        BY <4>1, <2>4, Tenth
      <4>3. QED
        BY <2>2, <4>1, <4>2
    <3>2. QED
      BY <2>3, <3>1
  <2>5. Writes(g, m + 1)
    <3>1. ASSUME NEW k \in 0 .. m + 1
          PROVE  g[k] = IF k < 10 THEN <<k>> ELSE Append(g[k \div 10], k % 10)
      <4>1. g[k] = IF k < 10 THEN <<k>> ELSE Append(f[k \div 10], k % 10)
        OBVIOUS
      <4> HIDE DEF g
      <4>2. CASE k < 10
        BY <4>1, <4>2
      <4>3. CASE ~(k < 10)
        <5>1. k >= 10
          BY <2>2, <4>3
        <5>2. QED
          BY <2>4, <4>1, <4>3, <5>1
      <4>4. QED
        BY <4>2, <4>3
    <3>2. g = [k \in 0 .. m + 1 |-> g[k]]
      OBVIOUS
    <3> HIDE DEF g
    <3>3. QED
      BY <3>1, <3>2 DEF Writes
  <2> HIDE DEF g
  <2>6. QED
    BY <2>2, <2>5
<1>3. T = Nat
  <2> HIDE DEF T
  <2>1. T \in SUBSET Nat
    BY DEF T
  <2>2. QED
    BY <1>1, <1>2, <2>1, SimpleInduction
<1>4. QED
  BY <1>3

\* Digits is what writing comes to.
LEMMA DigitsWritten ==
    ASSUME NEW n \in Nat
    PROVE  \E f : Writes(f, n) /\ Digits(n) = f[n]
<1> DEFINE f == CHOOSE g : Writes(g, n)
<1>1. Writes(f, n)
  BY WriterExists
<1>2. Digits(n) = f[n]
  BY DEF Digits, Writes
<1>3. QED
  BY <1>1, <1>2

LEMMA DigitsAreNumbers == Digit \subseteq Nat /\ Seq(Digit) \subseteq Seq(Nat)
<1>1. Digit \subseteq Nat
  BY DEF Digit
<1>2. ASSUME NEW s \in Seq(Digit) PROVE s \in Seq(Nat)
  <2>1. Len(s) \in Nat /\ s \in [1 .. Len(s) -> Digit]
    BY LenProperties
  <2>2. s \in [1 .. Len(s) -> Nat]
    BY <1>1, <2>1
  <2>3. QED
    BY <2>1, <2>2, IsASeq
<1>3. QED
  BY <1>1, <1>2

\* Whatever is written reads back, by induction on the number.
LEMMA ReadsBack ==
    ASSUME NEW n \in Nat, NEW f, Writes(f, n)
    PROVE  \A k \in 0 .. n : f[k] \in Seq(Digit) /\ f[k] # <<>> /\ Value(10, f[k]) = k
<1> DEFINE Back(k) == f[k] \in Seq(Digit) /\ f[k] # <<>> /\ Value(10, f[k]) = k
           T == {k \in Nat : k <= n => Back(k)}
<1>1. ASSUME NEW k \in Nat, \A m \in Nat : m < k => m \in T PROVE k \in T
  <2> SUFFICES ASSUME k <= n PROVE Back(k)
    OBVIOUS
  <2>1. CASE k < 10
    <3>1. f[k] = Append(<<>>, k) /\ k \in Digit /\ <<>> \in Seq(Digit) /\ <<>> \in Seq(Nat)
      <4>1. f[k] = <<k>> /\ k \in Digit
        BY <2>1 DEF Writes, Digit
      <4>2. QED
        BY <4>1
    <3>2. Value(10, f[k]) = 10 * Value(10, <<>>) + k
      <4>1. 10 \in Nat
        OBVIOUS
      <4>2. Value(10, Append(<<>>, k)) = 10 * Value(10, <<>>) + k
        BY <3>1, <4>1, ValueAppend
      <4>3. QED
        BY <3>1, <4>2
    <3>3. f[k] \in Seq(Digit) /\ f[k] # <<>>
      BY <3>1, AppendProperties
    <3>4. Value(10, <<>>) = 0
      BY ValueEmpty
    <3>5. Value(10, f[k]) = k
      BY <3>2, <3>4
    <3>6. QED
      BY <3>3, <3>5
  <2>2. CASE k >= 10
    <3> DEFINE q == k \div 10
               d == k % 10
    <3>1. q \in Nat /\ q < k /\ d \in Digit /\ k = 10 * q + d
      BY <2>2, Tenth
    <3>2. f[k] = Append(f[q], d)
      <4>1. k \in 0 .. n /\ ~(k < 10)
        BY <2>2
      <4>2. QED
        BY <4>1 DEF Writes
    <3> HIDE DEF q, d
    <3>3. Back(q)
      BY <1>1, <3>1
    <3>4. Value(10, f[k]) = 10 * Value(10, f[q]) + d
      BY <3>1, <3>2, <3>3, ValueAppend, DigitsAreNumbers
    <3>5. f[k] \in Seq(Digit) /\ f[k] # <<>>
      BY <3>1, <3>2, <3>3, AppendProperties
    <3>6. QED
      BY <3>1, <3>3, <3>4, <3>5
  <2>3. QED
    BY <2>1, <2>2
<1>2. T = Nat
  <2> HIDE DEF T
  <2>1. T \in SUBSET Nat
    BY DEF T
  <2>2. QED
    BY <1>1, <2>1, StrongInduction
<1>3. QED
  BY <1>2

\* Writing a number as its digits and reading those gives the number.
THEOREM DigitsReadBack ==
    ASSUME NEW n \in Nat
    PROVE  Digits(n) \in Seq(Digit) /\ Digits(n) # <<>> /\ Value(10, Digits(n)) = n
<1>1. PICK f : Writes(f, n) /\ Digits(n) = f[n]
  BY DigitsWritten
<1>2. QED
  BY <1>1, ReadsBack

-----------------------------------------------------------------------------
(* Compare. *)

\* A number compares as a number, written either way.
LEMMA NumbersExact ==
    ASSUME NEW x \in Nat, NEW n \in Nat, NEW op,
           NEW a, a = [kind |-> "int", of |-> x] \/ a = [kind |-> "str", of |-> Digits(x)],
           NEW b, b = [kind |-> "int", of |-> n] \/ b = [kind |-> "str", of |-> Digits(n)]
    PROVE  Compare(op, a, b) = Holds(op, x = n, x < n)
<1>1. ASSUME NEW m \in Nat, NEW v,
             v = [kind |-> "int", of |-> m] \/ v = [kind |-> "str", of |-> Digits(m)]
      PROVE  is_int(v) /\ int(v) = m
  <2>1. CASE v = [kind |-> "int", of |-> m]
    BY <2>1 DEF is_int, int
  <2>2. CASE v = [kind |-> "str", of |-> Digits(m)]
    <3>1. ToSet(Digits(m)) \subseteq Digit
      BY DigitsReadBack, RangeOfSeq DEF ToSet, Range
    <3>2. v.kind = "str" /\ v.of = Digits(m)
      BY <2>2
    <3>3. QED
      BY <3>1, <3>2, DigitsReadBack DEF is_int, int, Digit
  <2>3. QED
    BY <1>1, <2>1, <2>2
<1>2. is_int(a) /\ int(a) = x
  BY <1>1
<1>3. is_int(b) /\ int(b) = n
  BY <1>1
<1>4. QED
  BY <1>2, <1>3 DEF Compare

\* The comparisons of every field a manifest may name, of any value.
THEOREM ComparisonsExact ==
    /\ \A type \in {"u64", "u32"} : \A x, n \in Nat : \A op :
          \A v \in Written([type |-> type, is |-> n]) : Exact(type, op, x, v, n)
    /\ \A type \in {"bool", "address"}, op \in {"eq", "ne"} : \A x, n \in Nat :
          \A v \in Written([type |-> type, is |-> n]) : Exact(type, op, x, v, n)
<1>1. ASSUME NEW type \in {"u64", "u32"}, NEW x \in Nat, NEW n \in Nat, NEW op,
             NEW v \in Written([type |-> type, is |-> n])
      PROVE  Exact(type, op, x, v, n)
  <2>1. v = [kind |-> "int", of |-> n] \/ v = [kind |-> "str", of |-> Digits(n)]
    BY DEF Written
  <2> DEFINE a == FromMove([type |-> type, is |-> x])
  <2>2. a = [kind |-> "int", of |-> x] \/ a = [kind |-> "str", of |-> Digits(x)]
    BY DEF FromMove
  <2> HIDE DEF a
  <2>3. Compare(op, a, v) = Holds(op, x = n, x < n)
    BY <2>1, <2>2, NumbersExact
  <2>4. QED
    BY <2>3 DEF Exact, a
<1>2. ASSUME NEW op \in {"eq", "ne"}, NEW x \in Nat, NEW n \in Nat,
             NEW v \in Written([type |-> "bool", is |-> n])
      PROVE  Exact("bool", op, x, v, n)
  <2>1. v = [kind |-> "bool", of |-> n]
    BY DEF Written, FromMove
  <2>2. FromMove([type |-> "bool", is |-> x]) = [kind |-> "bool", of |-> x]
    BY DEF FromMove
  <2>3. QED
    BY <2>1, <2>2 DEF Exact, Compare, is_int, int
<1>3. ASSUME NEW op \in {"eq", "ne"}, NEW x \in Nat, NEW n \in Nat,
             NEW v \in Written([type |-> "address", is |-> n])
      PROVE  Exact("address", op, x, v, n)
  <2>1. v = [kind |-> "str", of |-> <<0, 33, n>>]
    BY DEF Written, FromMove
  <2>2. FromMove([type |-> "address", is |-> x]) = [kind |-> "str", of |-> <<0, 33, x>>]
    BY DEF FromMove
  <2>3. ~is_int(v)
    <3>1. v.kind = "str" /\ v.of[2] = 33 /\ 2 \in DOMAIN v.of
      BY <2>1
    <3>2. 33 \in ToSet(v.of) /\ 33 \notin 0 .. 9
      BY <3>1 DEF ToSet
    <3>3. QED
      BY <3>1, <3>2 DEF is_int
  <2>4. str(v) = <<0, 33, n>> /\ str([kind |-> "str", of |-> <<0, 33, x>>]) = <<0, 33, x>>
    BY <2>1 DEF str
  <2>5. <<0, 33, x>> = <<0, 33, n>> <=> x = n
    OBVIOUS
  <2>6. QED
    BY <2>2, <2>3, <2>4, <2>5 DEF Exact, Compare, Holds
<1>4. QED
  BY <1>1, <1>2, <1>3
=============================================================================
