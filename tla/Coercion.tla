------------------------------ MODULE Coercion ------------------------------
(***************************************************************************)
(* How the solve check compares a field of a Move object with the value of *)
(* the manifest: _coerce_pair and _OPS of orchestrator/app/challenge.py.   *)
(*                                                                         *)
(* Values as Python sees them: [kind |-> "int" or "bool", of |-> a number] *)
(* or [kind |-> "str", of |-> its characters].  A character is its rank:   *)
(* 0 .. 9 the digits, more a letter.                                       *)
(***************************************************************************)
EXTENDS Numerals, SequencesExt

\* str of a number: its decimal digits.
Digits(n) ==
    LET digits[k \in 0 .. n] ==
            IF k < 10 THEN <<k>> ELSE Append(digits[k \div 10], k % 10)
    IN  digits[n]

TextOfBool(b) == IF b = 1 THEN <<45, 32, 35, 19>> ELSE <<41, 15, 26, 33, 19>>

\* int() raises on an empty string and on one with a letter in it.
is_int(v) == v.kind = "str" => v.of # <<>> /\ ToSet(v.of) \subseteq 0 .. 9

int(v) == IF v.kind = "str" THEN Value(10, v.of) ELSE v.of

str(v) == CASE v.kind = "str" -> v.of
            [] v.kind = "int" -> Digits(v.of)
            [] v.kind = "bool" -> TextOfBool(v.of)

\* Lexicographic order, as Python orders strings.
TextLess(s, t) ==
    \/ IsStrictPrefix(s, t)
    \/ \E i \in 1 .. Len(s) :
          /\ i <= Len(t) /\ s[i] < t[i]
          /\ \A j \in 1 .. i - 1 : s[j] = t[j]

Holds(op, equal, less) ==
    CASE op = "eq" -> equal
      [] op = "ne" -> ~equal
      [] op = "lt" -> less
      [] op = "lte" -> less \/ equal
      [] op = "gt" -> ~less /\ ~equal
      [] op = "gte" -> ~less

\* Mutant of Compare: the values as they come, which are mostly strings.
CompareAsText(op, a, b) == Holds(op, str(a) = str(b), TextLess(str(a), str(b)))

\* _coerce_pair and the operator of _OPS.
Compare(op, a, b) ==
    IF is_int(a) /\ is_int(b) THEN Holds(op, int(a) = int(b), int(a) < int(b))
    ELSE Holds(op, str(a) = str(b), TextLess(str(a), str(b)))

\* The JSON the node makes of a Move value, external: u64 and wider are strings.
FromMove(m) ==
    CASE m.type = "u64" -> [kind |-> "str", of |-> Digits(m.is)]
      [] m.type = "u32" -> [kind |-> "int", of |-> m.is]
      [] m.type = "bool" -> [kind |-> "bool", of |-> m.is]
      [] m.type = "address" -> [kind |-> "str", of |-> <<0, 33, m.is>>]

\* The ways a manifest may write it: YAML keeps quoted digits a string.  Left
\* out: floats (int() truncates them) and strings with a sign, spaces or
\* underscores (int() reads them).
Written(m) ==
    CASE m.type \in {"u64", "u32"} ->
             {[kind |-> "int", of |-> m.is], [kind |-> "str", of |-> Digits(m.is)]}
      [] m.type \in {"bool", "address"} -> {FromMove(m)}

-----------------------------------------------------------------------------
\* Comparing x with v, which stands for n, says what comparing x with n says.
Exact(type, op, x, v, n) ==
    Compare(op, FromMove([type |-> type, is |-> x]), v) <=> Holds(op, x = n, x < n)
=============================================================================
