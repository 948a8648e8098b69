------------------------------ MODULE Numerals ------------------------------
(***************************************************************************)
(* The number that digits stand for, most significant first: int() of a    *)
(* decimal string (challenge.py) and int.from_bytes (pow.py).              *)
(***************************************************************************)
EXTENDS Integers, Sequences

Value(base, s) ==
    LET value[k \in 0 .. Len(s)] ==
            IF k = 0 THEN 0 ELSE base * value[k - 1] + s[k]
    IN  value[Len(s)]
=============================================================================
