-------------------------------- MODULE Pow --------------------------------
(***************************************************************************)
(* The arithmetic of the proof of work, orchestrator/app/pow.py: what      *)
(* verify computes of a digest, what the one-liner printed to the player   *)
(* (solver_command) tests, and what both are meant to say.                 *)
(*                                                                         *)
(* sha256 is external: a digest is any sequence of DigestBytes bytes, most *)
(* significant first.  In the code ByteBits is 8 and DigestBytes is 32.    *)
(***************************************************************************)
EXTENDS Numerals

CONSTANTS ByteBits, DigestBytes

ASSUME DigestAssumption == ByteBits \in Nat \ {0} /\ DigestBytes \in Nat \ {0}

Width == ByteBits * DigestBytes

Digests == [1 .. DigestBytes -> 0 .. 2^ByteBits - 1]

\* int.from_bytes(digest, "big")
from_bytes(digest) == Value(2^ByteBits, digest)

\* int.bit_length(); 0 of 0.
bit_length(v) == CHOOSE n \in 0 .. Width : v < 2^n /\ \A m \in 0 .. n - 1 : 2^m <= v

\* Mutant of leading_zero_bits: the length of bin(v), which has a digit for 0.
LeadingZerosOfBin(digest) ==
    LET v == from_bytes(digest) IN Width - (IF v = 0 THEN 1 ELSE bit_length(v))

leading_zero_bits(digest) ==
    LET v == from_bytes(digest)
    IN  IF v # 0 THEN Width - bit_length(v) ELSE Width

\* verify of a nonce that is not empty after strip() and hashes to this digest.
verify_digest(difficulty, digest) ==
    difficulty <= 0 \/ leading_zero_bits(digest) >= difficulty

\* The test of the player's one-liner; a shift by a negative count raises.
solver_accepts(difficulty, digest) ==
    difficulty <= Width /\ from_bytes(digest) \div 2^(Width - difficulty) = 0

\* Bit i of the digest, counted from the first bit of the first byte.
Bit(digest, i) ==
    LET byte == digest[1 + ((i - 1) \div ByteBits)]
    IN  (byte \div 2^(ByteBits - 1 - ((i - 1) % ByteBits))) % 2

\* At this difficulty server and printed solver accept the same digests, those
\* that begin with so many zero bits.
Agrees(difficulty) ==
    \A digest \in Digests :
        LET meant == /\ difficulty <= Width
                     /\ \A i \in 1 .. difficulty : Bit(digest, i) = 0
        IN  /\ verify_digest(difficulty, digest) <=> meant
            /\ solver_accepts(difficulty, digest) <=> meant
=============================================================================
