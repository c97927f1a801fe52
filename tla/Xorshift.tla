------------------------------ MODULE Xorshift ------------------------------
(***************************************************************************)
(* The arithmetic of the random numbers of src/src/runner.c: xorshift on   *)
(* words.  A word is the set of its one bits.                              *)
(***************************************************************************)
EXTENDS Integers

CONSTANTS
    Width,              \* 32
    Left, Right, Again, \* the shifts 13, 17 and 5
    Default,            \* 0xC0FFEE, the seed in place of 0
    Fallback,           \* 0xDEADBEEF, the state in place of 0
    Seeds               \* the seeds the program and the user choose

Positions == 0 .. Width - 1
Words == SUBSET Positions

ASSUME PrngAssumption ==
    /\ Width \in Nat
    /\ {Left, Right, Again} \subseteq Nat /\ 0 \notin {Left, Right, Again}
    /\ {Default, Fallback} \subseteq Words /\ {} \notin {Default, Fallback}
    /\ Seeds \subseteq Words

Xor(x, y) == (x \ y) \cup (y \ x)
Shl(x, n) == {b \in Positions : b - n \in x}
Shr(x, n) == {b \in Positions : b + n \in x}

MutScrambled(x) ==
    LET y == Xor(x, Shl(x, Left))
        z == Xor(y, Shr(y, Right))
    IN  Shl(z, Again)

\* x ^= x << 13; x ^= x >> 17; x ^= x << 5.
Scrambled(x) ==
    LET y == Xor(x, Shl(x, Left))
        z == Xor(y, Shr(y, Right))
    IN  Xor(z, Shl(z, Again))

MutSeeded(s) == s

Seeded(s) == IF s = {} THEN Default ELSE s
=============================================================================
