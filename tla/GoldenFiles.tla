---------------------------- MODULE GoldenFiles ----------------------------
(***************************************************************************)
(* The names of golden files and the comparison with one, from             *)
(* ceedless_check_golden_ of src/src/runner.c.                             *)
(***************************************************************************)
EXTENDS Naturals, Sequences

CONSTANTS
    Labels,     \* suite and label of the checks: sequences of characters
    Kept,       \* the characters sanitize_into keeps: A-Z a-z 0-9 _ - .
    Cap,        \* the characters a name has room for
    Outputs,    \* what the code under test produces: sequences of bytes
    CHUNK,      \* 256
    None

ASSUME GoldenAssumption ==
    /\ CHUNK \in Nat /\ CHUNK > 0
    /\ \A o \in Outputs : o \in Seq(Nat)
    /\ None \notin Seq(Nat) /\ None \notin Labels

\* sanitize_into: different labels may share a file.
File(l) ==
    [k \in 1 .. (IF Len(l) < Cap THEN Len(l) ELSE Cap) |->
       IF l[k] \in Kept THEN l[k] ELSE "_"]

Files == {File(l) : l \in Labels}

\* The offsets of the chunks the comparison reads.
Offsets(n) == {off \in 0 .. n : off < n /\ off % CHUNK = 0}

MutSame(file, out) ==
    /\ Len(file) = Len(out)
    /\ \A off \in Offsets(Len(out)) : \A k \in off + 1 .. off + CHUNK :
         off + CHUNK <= Len(out) => file[k] = out[k]

\* The sizes agree, and chunk after chunk the bytes.
Same(file, out) ==
    /\ Len(file) = Len(out)
    /\ \A off \in Offsets(Len(out)) : \A k \in off + 1 .. off + CHUNK :
         k <= Len(out) => file[k] = out[k]
=============================================================================
