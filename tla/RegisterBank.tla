---------------------------- MODULE RegisterBank ----------------------------
(***************************************************************************)
(* The size of a virtual peripheral's register bank and the answer an      *)
(* access to it gets, src/src/virtual_peripheral.c.  The hooks are the     *)
(* test's own: what they return and what on_read makes of a byte of the    *)
(* answer are constants here.                                              *)
(***************************************************************************)
EXTENDS Integers

CONSTANTS
    RegCount,      \* reg_count
    Bytes,         \* the values of a register
    HookResults,   \* what on_read and on_write return, 0 where none is set
    Rewrites       \* what on_read does to each byte of the caller's buffer,
                   \* nothing where none is set

Kept == [b \in Bytes |-> b]

ASSUME BankAssumption ==
    /\ RegCount \in Nat /\ RegCount > 0
    /\ 0 \in Bytes /\ Bytes # {0}
    /\ HookResults \subseteq Int /\ 0 \in HookResults
    /\ Rewrites \subseteq [Bytes -> Bytes] /\ Kept \in Rewrites

Regs == 0 .. (RegCount - 1)

\* Does an access with a buffer or with NULL get to the bank?  The sum
\* reg + len is that of a real buffer's length and does not wrap.
Reaches(null, reg, len) == ~null /\ reg + len <= RegCount

\* What the two accessors return: -1 without a buffer or outside the bank,
\* where the hook is not called.
Access(null, reg, len, rc) ==
    rc \in IF Reaches(null, reg, len) THEN HookResults ELSE {-1}
=============================================================================
