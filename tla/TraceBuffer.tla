----------------------------- MODULE TraceBuffer -----------------------------
(***************************************************************************)
(* The in-memory trace backend, src/src/trace/trace_buffer.c, behind the   *)
(* trace_* calls of src/src/trace/trace_port.c: what the runner prints is  *)
(* captured in a static array with a NUL behind it.                        *)
(*                                                                         *)
(* Characters are numbered in the order the program prints them; 0 is the  *)
(* NUL.  A slot that was never written holds a NUL too.                    *)
(***************************************************************************)
EXTENDS Naturals, Sequences

CONSTANTS
    BufSize,     \* CEEDLESS_TRACE_BUFFER_SIZE, 4096 by default
    PrintfSize,  \* the buffer of trace_printf, 160
    MaxRun,      \* bound: characters in one call
    MaxChars     \* bound: characters printed between two clears

VARIABLES
    s_buf, s_len,
    printed,    \* history: characters given to trace_* since the clear
    passed      \* history: those that reached the backend

vars == <<s_buf, s_len, printed, passed>>

Init ==
    /\ s_buf = [k \in 0 .. BufSize - 1 |-> 0] /\ s_len = 0
    /\ printed = 0 /\ passed = << >>

MutClear ==
    /\ s_buf' = [s_buf EXCEPT ![0] = 0] /\ UNCHANGED s_len
    /\ printed' = 0 /\ passed' = << >>

\* trace_init, which ceedless_begin calls, and ceedless_trace_buffer_clear.
Clear ==
    /\ s_buf' = [s_buf EXCEPT ![0] = 0] /\ s_len' = 0
    /\ printed' = 0 /\ passed' = << >>

Smaller(a, b) == IF a < b THEN a ELSE b

\* How many of n characters the backend keeps.
Kept(n) ==
    IF s_len + n < BufSize THEN n
    ELSE IF s_len >= BufSize - 1 THEN 0 ELSE BufSize - 1 - s_len

\* ceedless_trace_backend_write; it returns before the NUL when full.
Captured(n) ==
    /\ s_buf' = IF Kept(n) = 0 /\ s_len >= BufSize - 1 THEN s_buf
                ELSE [k \in 0 .. BufSize - 1 |->
                        IF k \in s_len .. s_len + Kept(n) - 1
                        THEN printed + 1 + (k - s_len)
                        ELSE IF k = s_len + Kept(n) THEN 0 ELSE s_buf[k]]
    /\ s_len' = s_len + Kept(n)
    /\ passed' = passed \o [k \in 1 .. n |-> printed + k]

Printing(n) == printed + n <= MaxChars /\ printed' = printed + n

\* trace_write and trace_puts.
Write(n) == Printing(n) /\ Captured(n)

\* trace_printf: the text is cut to its buffer, and nothing is written when it
\* is empty.
Printf(n) == n > 0 /\ Printing(n) /\ Captured(Smaller(n, PrintfSize - 1))

Next == Clear \/ \E n \in 0 .. MaxRun : Write(n) \/ Printf(n)

Spec == Init /\ [][Next]_vars
-----------------------------------------------------------------------------
\* What a reader of ceedless_trace_buffer sees: the string up to the first NUL.
Text ==
    LET end == CHOOSE k \in 0 .. BufSize - 1 :
                 s_buf[k] = 0 /\ \A m \in 0 .. k - 1 : s_buf[m] # 0
    IN  [k \in 1 .. end |-> s_buf[k - 1]]

\* The type invariant: there is always room for the NUL, and the string read
\* from the buffer is as long as ceedless_trace_buffer_len says.
TypeOK ==
    /\ s_buf \in [0 .. BufSize - 1 -> 0 .. MaxChars]
    /\ s_len \in 0 .. BufSize - 1
    /\ printed \in 0 .. MaxChars
    /\ passed \in Seq(1 .. MaxChars)
    /\ s_buf[s_len] = 0

\* The captured string is the beginning of the trace since the last clear:
\* nothing older shows behind it when a shorter text is captured after a
\* longer one, and nothing in it is lost or written twice.
TextIsTrace ==
    Text = SubSeq(passed, 1, Smaller(Len(passed), BufSize - 1))
=============================================================================
