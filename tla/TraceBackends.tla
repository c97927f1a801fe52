--------------------------- MODULE TraceBackends ---------------------------
(***************************************************************************)
(* The trace backends that pass the text on to a device: trace_host.c,     *)
(* trace_rtt.c, trace_uart.c, trace_itm.c and trace_semihost.c under       *)
(* src/src/trace/.  One of them is compiled in.  For RTT and UART the user *)
(* has provided the hooks of the board.                                    *)
(*                                                                         *)
(* Bytes are numbered in the order the program writes them, except NUL     *)
(* bytes, which are 0.                                                     *)
(***************************************************************************)
EXTENDS Naturals, Sequences

CONSTANTS
    ChunkSize,  \* the characters semihosting prints in one call: 64
    MaxBytes    \* bound: bytes the program writes

Whole == {"host", "rtt"}    \* the backends that hand over a write as it is

VARIABLES
    backend,
    enabled,    \* ITM: has a debugger enabled the port?
    fifo,       \* ITM: is there room in the port's FIFO?
    waiting,    \* ITM: is a byte waiting for room in it?
    todo,       \* what is left of the write in progress
    shown,      \* what the device has got
    written,    \* history: what the program has written
    dropped     \* history: has the ITM dropped a byte?

vars == <<backend, enabled, fifo, waiting, todo, shown, written, dropped>>

Init ==
    /\ backend \in Whole \cup {"uart", "itm", "semihost"}
    /\ enabled \in BOOLEAN /\ fifo = TRUE /\ waiting = FALSE
    /\ todo = << >> /\ shown = << >> /\ written = << >> /\ dropped = FALSE

\* The program writes n bytes; those at nuls are NUL.
Write(n, nuls) ==
    /\ todo = << >> /\ Len(written) + n <= MaxBytes
    /\ todo' = [k \in 1 .. n |-> IF k \in nuls THEN 0 ELSE Len(written) + k]
    /\ written' = written \o todo'
    /\ UNCHANGED <<backend, enabled, fifo, waiting, shown, dropped>>

PutWhole ==
    /\ backend \in Whole /\ todo # << >>
    /\ shown' = shown \o todo /\ todo' = << >>
    /\ UNCHANGED <<backend, enabled, fifo, waiting, written, dropped>>

\* ceedless_uart_putc of one byte.
PutUart ==
    /\ backend = "uart" /\ todo # << >>
    /\ shown' = Append(shown, Head(todo)) /\ todo' = Tail(todo)
    /\ UNCHANGED <<backend, enabled, fifo, waiting, written, dropped>>

\* ceedless_itm_putc looks once whether the port is enabled, then waits for the
\* FIFO.
ItmEnters ==
    /\ backend = "itm" /\ todo # << >> /\ ~waiting
    /\ IF enabled
       THEN waiting' = TRUE /\ UNCHANGED <<todo, dropped>>
       ELSE todo' = Tail(todo) /\ dropped' = TRUE /\ UNCHANGED waiting
    /\ UNCHANGED <<backend, enabled, fifo, shown, written>>

\* A byte stored in a port that was disabled in the meantime is lost.
ItmStores ==
    /\ waiting /\ fifo
    /\ waiting' = FALSE /\ todo' = Tail(todo)
    /\ IF enabled
       THEN shown' = Append(shown, Head(todo)) /\ fifo' \in BOOLEAN /\ UNCHANGED dropped
       ELSE dropped' = TRUE /\ UNCHANGED <<shown, fifo>>
    /\ UNCHANGED <<backend, enabled, written>>

\* The probe empties the FIFO; a debugger enables or disables the port.
Probe ==
    /\ backend = "itm"
    /\ fifo' \in {fifo, TRUE} /\ enabled' \in BOOLEAN
    /\ UNCHANGED <<backend, waiting, todo, shown, written, dropped>>

\* The length of the next chunk.
Taken == IF Len(todo) < ChunkSize THEN Len(todo) ELSE ChunkSize

\* SYS_WRITE0 prints a chunk up to its first NUL.
Printed(s) ==
    LET end == {k \in DOMAIN s : \A j \in 1 .. k : s[j] # 0}
    IN  [k \in end |-> s[k]]

MutPutChunk ==
    /\ backend = "semihost" /\ todo # << >>
    /\ shown' = shown \o Printed(SubSeq(todo, 1, Taken))
    /\ todo' = SubSeq(todo, ChunkSize + 2, Len(todo))
    /\ UNCHANGED <<backend, enabled, fifo, waiting, written, dropped>>

PutChunk ==
    /\ backend = "semihost" /\ todo # << >>
    /\ shown' = shown \o Printed(SubSeq(todo, 1, Taken))
    /\ todo' = SubSeq(todo, Taken + 1, Len(todo))
    /\ UNCHANGED <<backend, enabled, fifo, waiting, written, dropped>>

Next ==
    \/ \E n \in 0 .. MaxBytes : \E nuls \in SUBSET (1 .. n) : Write(n, nuls)
    \/ PutWhole \/ PutUart \/ ItmEnters \/ ItmStores \/ Probe \/ PutChunk

Spec == Init /\ [][Next]_vars
-----------------------------------------------------------------------------
\* What the program has written is what the device has got and what the write in
\* progress still holds, in order and once: for the ITM as long as the port was
\* enabled, for semihosting as long as no NUL was written.  Otherwise bytes are
\* missing, but none is repeated or moved.
ShownIsWritten ==
    /\ backend \in Whole \cup {"uart"} \/ (backend = "itm" /\ ~dropped)
         \/ (backend = "semihost" /\ \A k \in DOMAIN written : written[k] # 0) =>
       shown \o todo = written
    /\ \A j, k \in DOMAIN shown : j < k /\ 0 \notin {shown[j], shown[k]} =>
         shown[j] < shown[k]
=============================================================================
