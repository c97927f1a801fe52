------------------------------- MODULE VpUart -------------------------------
(***************************************************************************)
(* The virtual UART, src/src/peripherals/vp_uart.c.  The driver under test *)
(* sends with putc / write and receives with getc; the test on the other   *)
(* end of the wire injects bytes and takes what was sent.                  *)
(*                                                                         *)
(* No byte is ever looked at, so the bytes of a direction are numbered in  *)
(* the order they are offered, from 1 on since the last reset; 0 is what   *)
(* memset leaves.  tx_buf, shifted by memmove, is a sequence.              *)
(***************************************************************************)
EXTENDS Ring

CONSTANTS
    MaxBytes,   \* bound: bytes offered in each direction between two resets
    MaxRun      \* bound: bytes in one call

ASSUME UartAssumption == {MaxBytes, MaxRun} \subseteq Nat

VARIABLES
    open,
    rx_buf, rx_head, rx_tail,
    tx_buf,
    overrun_errors,
    injected, written,  \* history: bytes offered by the test, by the driver
    received, taken     \* history: bytes the driver, the test got

rx == <<rx_buf, rx_head, rx_tail, injected, received>>
tx == <<tx_buf, written, taken>>
uart == <<open, rx, tx, overrun_errors>>

Fresh(first, n) == [k \in 1 .. n |-> first + k]
Smaller(a, b) == IF a < b THEN a ELSE b

\* A vp_uart_t with static storage.
UartInit ==
    /\ open = FALSE
    /\ rx_buf = [s \in Slots |-> 0] /\ rx_head = 0 /\ rx_tail = 0
    /\ tx_buf = << >> /\ overrun_errors = 0
    /\ injected = 0 /\ written = 0 /\ received = << >> /\ taken = << >>

\* vp_uart_init and vp_uart_reset.
Reset ==
    /\ open' = TRUE
    /\ rx_buf' = [s \in Slots |-> 0] /\ rx_head' = 0 /\ rx_tail' = 0
    /\ tx_buf' = << >> /\ overrun_errors' = 0
    /\ injected' = 0 /\ written' = 0 /\ received' = << >> /\ taken' = << >>

\* vp_uart_write of n bytes, vp_uart_putc when n = 1: it stops at the first
\* byte that finds the buffer full.  Both return -1 on a closed UART.
Write(n) ==
    /\ open
    /\ written + n <= MaxBytes /\ written' = written + n
    /\ LET k == Smaller(n, Size - Len(tx_buf))
       IN  /\ tx_buf' = tx_buf \o Fresh(written, k)
           /\ overrun_errors' = overrun_errors + (IF k < n THEN 1 ELSE 0)
    /\ UNCHANGED <<open, rx, taken>>

\* vp_uart_getc, which returns -1 when the UART is closed or has no byte.
Getc ==
    /\ open /\ rx_head # rx_tail
    /\ received' = Append(received, rx_buf[rx_head])
    /\ rx_head' = Forward(rx_head, 1)
    /\ UNCHANGED <<open, rx_buf, rx_tail, injected, tx, overrun_errors>>

\* vp_uart_inject of n bytes: it stops at the first byte that finds the ring
\* full.
Inject(n) ==
    /\ injected + n <= MaxBytes /\ injected' = injected + n
    /\ LET k == Smaller(n, Free(rx_head, rx_tail))
       IN  /\ rx_buf' = Stored(rx_buf, rx_tail, Fresh(injected, k))
           /\ rx_tail' = Forward(rx_tail, k)
           /\ overrun_errors' = overrun_errors + (IF k < n THEN 1 ELSE 0)
    /\ UNCHANGED <<open, rx_head, received, tx>>

\* vp_uart_tx_take with room for cap bytes.
TxTake(cap) ==
    LET n == Smaller(Len(tx_buf), cap)
    IN  /\ taken' = taken \o SubSeq(tx_buf, 1, n)
        /\ tx_buf' = SubSeq(tx_buf, n + 1, Len(tx_buf))
        /\ UNCHANGED <<open, rx, written, overrun_errors>>

UartNext ==
    \/ Reset \/ Getc
    \/ \E n \in 1 .. MaxRun : Write(n) \/ Inject(n) \/ TxTake(n)

UartSpec == UartInit /\ [][UartNext]_uart
-----------------------------------------------------------------------------
\* The type invariant: indices stay in their arrays.
UartTypes ==
    /\ open \in BOOLEAN
    /\ rx_buf \in [Slots -> 0 .. MaxBytes] /\ rx_head \in Slots /\ rx_tail \in Slots
    /\ tx_buf \in Seq(1 .. MaxBytes) /\ Len(tx_buf) <= Size
    /\ overrun_errors \in Nat
    /\ injected \in 0 .. MaxBytes /\ written \in 0 .. MaxBytes
    /\ received \in Seq(0 .. MaxBytes) /\ taken \in Seq(1 .. MaxBytes)

Incoming == Contents(rx_buf, rx_head, rx_tail)

\* While no overrun has been counted since the reset, nothing was lost in
\* either direction: the bytes that arrived and the bytes under way are all
\* that were offered, in order and once each.
NoSilentLoss ==
    overrun_errors = 0 =>
        /\ received \o Incoming = Fresh(0, injected)
        /\ taken \o tx_buf = Fresh(0, written)

\* The two directions as queues; a ring keeps one slot free.
Receiving == INSTANCE ByteQueue WITH
    Byte <- 1 .. MaxBytes, Cap <- Size - 1, queue <- Incoming, delivered <- received

Sending == INSTANCE ByteQueue WITH
    Byte <- 1 .. MaxBytes, Cap <- Size, queue <- tx_buf, delivered <- taken

\* Each direction is a queue: through wrap-around, overruns and partial takes
\* no byte overtakes another, is repeated, or is read from a slot that was not
\* written.
DirectionsAreQueues == Receiving!Spec /\ Sending!Spec
=============================================================================
