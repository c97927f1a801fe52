-------------------------------- MODULE Ring --------------------------------
(***************************************************************************)
(* The byte rings of vp_uart.c and vp_spi.c: an array of Size bytes with a *)
(* head to read from and a tail to write to.  The ring is empty when they  *)
(* are equal, so it never holds more than Size - 1 bytes.                  *)
(***************************************************************************)
EXTENDS Naturals, Sequences

CONSTANT Size   \* VP_UART_BUFSZ, VP_SPI_BUFSZ

ASSUME RingAssumption == Size \in Nat /\ Size > 1

Slots == 0 .. (Size - 1)

\* vp_uart_available.
Used(head, tail) == (tail + Size - head) % Size

\* No slot left free between the tail and the head.
MutFree(head, tail) == Size - Used(head, tail)

\* The writing loop stops where the tail would meet the head.
Free(head, tail) == (head + Size - tail - 1) % Size

\* The array after the bytes were written from the tail on.
Stored(buf, tail, bytes) ==
    [s \in Slots |->
        LET d == (s + Size - tail) % Size
        IN  IF d < Len(bytes) THEN bytes[d + 1] ELSE buf[s]]

\* Wrapping to the first slot, however far past the end.
MutForward(k, n) == IF k + n >= Size THEN 0 ELSE k + n

Forward(k, n) == (k + n) % Size

\* What the ring holds, oldest byte first.
Contents(buf, head, tail) ==
    [k \in 1 .. Used(head, tail) |-> buf[Forward(head, k - 1)]]
=============================================================================
