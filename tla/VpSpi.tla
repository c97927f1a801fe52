-------------------------------- MODULE VpSpi --------------------------------
(***************************************************************************)
(* The virtual SPI slave, src/src/peripherals/vp_spi.c, seen by the driver *)
(* under test as the bus master: every clocked byte goes into the log of   *)
(* transmitted bytes and brings back a byte of the queue the test loaded,  *)
(* or 0xFF.  The register bank is the test's own, the transfers never look *)
(* at it, and neither at the chip select.                                  *)
(*                                                                         *)
(* MOSI bytes are numbered by the clock they were sent at, loaded bytes in *)
(* the order they were offered, both since the last reset.                 *)
(***************************************************************************)
EXTENDS Ring, VpDevice

CONSTANTS
    MaxLoaded,   \* bound: bytes offered to load_rx between two resets
    MaxClocks,   \* bound: bytes exchanged between two resets
    MaxRun       \* bound: bytes in one call

Idle == 0   \* 0xFF: what a clock brings back when nothing is queued

VARIABLES
    tx_log,
    rx_queue, rx_head, rx_tail,
    cs_asserted,
    loaded, clocks,  \* history: bytes offered, bytes exchanged
    miso,            \* history: what came back, clock by clock
    dropped          \* history: loaded bytes that found the queue full

ring == <<rx_queue, rx_head, rx_tail>>
history == <<loaded, clocks, miso, dropped>>
vars == <<device, tx_log, ring, cs_asserted, history>>

Smaller(a, b) == IF a < b THEN a ELSE b
Queued == Contents(rx_queue, rx_head, rx_tail)

\* vp_spi_init.
Init ==
    /\ DeviceInit
    /\ tx_log = << >> /\ cs_asserted = FALSE
    /\ rx_queue = [s \in Slots |-> Idle] /\ rx_head = 0 /\ rx_tail = 0
    /\ loaded = 0 /\ clocks = 0 /\ miso = << >> /\ dropped = {}

\* vp_spi_reset keeps the bytes of the arrays.
Reset ==
    /\ DeviceReset
    /\ tx_log' = << >> /\ rx_head' = 0 /\ rx_tail' = 0 /\ cs_asserted' = FALSE
    /\ loaded' = 0 /\ clocks' = 0 /\ miso' = << >> /\ dropped' = {}
    /\ UNCHANGED rx_queue

\* vp_spi_load_rx of n bytes: it stops at the first one that finds the ring
\* full, without a word.
LoadRx(n) ==
    /\ loaded + n <= MaxLoaded /\ loaded' = loaded + n
    /\ LET k == Smaller(n, Free(rx_head, rx_tail))
       IN  /\ rx_queue' = Stored(rx_queue, rx_tail, [m \in 1 .. k |-> loaded + m])
           /\ rx_tail' = Forward(rx_tail, k)
           /\ dropped' = dropped \cup (loaded + k + 1 .. loaded + n)
    /\ UNCHANGED <<device, tx_log, rx_head, cs_asserted, clocks, miso>>

\* vp_spi_cs_assert and vp_spi_cs_deassert.
ChipSelect(on) ==
    /\ cs_asserted' = on
    /\ UNCHANGED <<device, tx_log, ring, history>>

MutShifted(n) == [k \in 1 .. n |-> IF k <= Len(Queued) THEN Queued[k]
                                   ELSE rx_queue[rx_head]]

\* The bytes n clocks bring back.
Shifted(n) == [k \in 1 .. n |-> IF k <= Len(Queued) THEN Queued[k] ELSE Idle]

\* The log after n clocks: it keeps the first Size bytes.
Logged(n) ==
    tx_log \o [k \in 1 .. Smaller(n, Size - Len(tx_log)) |-> clocks + k]

\* vp_spi_xfer of n bytes, vp_spi_xfer_byte when n = 1.
Xfer(n) ==
    /\ clocks + n <= MaxClocks /\ clocks' = clocks + n
    /\ tx_log' = Logged(n)
    /\ miso' = miso \o Shifted(n)
    /\ rx_head' = Forward(rx_head, Smaller(n, Len(Queued)))
    /\ UNCHANGED <<device, rx_queue, rx_tail, cs_asserted, loaded, dropped>>

\* Any byte a reset bank does not hold.
Mark == CHOOSE b \in Bytes : b # 0

\* The driver or the test uses the register bank, s.base, directly.
UseBank(null, reg, len, rc) ==
    /\ read_calls + write_calls = 0
    /\ \/ DeviceRead(null, reg, len, rc)
       \/ DeviceWrite(null, reg, [k \in 1 .. len |-> Mark], rc)
    /\ UNCHANGED <<tx_log, ring, cs_asserted, history>>

Next ==
    \/ Reset
    \/ \E n \in 1 .. MaxRun : LoadRx(n) \/ Xfer(n)
    \/ \E on \in BOOLEAN : ChipSelect(on)
    \/ \E null \in BOOLEAN, reg \in Regs, len \in 0 .. RegCount,
         rc \in HookResults \cup {-1} : UseBank(null, reg, len, rc)

Spec == Init /\ [][Next]_vars
-----------------------------------------------------------------------------
\* The type invariant.
TypeOK ==
    /\ DeviceOK
    /\ tx_log \in Seq(1 .. MaxClocks) /\ Len(tx_log) <= Size
    /\ rx_queue \in [Slots -> 0 .. MaxLoaded] /\ rx_head \in Slots /\ rx_tail \in Slots
    /\ cs_asserted \in BOOLEAN
    /\ loaded \in 0 .. MaxLoaded /\ clocks \in 0 .. MaxClocks
    /\ miso \in Seq(0 .. MaxLoaded) /\ dropped \subseteq 1 .. MaxLoaded

\* A loaded byte comes back, is still queued, or was dropped by a full queue,
\* and exactly one of these, in the order they were loaded: none is repeated
\* when the ring wraps or is reset, and none left over from before the reset
\* comes back.  The idle bytes in between are nobody's.
NothingInvented ==
    LET seen == miso \o Queued
        Answered(k) == k > Len(miso) \/ seen[k] # Idle
        answers == {k \in DOMAIN seen : Answered(k)}
    IN  /\ {seen[k] : k \in answers} = (1 .. loaded) \ dropped
        /\ \A j, k \in answers : j < k => seen[j] < seen[k]
=============================================================================
