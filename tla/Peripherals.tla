----------------------------- MODULE Peripherals -----------------------------
(***************************************************************************)
(* The virtual peripherals and the trace backends in one model.  They are  *)
(* separate objects that share no state, so a program's use of one is      *)
(* never changed by its use of another: each behaviour picks one of them   *)
(* and exercises it, the others stay in one initial state.                 *)
(***************************************************************************)
EXTENDS VpUart, VpI2c

CONSTANTS
    MaxLoaded, MaxClocks,                   \* VpSpi
    Pins, EventLog, MaxWrites,              \* VpGpio
    BufSize, PrintfSize, MaxChars,          \* TraceBuffer
    Channels, WordBits, DefaultBits, Resolutions, MaxConversions, \* VpAdc
    ChunkSize                               \* TraceBackends

VARIABLES
    used,   \* which of them the program exercises
    spi_regs, spi_reads, spi_writes, spi_reg, spi_status, tx_log, rx_queue,
    spi_head, spi_tail, cs_asserted, loaded, clocks, miso, dropped,
    outputs, levels, pulls_up, pulls_down, events, gpio_written, gpio_injected,
    s_buf, s_len, printed, passed,
    resolution_bits, fixed, gen, sample_idx, conversions, result, swept,
    backend, enabled, fifo, waiting, todo, shown, traced, lost

\* The provers know nothing of 2 ^ n.
ASSUME PeripheralsAssumption ==
    /\ {MaxLoaded, MaxClocks, EventLog, MaxWrites, PrintfSize, MaxChars, Channels,
        MaxConversions} \subseteq Nat
    /\ {BufSize, PrintfSize, DefaultBits, ChunkSize} \subseteq Nat \ {0}
    /\ Resolutions \subseteq Nat
    /\ \A n \in {WordBits, DefaultBits} \cup Resolutions : 2 ^ n \in Nat \ {0}

Spi == INSTANCE VpSpi WITH
    regs <- spi_regs, read_calls <- spi_reads, write_calls <- spi_writes,
    last_reg <- spi_reg, last_status <- spi_status,
    rx_head <- spi_head, rx_tail <- spi_tail

Gpio == INSTANCE VpGpio WITH written <- gpio_written, injected <- gpio_injected

Trace == INSTANCE TraceBuffer
Adc == INSTANCE VpAdc
Backends == INSTANCE TraceBackends WITH written <- traced, dropped <- lost

spi == <<spi_regs, spi_reads, spi_writes, spi_reg, spi_status, tx_log, rx_queue,
         spi_head, spi_tail, cs_asserted, loaded, clocks, miso, dropped>>
gpio == <<outputs, levels, pulls_up, pulls_down, events, gpio_written,
          gpio_injected>>
trace == <<s_buf, s_len, printed, passed>>
adc == <<resolution_bits, fixed, gen, sample_idx, conversions, result, swept>>
backends == <<backend, enabled, fifo, waiting, todo, shown, traced, lost>>
vars == <<used, uart, i2c, spi, gpio, trace, adc, backends>>

Init ==
    /\ used \in {"uart", "i2c", "spi", "gpio", "trace", "adc", "backends"}
    /\ UartInit /\ I2cInit /\ Spi!Init /\ Gpio!Init /\ Trace!Init /\ Adc!Init
    /\ Backends!Init
    /\ used # "adc" => resolution_bits = DefaultBits
    /\ used # "backends" => backend = "host" /\ ~enabled

UseUart ==
    /\ used = "uart" /\ UartNext
    /\ UNCHANGED <<used, i2c, spi, gpio, trace, adc, backends>>

UseI2c ==
    /\ used = "i2c" /\ I2cNext
    /\ UNCHANGED <<used, uart, spi, gpio, trace, adc, backends>>

UseSpi ==
    /\ used = "spi" /\ Spi!Next
    /\ UNCHANGED <<used, uart, i2c, gpio, trace, adc, backends>>

UseGpio ==
    /\ used = "gpio" /\ Gpio!Next
    /\ UNCHANGED <<used, uart, i2c, spi, trace, adc, backends>>

UseTrace ==
    /\ used = "trace" /\ Trace!Next
    /\ UNCHANGED <<used, uart, i2c, spi, gpio, adc, backends>>

UseAdc ==
    /\ used = "adc" /\ Adc!Next
    /\ UNCHANGED <<used, uart, i2c, spi, gpio, trace, backends>>

UseBackends ==
    /\ used = "backends" /\ Backends!Next
    /\ UNCHANGED <<used, uart, i2c, spi, gpio, trace, adc>>

Next ==
    \/ UseUart \/ UseI2c \/ UseSpi \/ UseGpio \/ UseTrace \/ UseAdc \/ UseBackends

Spec == Init /\ [][Next]_vars
-----------------------------------------------------------------------------
\* The type invariants: indices stay in their arrays, a pin is never pulled
\* both ways, the captured trace ends with a NUL inside its buffer, and an ADC
\* result fits the resolution.
TypeOK ==
    /\ UartTypes /\ I2cTypes /\ Spi!TypeOK
    /\ Gpio!TypeOK /\ Trace!TypeOK /\ Adc!TypeOK

\* SPI: a loaded byte comes back once, is queued, or found the queue full.
NothingInvented == Spi!NothingInvented

\* GPIO: an output nobody drives from outside reads back what was written.
OutputReadsBack == Gpio!OutputReadsBack

\* Trace: the captured string is the beginning of what was printed.
TextIsTrace == Trace!TextIsTrace

\* ADC: the conversions of a channel are numbered without a gap.
SweepContinues == Adc!SweepContinues

\* Trace: every backend shows what was written, in order and once.
ShownIsWritten == Backends!ShownIsWritten
=============================================================================
