------------------------------- MODULE VpGpio -------------------------------
(***************************************************************************)
(* The virtual GPIO bank, src/src/peripherals/vp_gpio.c.  The driver under *)
(* test sets modes and pulls, writes and reads; the test drives lines from *)
(* outside with vp_gpio_inject.  The masks are the sets of their pins.     *)
(***************************************************************************)
EXTENDS Naturals, Sequences

CONSTANTS
    Pins,       \* the pins, at most 32: bit() takes a pin modulo 32
    EventLog,   \* VP_GPIO_EVENT_LOG, 32 by default
    MaxWrites   \* bound: writes between two resets

Modes == {"in", "out", "af"}
Pulls == {"none", "up", "down"}

VARIABLES
    outputs,               \* mode_mask
    levels,                \* the pins whose level bit is set
    pulls_up, pulls_down,
    events,
    written,    \* history: the writes since the reset
    injected    \* history: the pins whose last level came from outside

masks == <<outputs, levels, pulls_up, pulls_down>>
vars == <<masks, events, written, injected>>

Event(p, level) == [pin |-> p, level |-> level]

Init ==
    /\ outputs = {} /\ levels = {} /\ pulls_up = {} /\ pulls_down = {}
    /\ events = << >> /\ written = << >> /\ injected = {}

\* vp_gpio_init and vp_gpio_reset.
Reset ==
    /\ outputs' = {} /\ levels' = {} /\ pulls_up' = {} /\ pulls_down' = {}
    /\ events' = << >> /\ written' = << >> /\ injected' = {}

\* vp_gpio_set_mode: the alternate function counts as an input.
SetMode(p, mode) ==
    /\ outputs' = IF mode = "out" THEN outputs \cup {p} ELSE outputs \ {p}
    /\ UNCHANGED <<levels, pulls_up, pulls_down, events, written, injected>>

\* vp_gpio_set_pull.
SetPull(p, pull) ==
    /\ pulls_up' = IF pull = "up" THEN pulls_up \cup {p} ELSE pulls_up \ {p}
    /\ pulls_down' = IF pull = "down" THEN pulls_down \cup {p} ELSE pulls_down \ {p}
    /\ UNCHANGED <<outputs, levels, events, written, injected>>

Driven(p, level) == IF level = 1 THEN levels \cup {p} ELSE levels \ {p}

MutWrite(p, level) ==
    /\ Len(written) < MaxWrites
    /\ IF Len(events) < EventLog
       THEN levels' = Driven(p, level) /\ events' = Append(events, Event(p, level))
       ELSE UNCHANGED <<levels, events>>
    /\ written' = Append(written, Event(p, level)) /\ injected' = injected \ {p}
    /\ UNCHANGED <<outputs, pulls_up, pulls_down>>

\* vp_gpio_write, whatever the mode of the pin; a full log loses the event.
Write(p, level) ==
    /\ Len(written) < MaxWrites
    /\ levels' = Driven(p, level)
    /\ events' = IF Len(events) < EventLog THEN Append(events, Event(p, level))
                 ELSE events
    /\ written' = Append(written, Event(p, level)) /\ injected' = injected \ {p}
    /\ UNCHANGED <<outputs, pulls_up, pulls_down>>

\* vp_gpio_inject, whatever the mode of the pin.
Inject(p, level) ==
    /\ levels' = Driven(p, level) /\ injected' = injected \cup {p}
    /\ UNCHANGED <<outputs, pulls_up, pulls_down, events, written>>

Level(p) == IF p \in levels THEN 1 ELSE 0

\* vp_gpio_read.
Read(p) ==
    IF p \in outputs THEN Level(p)
    ELSE IF p \in pulls_up THEN 1
    ELSE IF p \in pulls_down THEN 0
    ELSE Level(p)

Next ==
    \/ Reset
    \/ \E p \in Pins :
         \/ \E mode \in Modes : SetMode(p, mode)
         \/ \E pull \in Pulls : SetPull(p, pull)
         \/ \E level \in {0, 1} : Write(p, level) \/ Inject(p, level)

Spec == Init /\ [][Next]_vars
-----------------------------------------------------------------------------
\* The type invariant; a pin is never pulled both ways.
TypeOK ==
    /\ outputs \subseteq Pins /\ levels \subseteq Pins /\ injected \subseteq Pins
    /\ pulls_up \subseteq Pins /\ pulls_down \subseteq Pins
    /\ pulls_up \cap pulls_down = {}
    /\ events \in Seq([pin : Pins, level : {0, 1}])
    /\ Len(events) <= EventLog

LastWritten(p) ==
    LET writes == {k \in DOMAIN written : written[k].pin = p}
        last == CHOOSE k \in writes : \A j \in writes : j <= k
    IN  IF writes = {} THEN 0 ELSE written[last].level

\* An output that was not driven from outside reads back the last value the
\* driver wrote, whatever modes and pulls it went through and however full the
\* event log is.
OutputReadsBack ==
    \A p \in outputs \ injected : Read(p) = LastWritten(p)
=============================================================================
