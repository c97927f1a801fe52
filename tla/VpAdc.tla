------------------------------- MODULE VpAdc -------------------------------
(***************************************************************************)
(* The virtual ADC, src/src/peripherals/vp_adc.c.  The test gives every    *)
(* channel a fixed code or a generator, which is called with the number of *)
(* the sample; the driver under test converts.  What a generator answers   *)
(* is any code.                                                            *)
(***************************************************************************)
EXTENDS Integers, Sequences

CONSTANTS
    Channels,       \* VP_ADC_CHANNELS, 16 by default
    WordBits,       \* the width of a code: uint32_t
    DefaultBits,    \* the resolution vp_adc_init chooses for 0: 12
    Resolutions,    \* the resolutions the test asks for
    MaxConversions  \* bound: conversions of a channel between two resets

VARIABLES
    resolution_bits,
    fixed,
    gen,         \* the channels with a generator
    sample_idx, conversions,
    result,      \* what the last read returned
    swept        \* history: per channel, since the reset, the index every
                 \* conversion gave its generator, -1 where it had none

settings == <<resolution_bits, fixed, gen>>
vars == <<settings, sample_idx, conversions, result, swept>>

Inputs == 0 .. Channels - 1
Codes == 0 .. 2 ^ WordBits - 1

Zero == [ch \in Inputs |-> 0]
Nothing == [ch \in Inputs |-> << >>]

\* vp_adc_init.
Init ==
    /\ \E bits \in Resolutions :
         resolution_bits = IF bits = 0 THEN DefaultBits ELSE bits
    /\ fixed = Zero /\ gen = {} /\ sample_idx = Zero /\ conversions = Zero
    /\ result = 0 /\ swept = Nothing

\* vp_adc_reset keeps the name and the resolution.
Reset ==
    /\ fixed' = Zero /\ gen' = {} /\ sample_idx' = Zero /\ conversions' = Zero
    /\ result' = 0 /\ swept' = Nothing
    /\ UNCHANGED resolution_bits

\* vp_adc_set_fixed: a channel out of range is ignored here and below.
SetFixed(ch, code) ==
    /\ ch \in Inputs
    /\ fixed' = [fixed EXCEPT ![ch] = code] /\ gen' = gen \ {ch}
    /\ UNCHANGED <<resolution_bits, sample_idx, conversions, result, swept>>

MutSetGen(ch) ==
    /\ ch \in Inputs
    /\ gen' = gen \cup {ch} /\ sample_idx' = [sample_idx EXCEPT ![ch] = 0]
    /\ UNCHANGED <<resolution_bits, fixed, conversions, result, swept>>

\* vp_adc_set_gen: the samples go on where they were.
SetGen(ch) ==
    /\ ch \in Inputs
    /\ gen' = gen \cup {ch}
    /\ UNCHANGED <<resolution_bits, fixed, sample_idx, conversions, result, swept>>

\* The codes the resolution lets through.
Span == IF resolution_bits >= WordBits THEN 2 ^ WordBits ELSE 2 ^ resolution_bits

\* vp_adc_read when the generator, if there is one, answers code.
Read(ch, code) ==
    IF ch \notin Inputs
    THEN result' = 0 /\ UNCHANGED <<settings, sample_idx, conversions, swept>>
    ELSE /\ conversions[ch] < MaxConversions
         /\ result' = (IF ch \in gen THEN code ELSE fixed[ch]) % Span
         /\ swept' = [swept EXCEPT ![ch] =
                        Append(@, IF ch \in gen THEN sample_idx[ch] ELSE -1)]
         /\ sample_idx' = [sample_idx EXCEPT ![ch] = @ + 1]
         /\ conversions' = [conversions EXCEPT ![ch] = @ + 1]
         /\ UNCHANGED settings

Next ==
    \/ Reset
    \/ \E ch \in 0 .. Channels, code \in Codes :
         SetFixed(ch, code) \/ SetGen(ch) \/ Read(ch, code)

Spec == Init /\ [][Next]_vars
-----------------------------------------------------------------------------
\* The type invariant; a result fits the resolution.
TypeOK ==
    /\ resolution_bits \in Nat \ {0}
    /\ fixed \in [Inputs -> Codes] /\ gen \subseteq Inputs
    /\ sample_idx \in [Inputs -> Nat] /\ conversions \in [Inputs -> Nat]
    /\ result \in 0 .. Span - 1

\* The conversions of a channel since the reset are numbered 0, 1, 2, ... without
\* a gap: a generator sees the number of every conversion it answers, however the
\* channel was switched between fixed codes and generators before and whatever
\* the other channels did.
SweepContinues ==
    \A ch \in Inputs :
      /\ Len(swept[ch]) = conversions[ch]
      /\ \A k \in DOMAIN swept[ch] : swept[ch][k] \in {-1, k - 1}
=============================================================================
