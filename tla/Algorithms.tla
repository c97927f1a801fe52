----------------------------- MODULE Algorithms -----------------------------
(***************************************************************************)
(* The parts of the system that compute rather than interact: the          *)
(* assertions, the golden files, the discovery of tests, project.yml and   *)
(* the random numbers.  They share no state; each behaviour picks one and  *)
(* exercises it.                                                           *)
(***************************************************************************)
EXTENDS Golden, Prng

CONSTANTS
    Long, Widths, BufLen, MaxLen, One, MaxFloat,    \* Assertions
    Names, MaxLines,                                \* Discover
    MaxSettings                                     \* Config

VARIABLES
    used,   \* which of them the program exercises
    call, accepted,
    text, pending, entries, caseCounter, extras,
    lines, group, config, loaded

\* The widths are those of the sized macros and not above that of long long, a
\* tolerance is a part of 1.0, and the provers know nothing of 2 ^ n.
ASSUME AlgorithmsAssumption ==
    /\ Long \in Nat \ {0} /\ Widths \subseteq 1 .. Long
    /\ {BufLen, MaxLen, MaxLines, MaxSettings} \subseteq Nat
    /\ {One, MaxFloat} \subseteq Nat \ {0}
    /\ 2 ^ 0 = 1 /\ \A n \in 1 .. Long : 2 ^ n \in Nat /\ 2 ^ n = 2 * 2 ^ (n - 1)

Assertion == INSTANCE Assertions
Scan == INSTANCE Discover
Settings == INSTANCE Config

assertion == <<call, accepted>>
scan == <<text, pending, entries, caseCounter, extras>>
settings == <<lines, group, config, loaded>>
vars == <<used, assertion, golden, scan, settings, prng>>

Init ==
    /\ used \in {"assertion", "golden", "scan", "settings", "prng"}
    /\ Assertion!Init /\ GoldenInit /\ Scan!Init /\ Settings!Init /\ PrngInit

UseAssertion ==
    /\ used = "assertion" /\ Assertion!Next
    /\ UNCHANGED <<used, golden, scan, settings, prng>>

UseGolden ==
    /\ used = "golden" /\ GoldenNext
    /\ UNCHANGED <<used, assertion, scan, settings, prng>>

UseScan ==
    /\ used = "scan" /\ Scan!Next
    /\ UNCHANGED <<used, assertion, golden, settings, prng>>

UseSettings ==
    /\ used = "settings" /\ Settings!Next
    /\ UNCHANGED <<used, assertion, golden, scan, prng>>

UsePrng ==
    /\ used = "prng" /\ PrngNext
    /\ UNCHANGED <<used, assertion, golden, scan, settings>>

Next == UseAssertion \/ UseGolden \/ UseScan \/ UseSettings \/ UsePrng

Spec == Init /\ [][Next]_vars
-----------------------------------------------------------------------------
\* Integer assertions agree with arithmetic.
IntegersAgree == Assertion!IntegersAgree

\* Array assertions accept arrays with the same elements.
ArraysCompareElements == Assertion!ArraysCompareElements

\* Floating-point assertions agree with their tolerance and refuse NaN.
FloatsAgree == Assertion!FloatsAgree

\* Discovery: every TEST_CASE and every bare test function is run once.
EntriesAreTheTests == Scan!EntriesAreTheTests

\* project.yml: a setting is what the last line of its section gives.
SettingsAreLastGiven == Settings!SettingsAreLastGiven
=============================================================================
