----------------------------- MODULE Assertions -----------------------------
(***************************************************************************)
(* Which values the assertions of src/src/runner.c accept, through the     *)
(* macros of src/include/ceedless/hybrid_runner.h that call them.  One     *)
(* step is one assertion; accepted says whether it let the test go on.     *)
(*                                                                         *)
(* Integers are bit patterns of a long long, 0 .. 2^Long - 1.  A double is *)
(* a number of 1 / One, plus or minus Inf, or NaN, which here are integers *)
(* beyond every finite one.                                                *)
(***************************************************************************)
EXTENDS Integers, Sequences

CONSTANTS
    Long,       \* the width of long long: 64
    Widths,     \* the widths of the sized macros, 32 for TEST_ASSERT_EQUAL_HEX
    BufLen,     \* the elements of buf_e: 64
    MaxLen,     \* bound: elements of an array
    One,        \* 1 / eps, the tolerance of TEST_ASSERT_EQUAL_FLOAT
    MaxFloat    \* bound: finite doubles are -MaxFloat .. MaxFloat

VARIABLES
    call,       \* history: the last assertion and its operands
    accepted    \* did it let the test go on?

vars == <<call, accepted>>

Patterns(w) == 0 .. 2 ^ w - 1
AsUint(x, w) == x % 2 ^ w
AsInt(x, w) ==
    IF AsUint(x, w) < 2 ^ (w - 1) THEN AsUint(x, w) ELSE AsUint(x, w) - 2 ^ w
Bits(x) == {b \in 0 .. Long - 1 : (x \div 2 ^ b) % 2 = 1}

\* ceedless_assert_equal_int_ and _uint_ behind the casts of the sized macros.
EqualInt(w, e, a) == AsInt(e, w) = AsInt(a, w)
EqualUint(w, e, a) == AsUint(e, w) = AsUint(a, w)

MutMask(w) == {b \in 0 .. Long - 1 : b < w - 1}

\* The mask of ceedless_assert_equal_hex_.
Mask(w) == {b \in 0 .. Long - 1 : w >= Long \/ b < w}

\* ceedless_assert_bits_.
SameBits(mask, e, a) == Bits(e) \cap mask = Bits(a) \cap mask

\* ceedless_assert_greater_int_ and _less_int_ compare as long long, in the
\* _UINT macros too.
Greater(thr, a, orequal) ==
    AsInt(a, Long) > AsInt(thr, Long) \/ (orequal /\ a = thr)
Less(thr, a, orequal) ==
    AsInt(a, Long) < AsInt(thr, Long) \/ (orequal /\ a = thr)

Fits(n) == n > -(2 ^ (Long - 1)) /\ n < 2 ^ (Long - 1)

\* The verdicts of ceedless_assert_within_int_: where a - e or its negation
\* overflows they are undefined.
WithinInt(delta, e, a) ==
    LET d == AsInt(a, Long) - AsInt(e, Long)
    IN  IF ~Fits(d) THEN BOOLEAN
        ELSE {(IF d < 0 THEN -d ELSE d) <= AsInt(delta, Long)}

\* ceedless_assert_within_uint_.
WithinUint(delta, e, a) == (IF a > e THEN a - e ELSE e - a) <= delta

Integer(kind, w, delta, e, a) ==
    [kind |-> kind, w |-> w, delta |-> delta, e |-> e, a |-> a]

IntegerKinds ==
    {"equal", "not equal", "equal unsigned", "hex", "bits", "greater", "at least",
     "less", "at most", "within", "within unsigned"}

\* Whether an integer assertion accepts: one verdict, but where it is undefined.
Verdicts(kind, w, delta, e, a) ==
    CASE kind = "equal" -> {EqualInt(w, e, a)}
      [] kind = "not equal" -> {~EqualInt(Long, e, a)}
      [] kind = "equal unsigned" -> {EqualUint(w, e, a)}
      [] kind = "hex" -> {SameBits(Mask(w), e, a)}
      [] kind = "bits" -> {SameBits(Bits(delta), e, a)}
      [] kind = "greater" -> {Greater(e, a, FALSE)}
      [] kind = "at least" -> {Greater(e, a, TRUE)}
      [] kind = "less" -> {Less(e, a, FALSE)}
      [] kind = "at most" -> {Less(e, a, TRUE)}
      [] kind = "within" -> WithinInt(delta, e, a)
      [] kind = "within unsigned" -> {WithinUint(delta, e, a)}

\* The integer assertions with one expected value.
AssertInteger ==
    \E w \in Widths, delta, e, a \in Patterns(Long), kind \in IntegerKinds :
      /\ call' = Integer(kind, w, delta, e, a)
      /\ accepted' \in Verdicts(kind, w, delta, e, a)
-----------------------------------------------------------------------------
(* Arrays of elements of w bits, or of a size no switch knows (w = 0).     *)
(* The macro decodes the expected elements, runner.c the actual ones.      *)
Signs == {0, 1, 2}      \* the macros for UINT, INT and HEX

Expected(x, w, sign) == IF sign = 1 \/ w = Long THEN AsInt(x, w) ELSE x

MutActual(x, w, sign) == IF sign # 0 \/ w = Long THEN AsInt(x, w) ELSE x

Actual(x, w, sign) == IF sign = 1 \/ w = Long THEN AsInt(x, w) ELSE x

\* ceedless_array_helper_int_ and ceedless_assert_equal_int_array_, or
\* ceedless_assert_equal_memory_ of arrays that do not fit buf_e.
EqualArray(w, sign, e, a) ==
    IF e = << >> THEN TRUE
    ELSE IF Len(e) > BufLen THEN e = a
    ELSE w # 0 /\ \A k \in DOMAIN e : Actual(a[k], w, sign) = Expected(e[k], w, sign)

\* ceedless_assert_each_equal_int_.
EachEqual(w, sign, e, a) ==
    a = << >> \/ (w # 0 /\ \A k \in DOMAIN a : Actual(a[k], w, sign) = AsInt(e, Long))

\* Arrays of n elements; those of an unknown size have two values.
Arrays(w, n) == [1 .. n -> Patterns(IF w = 0 THEN 1 ELSE w)]

AssertArray ==
    \E w \in Widths \cup {0}, sign \in Signs, n \in 0 .. MaxLen :
      \E e, a \in Arrays(w, n) :
        /\ call' = [kind |-> "array", w |-> w, sign |-> sign, e |-> e, a |-> a]
        /\ accepted' = EqualArray(w, sign, e, a)

AssertEach ==
    \E w \in Widths \cup {0}, sign \in Signs, n \in 0 .. MaxLen :
      \E e \in Patterns(Long), a \in Arrays(w, n) :
        /\ call' = [kind |-> "each", w |-> w, sign |-> sign, e |-> e, a |-> a]
        /\ accepted' = EachEqual(w, sign, e, a)

\* Pointers are addresses, 0 for NULL; different addresses may hold the same
\* contents.
Pointers == 0 .. 4
Contents(p) == p % 2

\* ceedless_assert_equal_string_, and an element of _equal_string_array_.
EqualString(e, a) == e = a \/ (e # 0 /\ a # 0 /\ Contents(e) = Contents(a))

\* ceedless_assert_equal_memory_ at two addresses.
EqualMemory(e, a, n) == n = 0 \/ EqualString(e, a)

AssertPointer ==
    \E e, a \in Pointers, n \in {0, 1} :
      \/ /\ call' = [kind |-> "string", e |-> e, a |-> a, n |-> 1]
         /\ accepted' = EqualString(e, a)
      \/ /\ call' = [kind |-> "memory", e |-> e, a |-> a, n |-> n]
         /\ accepted' = EqualMemory(e, a, n)
-----------------------------------------------------------------------------
Inf == 2 * MaxFloat * One + 1
NaN == Inf + 1
Finite == -MaxFloat .. MaxFloat
Doubles == Finite \cup {Inf, -Inf, NaN}

Abs(x) == IF x < 0 THEN -x ELSE x

\* fabs(e - a).
Distance(e, a) ==
    IF NaN \in {e, a} \/ (e = a /\ e \notin Finite) THEN NaN
    ELSE IF {e, a} \subseteq Finite THEN Abs(e - a) ELSE Inf

MutAtMost(x, y) == ~(x # NaN /\ y # NaN /\ x > y)

\* x <= y, which is false of NaN.
AtMost(x, y) == x # NaN /\ y # NaN /\ x <= y

\* ceedless_assert_within_float_.
WithinFloat(delta, e, a) == AtMost(Distance(e, a), delta)

\* ceedless_assert_equal_float_: the tolerance is relative to the expected value
\* and at least that of 1.0; both sides here are times One.
EqualFloat(e, a) ==
    LET d == Distance(e, a)
    IN  AtMost(IF d \in {Inf, NaN} THEN d ELSE d * One,
               IF Abs(e) < One THEN One ELSE Abs(e))

\* The classes of ceedless_assert_float_class_; each has its NOT.
Classes == {{Inf}, {-Inf}, {NaN}, Finite}

AssertFloatEqual ==
    \E e, a \in Doubles, negate \in BOOLEAN :
      /\ call' = [kind |-> "float equal", negate |-> negate, e |-> e, a |-> a]
      /\ accepted' = (negate # EqualFloat(e, a))

AssertFloatWithin ==
    \E e, a, delta \in Doubles, negate \in BOOLEAN :
      /\ call' = [kind |-> "float within", negate |-> negate, delta |-> delta, e |-> e, a |-> a]
      /\ accepted' = (negate # WithinFloat(delta, e, a))

AssertFloatClass ==
    \E a \in Doubles, negate \in BOOLEAN, class \in Classes :
      /\ call' = [kind |-> "float class", negate |-> negate, class |-> class, a |-> a]
      /\ accepted' = (negate # (a \in class))

Idle == [kind |-> "none"]

Init == call = Idle /\ accepted = TRUE

\* One assertion; none of them keeps anything for the next.
Assert ==
    /\ call = Idle
    /\ \/ AssertInteger \/ AssertArray \/ AssertEach \/ AssertPointer
       \/ AssertFloatEqual \/ AssertFloatWithin \/ AssertFloatClass

Return == call # Idle /\ call' = Idle /\ accepted' = TRUE

Next == Assert \/ Return

Spec == Init /\ [][Next]_vars
-----------------------------------------------------------------------------
\* The integer assertions agree with arithmetic: those of a width compare what
\* is left of the operands modulo 2^w, a bit mask decides bit by bit, and no
\* distance, however close the operands are to the ends of long long, is within
\* a smaller delta.  Distances that long long cannot hold are excepted, and so
\* are unsigned operands from 2^(Long - 1) on in order comparisons.
IntegersAgree ==
    LET w == call.w  e == call.e  a == call.a  delta == call.delta
        same == (e - a) % 2 ^ w = 0
        small == {e, a} \subseteq 0 .. 2 ^ (Long - 1) - 1
        d == Abs(AsInt(a, Long) - AsInt(e, Long))
    IN  /\ call.kind \in {"equal", "equal unsigned", "hex"} => accepted = same
        /\ call.kind = "not equal" => accepted = (e # a)
        /\ call.kind = "bits" =>
             accepted = \A b \in Bits(delta) : b \in Bits(e) <=> b \in Bits(a)
        /\ call.kind \in {"greater", "at least"} /\ small =>
             accepted = (IF call.kind = "greater" THEN a > e ELSE a >= e)
        /\ call.kind \in {"less", "at most"} /\ small =>
             accepted = (IF call.kind = "less" THEN a < e ELSE a <= e)
        /\ call.kind = "within" /\ d < 2 ^ (Long - 1) =>
             accepted = (d <= AsInt(delta, Long))
        /\ call.kind = "within unsigned" =>
             accepted = (a <= e + delta /\ e <= a + delta)

\* An array assertion accepts exactly the arrays that hold the same elements,
\* and EACH_EQUAL those whose every element has the expected value as a number:
\* the decoding of the expected elements in the macro and that of the actual
\* ones in runner.c agree in every width and sign, up to the length where the
\* macro falls back to memcmp and beyond it.  An element size that the switches
\* do not know fails unless memcmp is used.  By address, NULL equals itself only.
ArraysCompareElements ==
    LET w == call.w  e == call.e  a == call.a
        AsNumber(x) == IF call.sign = 1 \/ w = Long THEN AsInt(x, w) ELSE AsUint(x, w)
    IN  /\ call.kind = "array" =>
             accepted = (e = a /\ (w # 0 \/ Len(e) = 0 \/ Len(e) > BufLen))
        /\ call.kind = "each" =>
             accepted = \A k \in DOMAIN a : w # 0 /\ AsNumber(a[k]) = AsInt(e, Long)
        /\ call.kind \in {"string", "memory"} /\ accepted /\ call.n > 0 =>
             (e = 0 <=> a = 0)

\* A NaN is equal to and within no distance of any double, itself included, and
\* then the negated assertion accepts; a finite expected value accepts exactly
\* the doubles within its tolerance.  An infinite expected value is excepted.
FloatsAgree ==
    LET e == call.e  a == call.a
    IN  /\ call.kind \in {"float equal", "float within"} /\ NaN \in {e, a} =>
             accepted = call.negate
        /\ call.kind = "float equal" /\ e \in Finite =>
             accepted = (call.negate #
               \/ a \in Finite /\ Abs(e - a) * One <= Abs(e)
               \/ a \in Finite /\ Abs(e - a) <= 1)
        /\ call.kind = "float within" /\ {e, a} \subseteq Finite /\ call.delta \in Finite =>
             accepted = (call.negate # (a \in e - call.delta .. e + call.delta))
=============================================================================
