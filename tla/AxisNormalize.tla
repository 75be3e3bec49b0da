---------------------------- MODULE AxisNormalize ----------------------------
(***************************************************************************)
(* cart_input_axis_normalize of cart/src/input_normalize.c on one axis     *)
(* whose raw value climbs from the bottom of the integer range to the top. *)
(* Integers run from -Limit to Limit - 1, where int32_t has a Limit of     *)
(* 2^31; the span is computed in that width, everything else is widened.   *)
(***************************************************************************)
EXTENDS Integers

CONSTANTS
    Limit,          \* half the number of values of int32_t
    Deadzones       \* deadzone_pct values

ASSUME AxisAssumption == Limit \in Nat \ {0} /\ Deadzones \subseteq Int

IntMin == -Limit
IntMax == Limit - 1
Ints   == IntMin .. IntMax

VARIABLES
    range,          \* struct cart_input_axis_range
    raw             \* the value of the last EV_ABS

axisVars == <<range, raw>>

Invalid == "CART_INPUT_AXIS_INVALID"

\* C's division truncates towards zero.
Quotient(a, b) == IF a >= 0 THEN a \div b ELSE -((-a) \div b)

\* A sum that leaves the width wraps, as the build makes it.
Wrap(v) == ((v - IntMin) % (2 * Limit)) + IntMin

Clamp(v, r) == IF v < r.min THEN r.min ELSE IF v > r.max THEN r.max ELSE v

Span(r) == Wrap(r.max - r.min)

Half(r) == Quotient(Span(r) * r.deadzone_pct, 200)

\* Mutant: the deadzone is not centred.
LowMutant(r) == r.min + Quotient(Span(r), 2) - 2 * Half(r)
Low(r)  == r.min + Quotient(Span(r), 2) - Half(r)
High(r) == Low(r) + 2 * Half(r)

Accepted(r) == r.max > r.min /\ r.deadzone_pct \in 0 .. 50

\* Mutant: the negative side loses its sign.
NegativeMutant(c, r) == Quotient((Low(r) - c) * 100, Low(r) - r.min)
Negative(c, r) == Quotient((c - Low(r)) * 100, Low(r) - r.min)

Positive(c, r) == Quotient((c - High(r)) * 100, r.max - High(r))

Normalize(v, r) ==
    LET c == Clamp(v, r) IN
    IF ~Accepted(r) THEN Invalid
    ELSE IF c \in Low(r) .. High(r) THEN 0
    ELSE IF c < Low(r) THEN Negative(c, r) ELSE Positive(c, r)

AxisInit ==
    /\ range \in [min : Ints, max : Ints, deadzone_pct : Deadzones]
    /\ raw = IntMin

\* The axis moves up by one.
Push ==
    /\ raw < IntMax
    /\ raw' = raw + 1
    /\ UNCHANGED range

AxisSpec == AxisInit /\ [][Push]_axisVars

-----------------------------------------------------------------------------
(* Properties *)

\* "percent in [-100..100]" or the sentinel (input_normalize.h:15-16), also
\* where the span of the range overflows int32_t (input_normalize.c:38).
Percent ==
    IF Accepted(range) THEN Normalize(raw, range) \in -100 .. 100
                       ELSE Normalize(raw, range) = Invalid

\* The output follows the stick: pushing up never lowers it
\* (input_normalize.c:43-51).
Monotone ==
    [][Accepted(range) => Normalize(raw, range) <= Normalize(raw', range)]_axisVars

\* "full throw always reaches exactly +-100" (input_normalize.c:17-18), on every
\* range with a point between its ends and a span that fits int32_t.
FullThrowWide ==
    Accepted(range) /\ range.max - range.min \in 2 .. IntMax =>
        /\ raw <= range.min => Normalize(raw, range) = -100
        /\ raw >= range.max => Normalize(raw, range) = 100

\* The scale: a percentage on every range, and the ends reached on a wide one.
WellScaled == Percent /\ FullThrowWide

=============================================================================
