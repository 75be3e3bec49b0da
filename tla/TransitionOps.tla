---------------------------- MODULE TransitionOps ----------------------------
(***************************************************************************)
(* cart/src/transition.c as functions: struct cart_transition and, on one  *)
(* colour channel, the eased weight and the blend, with cart_mix of        *)
(* cart/src/canvas.c.                                                      *)
(***************************************************************************)
EXTENDS Integers

CONSTANT
    FadeFrames      \* CART_TRANSITION_FRAMES

FixedOne  == 1024   \* FIXED_ONE
WeightMax == 256    \* CART_TRANSITION_WEIGHT_MAX

-----------------------------------------------------------------------------
(* struct cart_transition *)

TransitionBegin(from, to) ==
    [from_scene |-> from, to_scene |-> to, elapsed_frames |-> 0,
     active |-> from # to, sources_ready |-> FALSE]

TransitionAdvance(tr) ==
    [tr EXCEPT !.elapsed_frames = @ + 1, !.active = tr.elapsed_frames + 1 < FadeFrames]

SourcesNeedRender(tr) == tr.active /\ ~tr.sources_ready

-----------------------------------------------------------------------------
(* The blend *)

Lesser(a, b) == IF a < b THEN a ELSE b

\* Mutant: the cubic term is forgotten.
EasedMutant(t) == (3 * t * t) \div FixedOne

\* Smoothstep 3t^2 - 2t^3 in fixed point.  The code computes both terms at t^3
\* scale; factored, the product also fits the integers of the model checker.
Eased(t) == (t * t * (3 * FixedOne - 2 * t)) \div (FixedOne * FixedOne)

\* cart_transition_weight
Weight(s) ==
    IF s = 0 THEN 0
    ELSE IF s >= FadeFrames THEN WeightMax
    ELSE Lesser(WeightMax,
                (Eased((s * FixedOne) \div FadeFrames) * WeightMax + FixedOne \div 2)
                    \div FixedOne)

ClampChannel(v) == IF v < 0 THEN 0 ELSE IF v > 255 THEN 255 ELSE v

\* Mutant: the product is shifted as unsigned, so a darkening channel saturates.
MixMutant(a, b, amount) ==
    IF b < a /\ amount > 0 THEN 255 ELSE ClampChannel(a + ((b - a) * amount) \div 256)

\* cart_mix: >> 8 of a negative int rounds down, as \div does.
Mix(a, b, amount) == ClampChannel(a + ((b - a) * Lesser(amount, 256)) \div 256)

\* cart_transition_blend on this channel
Blend(a, b, s) ==
    IF Weight(s) = 0 THEN a ELSE IF Weight(s) >= WeightMax THEN b ELSE Mix(a, b, Weight(s))

=============================================================================
