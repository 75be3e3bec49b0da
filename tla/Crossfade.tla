------------------------------ MODULE Crossfade ------------------------------
(***************************************************************************)
(* One colour channel of one pixel through a crossfade: the frames a fade  *)
(* puts on the screen (cart/src/pstv-demo-cart.c, with the weight and the  *)
(* blend of TransitionOps), the steady scene after it included.            *)
(***************************************************************************)
EXTENDS TransitionOps

CONSTANT
    Channels        \* channel values of the outgoing scene

Channel == 0 .. 255

ASSUME CrossfadeAssumption ==
    /\ FadeFrames \in Nat \ {0}
    /\ Channels \subseteq Channel

VARIABLES
    low_from, low_to,   \* the channel in the two buffers
    elapsed             \* elapsed_frames; FadeFrames is the first steady frame

fadeVars == <<low_from, low_to, elapsed>>

FadeInit == low_from \in Channels /\ low_to \in Channel /\ elapsed = 0

Advance ==
    /\ elapsed < FadeFrames
    /\ elapsed' = elapsed + 1
    /\ UNCHANGED <<low_from, low_to>>

FadeSpec == FadeInit /\ [][Advance]_fadeVars

-----------------------------------------------------------------------------
(* Properties *)

Distance(a, b) == IF a < b THEN b - a ELSE a - b

\* No frame of a fade is brighter or darker than both scenes, whatever the
\* rounding of negative differences does, and its two ends are the scenes
\* exactly (canvas.c:76-78, transition.h:45-46, transition.c:89-97).
WithinScenes ==
    LET seen == Blend(low_from, low_to, elapsed)
    IN  /\ Distance(low_from, seen) + Distance(seen, low_to) = Distance(low_from, low_to)
        /\ elapsed = 0 => seen = low_from
        /\ elapsed = FadeFrames => seen = low_to

\* A fade has no flicker: the channel never turns back, and no two adjacent
\* frames, the steady one included, differ by more than a ninth of the cut
\* they replace plus rounding (transition.h:9-15, transition.c:48-52).
NoFlicker ==
    [][LET seen == Blend(low_from, low_to, elapsed)
           next == Blend(low_from, low_to, elapsed')
       IN  /\ Distance(next, low_to) <= Distance(seen, low_to)
           /\ 9 * Distance(seen, next) <= Distance(low_from, low_to) + 9]_fadeVars

\* The fixed-point weight is within one unit of the exact smoothstep
\* WeightMax * (3s^2 N - 2s^3) / N^3 for N frames (transition.c:64-73).
NearSmoothstep ==
    LET N == FadeFrames
        exact == WeightMax * elapsed * elapsed * (3 * N - 2 * elapsed)
    IN  Distance(Weight(elapsed) * N * N * N, exact) <= N * N * N

=============================================================================
