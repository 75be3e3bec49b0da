--------------------------- MODULE MCAxisNormalize ---------------------------
EXTENDS AxisNormalize

\* No deadzone, the default, the widest accepted, and one that is refused.
MCDeadzones == {0, 15, 50, 51, -1}
=============================================================================
