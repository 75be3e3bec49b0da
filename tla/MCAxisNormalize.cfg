CONSTANTS
    Limit = 16
    Deadzones <- MCDeadzones
SPECIFICATION AxisSpec
CHECK_DEADLOCK FALSE
INVARIANTS
    WellScaled
PROPERTY
    Monotone
