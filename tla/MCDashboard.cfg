CONSTANTS
    Apps = {"a", "b"}
    Options <- MCOptions
    MaxFrames = 1
    MaxKeys = 2
    MaxSignals = 1
SPECIFICATION Spec
CHECK_DEADLOCK FALSE
INVARIANTS
    DashboardInv
PROPERTIES
    AlwaysEnds
