CONSTANTS
    MaxExits = 1
    MaxSignals = 0
    SlowRenderer = FALSE
    IoFails = FALSE
SPECIFICATION Spec
INVARIANT
    StopAlwaysRebinds
