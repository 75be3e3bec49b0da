CONSTANTS
    MaxExits = 2
    MaxSignals = 2
    SlowRenderer = TRUE
    IoFails = TRUE
SPECIFICATION FairSpec
INVARIANTS
    ConsoleRecoverable
    StopRestores
    WrapperInv
PROPERTY
    ScriptsReturn
