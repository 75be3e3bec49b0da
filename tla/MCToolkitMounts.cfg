CONSTANTS
    Images = {"v1", "v2"}
    Contents <- MCContents
    Jobs = {1, 2}
    WaitRounds = 1
    MaxCommands = 2
    MaxEdits = 1
SPECIFICATION Spec
CHECK_DEADLOCK FALSE
INVARIANTS
    
    MountInv
PROPERTIES
    StopTakesOwn
