CONSTANTS
    Nodes = {"vita", "keyboard"}
    Number <- MCNumber
    Device <- MCDevice
    Slots = {1, 2}
    CandidateCap = 2
    PendingCap = 2
    Keys = {1, 307}
    QueueCap = 5
    BufCap = 4
    MaxPresses = 3
    MaxRescans = 1
SPECIFICATION FairSpec
CHECK_DEADLOCK FALSE
INVARIANTS
    InputInv
    NoStuckKey
    OnePressOneAction
PROPERTIES
    LostDeviceClosed
    DesyncEnds
