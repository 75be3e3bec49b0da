CONSTANTS
    TimeMax = 14
    SceneCount = 3
    FramePeriod = 2
    ScenePeriod = 4
    MinChange = 3
    Starts = {0, 1, 11, 13}
    Holds = {0, 2, 9}
SPECIFICATION RuntimeSpec
CHECK_DEADLOCK FALSE
INVARIANTS
    RuntimeInv
PROPERTIES
    ChangesSpaced
    HoldLasts
