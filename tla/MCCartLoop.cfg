CONSTANTS
    TimeMax = 22
    SceneCount = 3
    FramePeriod = 4
    ScenePeriod = 9
    MinChange = 13
    FadeFrames = 3
    Origins = {0, 18}
    Elapsed = {0, 1, 2, 9}
    SignalHold = 22
    KeyHold = 9
    MaxUsr1 = 2
    Jitter = 2
SPECIFICATION FairSpec
CHECK_DEADLOCK FALSE
INVARIANTS
    LoopInv
    PunctualFadeSettles
PROPERTIES
    NoHardCut
    WipedOnlyInCooldown
    FadeKeepsPace
    StopReleases
