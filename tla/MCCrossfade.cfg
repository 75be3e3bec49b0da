CONSTANTS
    FadeFrames = 15
    Channels = {0, 1, 2, 100, 127, 128, 254, 255}
SPECIFICATION FadeSpec
CHECK_DEADLOCK FALSE
INVARIANTS
    WithinScenes
    NearSmoothstep
PROPERTY
    NoFlicker
