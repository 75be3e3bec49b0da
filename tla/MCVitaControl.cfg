CONSTANTS
    Callers = {"a", "b"}
    Pids = {"p"}
    Intervals = {1, 2, 3}
    MaxInterval = 2
    Unit = 2
    MaxTime = 6
    MaxCalls = 3
    MaxTurns = 3
SPECIFICATION Spec
CHECK_DEADLOCK FALSE
INVARIANTS
    ControlInv
PROPERTIES
    AcceptsSpaced
