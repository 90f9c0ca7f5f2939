SPECIFICATION Spec
CONSTANTS
    Timers = {x1, x2}
    NEAR = 2
    LEVEL = 2
    Delays = {0, 1, 3, 6, 16}
    MaxDiff = 1
    MaxZero = 1
INVARIANTS LinkedOnce OnTime
PROPERTIES InOrder EveryTimerFires
