SPECIFICATION PoolSpec
CONSTANTS
    Worker = {w1, w2}
    Io = {i1}
    Clock = Clock
    NoThread = NoThread
    MaxArrive = 3
    MaxPosted = 2
PROPERTIES WorkersTerminate
CHECK_DEADLOCK FALSE
