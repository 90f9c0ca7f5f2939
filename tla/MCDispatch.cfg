SPECIFICATION Spec
CONSTANTS
    s1 = s1
    s2 = s2
    w1 = w1
    w2 = w2
    Ctx = {s1, s2}
    Boot = {s1}
    Worker = {w1, w2}
    Ext = {e}
    Weight <- MCWeight
    None = None
    MaxSend = 2
INVARIANTS OneOwner NoUseAfterFree OrderKept
PROPERTIES EveryMessageServed DropsReported RetiredIsFreed
CHECK_DEADLOCK FALSE
