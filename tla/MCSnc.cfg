SPECIFICATION Spec
CONSTANTS
    MaxCo = 2
    MaxSession = 3
    MaxWait = 2
    Cells = 1
    MaxReq = 2
    MaxOther = 1
INVARIANTS TreeIsExact
PROPERTIES OwnAnswers
CHECK_DEADLOCK FALSE
