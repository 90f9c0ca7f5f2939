SPECIFICATION Spec
CONSTANTS
    MaxCo = 2
    MaxSession = 3
    MaxWait = 2
    Cells = 2
    MaxReq = 1
    MaxOther = 0
PROPERTIES OnlyRacesHang
CHECK_DEADLOCK FALSE
