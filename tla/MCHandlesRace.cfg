SPECIFICATION Spec
CONSTANTS
    Ctxs = {c1, c2, c3}
    NULL = NULL
    Names = {1}
    Space = 8
    Harbor = 8
    DefaultSize = 1
    DefaultCap = 1
    MaxLaunching = 2
SYMMETRY Symmetry
INVARIANTS NewSlotFree
CHECK_DEADLOCK FALSE
