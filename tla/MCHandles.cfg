SPECIFICATION Spec
CONSTANTS
    Ctxs = {c1, c2, c3}
    NULL = NULL
    Names = {1, 2}
    Space = 4
    Harbor = 4
    DefaultSize = 1
    DefaultCap = 1
    MaxLaunching = 1
SYMMETRY Symmetry
INVARIANTS Findable NamesAgree
PROPERTIES RetireAllComplete
