SPECIFICATION Spec
CONSTANTS
    c1 = c1
    c2 = c2
    l1 = l1
    l2 = l2
    NULL = NULL
    CPU <- TwoCPUs
    Lock <- TwoLocks
    ENTRIES_SIZE = 1
    MaxMoves = 1
    MaxViews = 1
INVARIANTS
    TypeOK
    ViewsInside
    GuardsOwnLocks
SYMMETRY Symmetry
CHECK_DEADLOCK FALSE
