SPECIFICATION Spec
CONSTANTS
    c1 = c1
    c2 = c2
    l1 = l1
    l2 = l2
    NULL = NULL
    CPU <- TwoCPUs
    Lock <- OneLock
    ENTRIES_SIZE = 1
    MaxMoves = 1
    MaxViews = 0
INVARIANT PanicReleases
CHECK_DEADLOCK FALSE
