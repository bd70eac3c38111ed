SPECIFICATION MonSpec
CONSTANTS
    p1 = p1
    c1 = c1
    NULL = NULL
    Proc <- One
    Caller <- OneCaller
    Period = 2
    Samples = 2
    BufdMax = 4
    MaxTasks = 1
    MaxRefs = 1
INVARIANTS
    MonTypeOK
    QuietRowsKept
CHECK_DEADLOCK FALSE
