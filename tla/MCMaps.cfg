CONSTANTS
    CPU = {c1, c2}
    Pid <- TwoPids
    Slot = {s1, s2}
    Capacity = 2
    MaxRecords = 4
    NULL = NULL
    EINVAL = 22
    ENOENT = 2
    ENOMEM = 12
    E2BIG = 7
SPECIFICATION FairSpec
CHECK_DEADLOCK FALSE
INVARIANTS
    TypeOK
    CleanAfter
    AloneSucceeds
    
    QueueServes
PROPERTIES
    RecordsDelivered
