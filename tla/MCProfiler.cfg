SPECIFICATION FairSpec
CONSTANTS
    p1 = p1
    p2 = p2
    c1 = c1
    c2 = c2
    NULL = NULL
    Proc <- Two
    Caller <- TwoCallers
    Period = 2
    Samples = 1
    MaxTasks = 2
    MaxRefs = 1
INVARIANTS
    TypeOK
    WorkAlive
    RingAlive
PROPERTIES
    
    SamplingGoesOn
CHECK_DEADLOCK FALSE
