SPECIFICATION Spec
CONSTANTS
    o1 = o1
    o2 = o2
    o3 = o3
    m1 = m1
    m2 = m2
    p1 = p1
    p2 = p2
    NULL = NULL
    Obj <- ThreeLoads
    Map <- TwoMaps
    Prog <- TwoProgs
    MaxFd = 12
    MaxFiles = 2
INVARIANTS
    TypeOK
    
    FailedLoadCloses
    HandlesValid
    NothingHalfLoaded
SYMMETRY Symmetry
CHECK_DEADLOCK FALSE
