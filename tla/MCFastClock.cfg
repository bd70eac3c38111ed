SPECIFICATION FairSpec
CONSTANTS
    r1 = r1
    Reader <- OneReader
    HalfTurn = 2
    Rounds = 2
    MaxTime = 3
    MaxResumes = 1
INVARIANT TypeOK
PROPERTIES
    
    ReadsEnd
CHECK_DEADLOCK FALSE
