CONSTANTS
    Char <- SomeChars
    MaxLen = 3
    CommLen = 4
    MaxN = 5
    WordMax = 3
    Count = 5
    Depth = 2
    Fields = 2
    NCPU = 2
    Value <- SomeBits
    EINVAL = 22
    Numeric <- U8
    Name <- U8AndBool
SPECIFICATION Spec
CHECK_DEADLOCK FALSE
INVARIANTS
    TypeOK
    CompareIsOrder
    CommIsString
    ChecksumVerifies
    
    AcceptedIsPlain
