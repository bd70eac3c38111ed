SPECIFICATION Spec
CONSTANTS
    p1 = p1
    p2 = p2
    noproc = noproc
    a = a
    b = b
    NULL = NULL
    ULONG_MAX = 1048575
    Pid <- PidsAndNone
    Proc <- Two
    Names <- AnyAndNone
    Slot <- TwoSlots
    Periods = {0, 1}
    ProcTimes = {0}
    MsPerJiffy = 1
    MaxJiffies = 1
    MaxCalls <- Calls42
INVARIANTS
    TypeOK
    NoLostWakeup
    ListIntegrity
    OneRunningTask
PROPERTIES
    ReleaseChain
SYMMETRY Symmetry
CHECK_DEADLOCK FALSE
