SPECIFICATION FairSpec
CONSTANTS
    p1 = p1
    p2 = p2
    noproc = noproc
    a = a
    b = b
    NULL = NULL
    ULONG_MAX = 1048575
    Pid <- One
    Proc <- One
    Names <- OwnPid
    Slot <- TwoSlots
    Periods = {1}
    ProcTimes = {0}
    MsPerJiffy = 1
    MaxJiffies = 1
    MaxCalls <- Calls22
PROPERTIES
    ExitCompletes
CHECK_DEADLOCK FALSE
