SPECIFICATION AppSpec
CONSTANTS
    p1 = p1
    p2 = p2
    a = a
    b = b
    NULL = NULL
    ULONG_MAX = 1048575
    Pid <- Two
    Proc <- Two
    Names <- OwnPid
    Slot <- TwoSlots
    Periods = {1, 2}
    ProcTimes = {0}
    MsPerJiffy = 1
    MaxJiffies = 2
    MaxCalls <- Unbounded
    AppPeriod <- MCPeriod
    AppTime <- MCTime
    NumberOfJobs <- OneJob
INVARIANTS
    AppTypeOK
    RunningIsAwake

    
CHECK_DEADLOCK FALSE
