SPECIFICATION Spec
CONSTANTS
    p1 = p1
    p2 = p2
    Procs <- TwoProcs
    Funcs <- TwoFuncs
    DebugProcs <- First
    EvaluateProcs <- TwoProcs
    LOG_MAX_DAY = 1
    TicksPerDay = 1
    Printed <- Rounded
    MaxTime = 3
    MaxCalls = 5
INVARIANTS
    LoggedInOrder
    TableReadsBack
CHECK_DEADLOCK FALSE
