SPECIFICATION SystemSpec
CONSTANTS
    NULL = NULL
    Tasks = {0, 1, 2}
    NumPriorities = 3
    RrTimeSlice = 2
    MaxTicks = 0
    MaxLock = 0
    WaitQueues = {s1}
    AppPriorities = {0, 1}
    WakeInWindow = FALSE
    BlockWhileLocked = FALSE
    Sems = {s1}
    InitialCount = 0
    MaxCount = 1
    Timeouts = {NULL}
    IsrSems = {}
    Managers = {1}
    Victims = {2}
    SuspendBlocked = FALSE
    DeleteTakers = TRUE
PROPERTIES
    DeletedStaysDead
