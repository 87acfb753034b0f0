SPECIFICATION FairSpec
CONSTANTS
    NULL = NULL
    Tasks = {0, 1}
    NumPriorities = 3
    RrTimeSlice = 2
    MaxTicks = 2
    MaxLock = 0
    WaitQueues = {s1}
    AppPriorities = {0, 1}
    WakeInWindow = FALSE
    BlockWhileLocked = FALSE
    Sems = {s1}
    InitialCount = 0
    MaxCount = 1
    Timeouts = {1}
    IsrSems = {}
PROPERTIES
    TimedTakeEnds
