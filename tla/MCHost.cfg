SPECIFICATION FairHostSpec
CONSTANTS
    NULL = NULL
    Tasks = {0, 1, 2}
    NumPriorities = 3
    RrTimeSlice = 1
    MaxTicks = 2
    MaxLock = 1
    WaitQueues = {}
    AppPriorities = {0, 1}
    WakeInWindow = FALSE
    BlockWhileLocked = FALSE
    Managers = {1}
    Victims = {1, 2}
    SuspendBlocked = FALSE
    Stacks = {1, 2, 3}
INVARIANTS
    HostTypeOK
    ListsMatchStates
    MaskExact
    ContextsMatchTasks
PROPERTIES
    SleepEnds
    RoundRobinTurn
