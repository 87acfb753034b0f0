SPECIFICATION Spec
CONSTANTS
    NULL = NULL
    Tasks = {0, 1, 2}
    NumPriorities = 3
    RrTimeSlice = 2
    MaxTicks = 1
    MaxLock = 0
    WaitQueues = {}
    AppPriorities = {0, 1}
    WakeInWindow = FALSE
    BlockWhileLocked = FALSE
    Managers = {}
    Victims = {}
    SuspendBlocked = FALSE
PROPERTIES
    NotPreemptedByLower
