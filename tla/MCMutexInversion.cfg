SPECIFICATION Spec
CONSTANTS
    NULL = NULL
    Tasks = {0, 1, 2, 3}
    NumPriorities = 4
    RrTimeSlice = 2
    MaxTicks = 1
    MaxLock = 0
    WaitQueues = {m1, m2}
    AppPriorities = {0, 1, 2}
    WakeInWindow = FALSE
    BlockWhileLocked = FALSE
    Mutexes = {m1, m2}
    Timeouts = {NULL}
    Nesting = FALSE
PROPERTIES
    NoInversion
