SPECIFICATION SystemSpec
CONSTANTS
    NULL = NULL
    Tasks = {0, 1, 2, 3}
    NumPriorities = 3
    RrTimeSlice = 1
    MaxTicks = 1
    MaxLock = 0
    WaitQueues = {s1}
    AppPriorities = {0, 1}
    WakeInWindow = FALSE
    BlockWhileLocked = FALSE
    Sems = {s1}
    InitialCount = 1
    MaxCount = 1
    Timeouts = {NULL}
    IsrSems = {s1}
    Managers = {1}
    Victims = {3}
    SuspendBlocked = FALSE
    DeleteTakers = FALSE
INVARIANTS
    SystemTypeOK
    ListsMatchStates
    UnitsConserved
    NoWaiterWhileFree
PROPERTIES
    HighestWaiterFirst
    ImplementsSem
    DeletedStaysDead
