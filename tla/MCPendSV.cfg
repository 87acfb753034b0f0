SPECIFICATION PortSpec
CONSTANTS
    NULL = NULL
    MAIN = MAIN
    NONE = NONE
    Tasks = {0, 1, 2, 3}
    NumPriorities = 3
    RrTimeSlice = 2
    MaxTicks = 2
    MaxLock = 1
    WaitQueues = {}
    AppPriorities = {0, 1}
    WakeInWindow = FALSE
    BlockWhileLocked = FALSE
    Managers = {1}
    Victims = {3}
    SuspendBlocked = FALSE
    Fragile = {3}
CHECK_DEADLOCK FALSE
INVARIANTS
    TypeOK
    PortTypeOK
    ListsMatchStates
    NoEndlessWalk
    OneRunning
    AlarmCoversSleepers
    QueuedAtPriority
    NoOversleep
    ContextsIntact
    OverflowCaught
PROPERTIES
    OnlyTwoRaces
