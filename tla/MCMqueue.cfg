SPECIFICATION Spec
CONSTANTS
    NULL = NULL
    Tasks = {0, 1, 2}
    NumPriorities = 3
    RrTimeSlice = 2
    MaxTicks = 2
    MaxLock = 0
    WaitQueues = {qs, qr}
    AppPriorities = {0, 1}
    WakeInWindow = FALSE
    BlockWhileLocked = FALSE
    SendWait = qs
    RecvWait = qr
    MaxMsgs = 2
    Msgs = {a, b}
    HANDLER = HANDLER
    SenderSets = {{1}, {HANDLER}}
    ReceiverSets = {{2}, {HANDLER}}
    Timeouts = {NULL}
INVARIANTS
    TypeOK
    ListsMatchStates
    RingIsFifo
    NoMessageDropped
    NoPhantomMessage
    NoStandoff
