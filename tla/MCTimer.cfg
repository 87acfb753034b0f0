SPECIFICATION Spec
CONSTANTS
    Reload = 7
    TicksPerUs = 2
    Delays = {1, 3, 4}
    Horizon = 24
    NONE = NONE
CHECK_DEADLOCK FALSE
PROPERTIES
    SleepsLongEnough
