SPECIFICATION MCSpec
CONSTANTS
    Sigs = {2, 9, 15}
    SIGKILL = 9
    PIT_FREQ = 2
    TICKS = 6
    Seconds = {1, 2}
    MAX_KILLS = 3
INVARIANTS
    HandlersReturn
    SleepIsTimed
PROPERTIES
    KillEnds
CHECK_DEADLOCK FALSE
