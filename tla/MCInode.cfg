SPECIFICATION Spec
CONSTANTS
    Procs = {p1, p2}
    NoProc = NoProc
    NUM_INODES = 3
    Inos = {1, 2, 3}
    Blocks = {1}
    Names = {x}
    NoName = NoName
    MAX_FAILED = 2
SYMMETRY Symmetry
INVARIANTS
    CacheSound
    SleepersWanted
    RefsCounted
    LinksCounted
    BlocksOwned
    CleanIsOnDisk
\* panic() ends everything
CHECK_DEADLOCK FALSE
