SPECIFICATION FairSpec
CONSTANTS
    NPROC = 3
    MaxPid = 5
    NoProc = NoProc
INVARIANTS
    ParentAlive
    NoExitMissed
PROPERTIES
    IsLineage
    ZombiesCollected
