SPECIFICATION FairSpec
CONSTANTS
    Procs = {p1, p2}
    NoProc = NoProc
    Byte = {a, b}
    NoByte = NoByte
    PIPE_BUF = 2
    SizeMod = 4
    MaxBytes = 2
    Signalled = {p1}
INVARIANTS
    NoLostWakeup
PROPERTIES
    ZeroMeansEof
    IsChannel
    CallsProceed
\* every process may exit
CHECK_DEADLOCK FALSE
