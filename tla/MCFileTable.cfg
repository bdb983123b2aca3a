SPECIFICATION Spec
CONSTANTS
    Procs = {p1, p2}
    NoProc = NoProc
    NFILE = 3
    NOFILE = 2
    NPIPES = 1
    Inodes = {i1, root}
    Dir = root
    Null = Null
    Named = {i1}
    MAX_FAILED = 2
    SelfDup = FALSE
SYMMETRY Symmetry
INVARIANTS
    CountsExact
    WritersCounted
\* every process may exit
CHECK_DEADLOCK FALSE
