SPECIFICATION MCSpec
CONSTANTS
    NPROC = 2
    NFILE = 7
    CmdLines <- MCCmdLines
    Garbage <- MCGarbage
    Lines <- MCLines
    MAX_INDEX = 2
    Trees <- MCTrees
    Argvs <- MCArgvs
    SLOTS = 3
    MAX_PID = 5
    NTTY = 2
    Passwd <- MCPasswd
    Group <- MCGroup
    Crypt <- MCCrypt
    LoginNames = {"root", "oed", "nobody"}
    NGROUPS = 3
    NGROUPMEMB = 2
INVARIANTS
    PipesWired
    WordsPlaced
    Globbed
    OneSession
    Identified
CHECK_DEADLOCK FALSE
