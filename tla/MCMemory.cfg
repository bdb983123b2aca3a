SPECIFICATION Spec
CONSTANTS
    NPROC = 2
    PAGES = 12
    BYTE = 4
    KERNEL_END = 1
    TABLE_LEN = 4
    USER_TEXT = 1
    USER_USTACK = 3
    PAGE_SIZE = 2
    STACK_SIZE = 64
    MAX_BRK = 4
    MAX_TEXT = 1
    Strings <- MCStrings
INVARIANTS
    PagesAccounted
    AddressSpaces
    NothingStale
    StackLaidOut
\* panic() ends everything
CHECK_DEADLOCK FALSE
