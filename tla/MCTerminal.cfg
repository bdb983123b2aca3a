SPECIFICATION MCSpec
CONSTANTS
    Procs = {1, 2}
    Pgrp <- MCPgrp
    Counts <- MCCounts
    RX = 3
    Prompt <- MCPrompt
    Lflags <- MCLflags
    VGA_WIDTH = 10
    VGA_HEIGHT = 3
    UINT16 = 64
    UINT32 = 256
    MAX_ARGS = 3
    MAX_ARG = 12
    NBYTES = 2
INVARIANTS
    EchoIsLine
    InputWakes
    CursorOnScreen
