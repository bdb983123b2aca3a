SPECIFICATION MCSpec
CONSTANTS
    ROWS = 3
    MAX_ROWS = 5
    MAX_COLS = 6
    Files <- MCFiles
    Keys = {"x", "d", "w", "c", "i", "a", "r", "h", "l", "j", "k", "0", "2", "G", "$", "esc", "[", "A", "B", "C", "D", "H", "F", "5", "6", "~", ":", "Z", "nl", "del", "sp"}
    Chars = {"x", "sp", "del"}
    MAX_KEYS = 7
    MAX_COUNT = 2
INVARIANTS
    CursorInText
PROPERTIES
    OthersKept
CHECK_DEADLOCK FALSE
