SPECIFICATION MCSpec
CONSTANTS
    NALLOC = 4
    MAX_HEAP = 9
    Units = {1, 2, 5}
    FOREIGN = 1
    STREAMS = 2
    BUFSIZ = 2
    Newlines = {2}
    MAX_BYTES = 4
    MAX_CALL = 3
    Objects = {1, 2, 3, 4}
    Names <- MCNames
    Values <- MCValues
    OnStack <- MCOnStack
INVARIANTS
    HeapSound
    BytesKept
    EnvKept
