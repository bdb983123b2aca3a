SPECIFICATION Spec
CONSTANTS
    Procs = {p1, p2}
    NBUF = 3
    Blocks = {b1, b2, m1, n1}
    Maps = {m1}
    NoDrive = {n1}
    Null = Null
    Signalled = {p1}
INVARIANTS
    CacheConsistent
    BuffersLocked
    DirtyIsHeld
