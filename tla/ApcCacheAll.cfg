SPECIFICATION Spec
CONSTANTS
    Procs = {p1, p2}
    Blocks = {b1, b2, b3}
    FileKeys = {f}
    UserKeys = {k, l}
    Mtimes = {1, 2}
    UserTtls = {1}
    CacheTtl <- MCCacheTtl
    GcTtl = 1
    MaxTime = 2
    MaxStack = 1
    MaxLeaks = 1
    MaxCalls = 4
    NULL = NULL
SYMMETRY Symmetry
INVARIANTS TypeOK RefCountsExact BlocksAccounted ChainsExact LocksExact
PROPERTY InUseOutlivesGcTtl
CHECK_DEADLOCK FALSE
