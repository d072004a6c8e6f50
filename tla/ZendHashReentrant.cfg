SPECIFICATION Spec
CONSTANTS
    a1 = a1
    a2 = a2
    a3 = a3
    a4 = a4
    d1 = d1
    d2 = d2
    d3 = d3
    d4 = d4
    Addr = {a1, a2, a3}
    Data = {d1, d2, d3}
    NULL = NULL
    Keys <- OrderKeys
    LongMax = 1
    InitTableSize = 2
    MaxDepth = 2
    Functions = {"add", "next_insert", "del", "pointer", "foreach", "graceful_reverse_destroy"}
    Reentrant = {"del", "graceful_reverse_destroy"}
SYMMETRY Symmetry
INVARIANTS StructureExact InternalPointerListed NeverBroken

