SPECIFICATION Spec
CONSTANTS
    a1 = a1
    a2 = a2
    a3 = a3
    a4 = a4
    d1 = d1
    d2 = d2
    d3 = d3
    d4 = d4
    Addr = {a1, a2, a3}
    Data = {d1, d2, d3}
    NULL = NULL
    Keys <- OperationsKeys
    LongMax = 3
    InitTableSize = 2
    MaxDepth = 2
    Functions = {"add", "next_insert", "update", "del", "update_current_key", "clean", "pointer", "sort", "apply", "reverse_apply", "graceful_destroy", "graceful_reverse_destroy"}
    Reentrant = {}
SYMMETRY Symmetry
INVARIANTS TypeOK StructureExact LookupExact MemoryExact CopyFaithful
PROPERTY IsOrderedMap
