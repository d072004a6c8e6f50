SPECIFICATION Spec

CONSTANTS
    a = a
    b = b
    key1 = key1
    Servers = {a, b}
    Persistent = {a}
    Keys = {key1}
    Home <- HomeOf
    Order <- OrderOf
    MaxAttempts = 3
    Wakeup = TRUE
    EarlyErrors = TRUE
    MaxRequests = 3
    MaxElapses = 1
    GoesOn = FALSE
    NULL = NULL

INVARIANTS
    PipelineExact
    ListsExact
    RunsToCompletion
