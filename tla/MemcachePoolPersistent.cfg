SPECIFICATION Spec

CONSTANTS
    a = a
    b = b
    key1 = key1
    Servers = {a, b}
    Persistent = {a}
    Keys = {key1}
    Home <- HomeOf
    Order <- OrderOf
    MaxAttempts = 3
    Wakeup = FALSE
    EarlyErrors = FALSE
    MaxRequests = 3
    MaxElapses = 1
    GoesOn = TRUE
    NULL = NULL

INVARIANTS
    GetsItsOwn
