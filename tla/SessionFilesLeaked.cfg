\* A session_start after a bailout out of encoding or decoding a session leaks the lock.
SPECIFICATION Spec
CONSTANTS
    Procs = {p}
    Cookies = {A}
    NewIds = {B}
    Sizes <- Lengths
    MaxRequests = 2
    MaxCalls = 4
    MaxFaults = 0
    MaxBailouts = 1
    NULL = NULL
INVARIANT LocksNeverLeaked
