\* session_id() between reading and writing changes the file that is written.
SPECIFICATION Spec
CONSTANTS
    Procs = {p, q}
    Cookies = {A}
    NewIds = {B}
    Sizes <- Lengths
    MaxRequests = 3
    MaxCalls = 5
    MaxFaults = 0
    MaxBailouts = 0
    NULL = NULL
INVARIANT NothingOldIsLeft
