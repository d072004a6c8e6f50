\* Two processes, a session and the one it is regenerated as, with every fault and a bailout
\* out of encoding or decoding it.
SPECIFICATION LiveSpec
CONSTANTS
    Procs = {p, q}
    Cookies = {A}
    NewIds = {B}
    Sizes <- Lengths
    MaxRequests = 2
    MaxCalls = 3
    MaxFaults = 1
    MaxBailouts = 1
    NULL = NULL
INVARIANTS
    TypeOK
    LocksHeld
    ReadsAreCurrent
    WritesAreWhole
PROPERTY RequestEnds
