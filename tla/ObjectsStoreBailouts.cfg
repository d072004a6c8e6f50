SPECIFICATION LiveSpec
CONSTANTS
    Vars = {a}
    Props = {p}
    InitSize = 2
    MaxCreated = 2
    Destructors = {"none", "public", "private"}
    Interrupts = {"exit", "fatal", "exception", "memory_limit"}
INVARIANTS RefcountExact HandlesExact NoDanglingReference
PROPERTY RequestEnds
