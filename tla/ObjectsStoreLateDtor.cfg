SPECIFICATION Spec
CONSTANTS
    Vars = {a}
    Props = {p}
    InitSize = 2
    MaxCreated = 3
    Destructors = {"public"}
    Interrupts = {"exit"}
INVARIANTS DestructorsBeforeClassTable
