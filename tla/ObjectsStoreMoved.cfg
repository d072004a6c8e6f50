SPECIFICATION Spec
CONSTANTS
    Vars = {a}
    Props = {p}
    InitSize = 3
    MaxCreated = 3
    Destructors = {"public"}
    Interrupts = {}
INVARIANTS ObjPointerFresh
