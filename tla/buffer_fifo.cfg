SPECIFICATION Spec
CONSTANTS
    N = 3
    Value = {v1, v2}
    NoValue = NoValue
    MaxCount = 4
    MayFill = FALSE
INVARIANTS
    PointerKept
PROPERTIES
    ImplementsFifo
