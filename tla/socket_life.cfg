SPECIFICATION Spec
CONSTANTS
    Object = {o1, o2}
    Handle = {h1, h2, h3}
    NoHandle = NoHandle
    Address = {a1, a2}
    NoAddress = NoAddress
    NoObject = NoObject
    MaxPending = 1
SYMMETRY Symmetry
INVARIANTS
    HandlesOwned
    OneLostPerAccept
    ConnectedAsTold
CHECK_DEADLOCK FALSE
