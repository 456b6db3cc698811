SPECIFICATION Spec
CONSTANTS
    BufferSize = 2
    NoByte = NoByte
    Sizes = {1, 2}
    MaxSent = 4
    HasTimeOut = TRUE
    MayRead = FALSE
INVARIANTS
    StreamIntact
