SPECIFICATION FairSpec
CONSTANTS
    BufferSize = 3
    NoByte = NoByte
    Sizes = {1, 2}
    MaxSent = 6
    HasTimeOut = TRUE
    MayRead = TRUE
INVARIANTS
    StreamIntact
    AsksForSomething
PROPERTIES
    LeavesRoomInBuffer
    EveryReadEnds
