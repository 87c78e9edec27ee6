CONSTANTS
    Headers <- MCHeaders
    Streams <- MCStreams
    HdrSize = 1
    SideSize = 0
    ByteBits = 2
    MaxReservoir = 2
    MaxMatches = 2
    MaxFree = 3
    MaxBegin = 3
    MaxBits = 6
    Window = 4
    MaxShort = 5
    MaxLong = 9
SPECIFICATION Spec
INVARIANTS
    ReservoirInRange
    FramesReadOwnData
    NoFrameLost
    CleanStreamDecoded
CHECK_DEADLOCK FALSE
