CONSTANTS
    BufferSize = 14
    ChunkSize = 5
    FrameSize = 4
    HeaderSize = 2
    MaxBody = 22
    OutRate = 3
    FramesPerWrite = 2
    Sounds <- MCSounds
SPECIFICATION FairPlaySpec
INVARIANTS
    TypeOK
    NothingLeft
    EveryFrameDecoded
    SoundInTime
    SoundComplete
PROPERTIES
    FailureReported
    StreamEnds
