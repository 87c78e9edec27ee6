CONSTANTS
    Senders = {s1, s2}
    BufferSize = 2
    Lengths = {0, 2, 3, 4}
    Cap = 3
    MaxLen = 4
SPECIFICATION BothSpec
INVARIANTS
    HoldsOneMessage
    FramesFormMessages
    NothingHalfSent
PROPERTY
    AnnouncedWhenComplete
