CONSTANTS
    BufSize = 2
    MaxLen = 3
    ReplyCap = 3
    PromptStart = TRUE
    Polite = TRUE
SPECIFICATION FairSpec
INVARIANTS
    LockDiscipline
    ConnectedMeansOpen
    NoUseAfterFree
    NothingLeaked
    DataHandledByClientTask
    ReplyAnswersMarker
PROPERTIES
    SessionEnds
