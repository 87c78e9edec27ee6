CONSTANTS
    BufSize = 2
    MaxLen = 3
    ReplyCap = 3
    PromptStart = TRUE
    Polite = FALSE
SPECIFICATION Spec
INVARIANT
    ReplyAnswersMarker
