CONSTANTS
    Retries = 3
    ChipAt = 2
SPECIFICATION FairBoardSpec
INVARIANTS
    BootedConfigured
    LatchFollowsShadow
    QuietBoot
PROPERTY
    BootsWhenBusWorks
