CONSTANTS
    WIFI_MAXIMUM_RETRY = 20
    MaxEvents = 3
SPECIFICATION FairSpec
INVARIANTS
    NeverIdleSilently
    GivesUpOnlyAfterAll
PROPERTY GivesUp
