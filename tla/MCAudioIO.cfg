CONSTANTS
    PlayRequests <- MCPlayRequests
    LateCap = 3
SPECIFICATION FairSpec
INVARIANTS
    TxExclusive
    PlayFlagPreserved
    OutputFollowsMode
PROPERTIES
    ImplementsTransmitter
    BackgroundResumes
