CONSTANTS
    t1 = t1
    t2 = t2
    Tasks = {t1, t2}
    Flaky = TRUE
SPECIFICATION FairSpec
INVARIANTS
    OneSession
    BusyFlagTruthful
    ChannelsUsedWhenEnabled
PROPERTY BusyFlagFalls
