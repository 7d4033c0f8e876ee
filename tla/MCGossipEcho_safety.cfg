SPECIFICATION FairSpec
CONSTANTS
    Peer = {1, 2, 3}
    Root = 1
    None = None
    Links <- Triangle
    MaxFaults = 1
    MaxAsked = 1
    LastPhase = 2
INVARIANTS CountedOnce SettledIsExact
PROPERTIES SenderIsTold EveryHolderIsCounted
CHECK_DEADLOCK FALSE
