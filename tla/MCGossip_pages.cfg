SPECIFICATION FairSpec
CONSTANTS
    Peer = {1, 2, 3}
    Msg = {m1, m2}
    m1 = m1
    m2 = m2
    None = None
    Skew <- SameClock
    SpreadTimeout = 1
    TrackingRetention = 2
    CleanupAges = {}
    MaxTracked = 2
    SummarySize = 2
    RequestSize = 1
    MaxHops = 1
    Links <- Line
    InitialLinks = {{1, 2}}
    InitialView <- EveryoneLive
    Views = {}
    MaxTime = 0
    MaxFaults = 1
    MaxInFlight = 1
PROPERTY Convergence
CHECK_DEADLOCK FALSE
