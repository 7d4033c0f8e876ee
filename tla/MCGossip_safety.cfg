SPECIFICATION Spec
CONSTANTS
    Peer = {1, 2, 3}
    Msg = {m1}
    m1 = m1
    m2 = m2
    None = None
    Skew <- LastPeerAhead
    SpreadTimeout = 1
    TrackingRetention = 2
    CleanupAges = {2}
    MaxTracked = 1
    SummarySize = 1
    RequestSize = 1
    MaxHops = 1
    Links <- Line
    InitialLinks <- Line
    InitialView <- EveryoneLive
    Views = {{1, 2, 3}, {1, 2}}
    MaxTime = 4
    MaxFaults = 1
    MaxInFlight = 1
INVARIANTS AtMostOnce RetainedAreLogged
PROPERTY PromiseKept
CHECK_DEADLOCK FALSE
