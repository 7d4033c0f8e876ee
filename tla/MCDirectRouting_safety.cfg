SPECIFICATION FairRouting
CONSTANTS
    Peer = {0, 1, 2, 3, 4, 6}
    Msg = {m1}
    Unsent = Unsent
    IdWidth = 3
    Distance <- XorDistance
    Bounds = {1, 2, 4}
    MaxDirectHops = 3
    Overlays <- SparseOrRing
    MaxChanges = 1
    MaxFailedSends = 1
INVARIANTS NoRouteLoop
PROPERTY DeliveredWhenCovered
CHECK_DEADLOCK FALSE
