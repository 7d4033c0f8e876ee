SPECIFICATION FairSpec
CONSTANTS
  p1 = p1
  p2 = p2
  Peers = {p1, p2}
  Relays = 2
  None = None
  Setups <- Some
INVARIANTS NoDeafEdge SignalingTruthful EdgesAreOpen QuarantineHolds
PROPERTIES FailoverSparesEdges FindsPeers
CHECK_DEADLOCK FALSE
