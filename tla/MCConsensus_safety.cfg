SPECIFICATION FairCecr
CONSTANTS
  Peers = {0, 1, 2, 3}
  Null = Null
  Rounds = 2
  MaxAge = 3
  ClockSkew = 1
  Fastest = 3
  EchoSize = 5
  Scenarios <- Some
INVARIANTS NeighboursAgree
PROPERTIES ConsensusComes MarksFade
CHECK_DEADLOCK FALSE
