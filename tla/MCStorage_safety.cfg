SPECIFICATION FairSpec
CONSTANTS
  a = a
  b = b
  Instances = {a, b}
  Setups <- AllSetups
  PeerIdUsers = {"hex"}
  Filters = {TRUE}
  None = None
  MaxCalls = 3
  MaxSubs = 1
  MaxTick = 1
INVARIANTS QuietReplicasAgree TabsAgree
PROPERTIES OnlyOverlapRegresses OwnerStays RetrieveSettles
CHECK_DEADLOCK FALSE
