CONSTANTS
  a = a
  b = b
  s = s
  Peers = {a, b}
  Subject = s
  Setups <- AllSetups
  LeaseMs = 3
  GossipIntervalMs = 1
  TombstoneRetentionMs = 6
  ClockSkewMs = 1
  None = None
  MaxTime = 9
  MaxNet = 1
SPECIFICATION FairSpec
INVARIANTS ListsTheLatest NoFalseEquivocation ForwardingKeepsTheLease ToldOfTheListed
PROPERTIES DepartedIsForgotten
CHECK_DEADLOCK FALSE
