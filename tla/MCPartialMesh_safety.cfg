CONSTANTS
  a = a
  b = b
  c = c
  Peers = {a, b, c}
  Setups <- AllSetups
  Pause <- Durations
  Backoff <- Doubling
  None = None
  MaxFailures = 3
  MaxFaults = 1
SPECIFICATION FairSpec
INVARIANTS DegreeBound SlotsAccounted
PROPERTIES AdmissionKeepsReach IsolatedRecovers
CHECK_DEADLOCK FALSE
