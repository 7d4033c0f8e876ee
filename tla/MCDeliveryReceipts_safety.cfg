SPECIFICATION FairSpec
CONSTANTS
  Peers = {0, 1, 2}
  Sender = 0
  None = None
  Score <- Order
  MaxRepairs = 1
  Scenarios <- Some
INVARIANTS NoFalseReceipt ToldOnce RepairerExists
PROPERTIES SenderLearns
CHECK_DEADLOCK FALSE
