SPECIFICATION FairSpec
CONSTANTS
  Peers = {0, 1, 2}
  Sender = 0
  None = None
  Score <- Order
  MaxRepairs = 3
  Scenarios <- Joined
PROPERTY ReceiptLossRepaired
CHECK_DEADLOCK FALSE
