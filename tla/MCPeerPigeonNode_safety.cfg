SPECIFICATION FairSpec
CONSTANTS
  t1 = t1
  t2 = t2
  Tabs = {t1, t2}
  None = None
  MaxIds = 4
  Scenarios <- Some
INVARIANTS OneOfEach LiveIdentitiesStay
PROPERTIES WaitSettles
CHECK_DEADLOCK FALSE
