CONSTANTS
  Accounts = {1, 2}
  Actions <- MCActions
  CREDIT = 2
  CHILDREN = 2
  k1 = k1
  k2 = k2
  k3 = k3
  k4 = k4
  Kids <- MCKids
  Free = Free
  Server = Server
  Dead = Dead
  ROUNDS = 2
  STARTS = 2
  SIGNALS = 1
  HANGUPS = 1
SPECIFICATION FairSpec
CHECK_DEADLOCK FALSE
INVARIANTS TypeOK Ledger
PROPERTIES AskingEnds ShutdownCleansUp
