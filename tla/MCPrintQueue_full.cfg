CONSTANTS
  c1 = c1  c2 = c2  c3 = c3
  None = None
  Clients <- MCClients
  Prios <- MCPrios
  mq_maxmsg = 1
  LIMIT = 2
  STARTS = 2
  KILLS = 2
CHECK_DEADLOCK FALSE
SPECIFICATION FairSpec
INVARIANTS TypeOK JobInOnePlace OwnFeedbackAlone
PROPERTY AnsweredAlone
