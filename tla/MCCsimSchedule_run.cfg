SPECIFICATION FairSpec
CONSTANTS
  e1 = e1
  e2 = e2
  e3 = e3
  Event = {e1, e2, e3}
  NULL = NULL
  Period <- MCPeriod
  Horizon = 4
  MaxCalls = 2
INVARIANTS PrevSound InTime
PROPERTIES NothingLost Delivered RunReturns
CHECK_DEADLOCK FALSE
