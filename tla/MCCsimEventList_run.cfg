SPECIFICATION Spec
CONSTANTS
  e1 = e1
  e2 = e2
  e3 = e3
  Event = {e1, e2, e3}
  NULL = NULL
  Period <- MCPeriod
  Horizon = 4
  MaxCalls = 2
  May = {}
PROPERTY ImplementsSchedule
CHECK_DEADLOCK FALSE
