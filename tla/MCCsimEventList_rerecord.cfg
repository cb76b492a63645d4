SPECIFICATION Spec
CONSTANTS
  e1 = e1
  e2 = e2
  e3 = e3
  Event = {e1, e2, e3}
  NULL = NULL
  Period <- MCOneShot
  Horizon = 3
  MaxCalls = 3
  May = {"rerecord"}
PROPERTY OnlyTriggeredLeave
CHECK_DEADLOCK FALSE
