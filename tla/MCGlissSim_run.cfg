CONSTANTS
  Slots = 6
  w1 = w1
  w2 = w2
  back = back
  Word <- MCWord
  Target <- MCTarget
  Programs <- MCPrograms
  Rewrites <- MCRewrites
  Exits <- MCExits
  Starts <- MCStarts
  Policies = {"plain", "inf", "fixed", "lru", "trace", "dtrace"}
  Size = 1
  Depth <- MCDepth
  TraceDepth = 2
  NULL = NULL
SPECIFICATION Spec
INVARIANTS EntriesTrue Retained NoLeak StopsAtExit
PROPERTIES ImplementsFlat RunsReturn
CHECK_DEADLOCK FALSE
