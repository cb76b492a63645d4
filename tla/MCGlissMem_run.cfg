SPECIFICATION Spec
CONSTANTS
  Builds <- MCBuilds
  PageSize = 4
  NbPages = 2
  H1 = 2
  H2 = 2
  Byte = {0, 1}
  Width = {2}
  Blocks <- MCBlocks
  Starts = {1, 3, 6}
  Bounds <- MCBounds
  MaxInfos = 2
  NULL = NULL
INVARIANTS Contained Spreads
PROPERTY ImplementsFlat
CHECK_DEADLOCK FALSE
