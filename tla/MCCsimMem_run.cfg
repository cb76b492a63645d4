SPECIFICATION Spec
CONSTANTS
  PageSize = 2
  NbPages = 2
  H1 = 2
  H2 = 2
  Byte = {0, 1}
  Width = {2}
  Sizes = {3}
  Starts = {1, 2}
  Bounds <- MCTwoPages
  MaxInfos = 2
  NULL = NULL
INVARIANTS TypeOK Intercepted
PROPERTY ImplementsFlat
CHECK_DEADLOCK FALSE
