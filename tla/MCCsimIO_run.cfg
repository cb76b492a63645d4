SPECIFICATION Spec
CONSTANTS
  i1 = i1
  i2 = i2
  i3 = i3
  Inst = {i1, i2, i3}
  PageSize = 4
  NbPages = 3
  IoUnit = 2
  IoSize = 2
  Base <- MCBase
  Regs <- MCRegs
  Starts = {0, 2, 4, 5, 6, 8, 11}
  NULL = NULL
  May = {"delete", "outlive", "remove"}
INVARIANTS Reachable OnlyRegisterPages
PROPERTY Dispatched
CHECK_DEADLOCK FALSE
