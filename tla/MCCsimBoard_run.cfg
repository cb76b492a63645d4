SPECIFICATION Spec
CONSTANTS
  i1 = i1
  i2 = i2
  i3 = i3
  p1 = p1
  p1b = p1b
  p2 = p2
  p3 = p3
  Inst = {i1, i2, i3}
  Port = {p1, p1b, p2, p3}
  Core = {i1, i2}
  NULL = NULL
  Owner <- MCOwner
  Cross = FALSE
  MaxNest = 2
INVARIANTS LinkSymmetric OwnedSafe SteppedOnce AllFreed
CHECK_DEADLOCK FALSE
