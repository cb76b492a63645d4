CONSTANTS
  X = X
  Sets <- MCSets
  Memories <- MCMemories
  WordSize = 3
  Chunk = 2
  UNKNOWN = UNKNOWN
SPECIFICATION Spec
INVARIANTS FetchFinds TestedBitsAgree
PROPERTIES FetchEnds
CHECK_DEADLOCK FALSE
