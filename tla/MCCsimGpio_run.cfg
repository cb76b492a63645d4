SPECIFICATION GpioFairSpec
CONSTANTS
  g1 = g1
  g2 = g2
  Gpios = {g1, g2}
  NbPins = 3
  Links <- MCLinks
  Words <- MCWords
  Modes <- MCModes
  Stack = 4
  NONE = NONE
INVARIANT DepthBounded
PROPERTY CascadeEnds
CHECK_DEADLOCK FALSE
