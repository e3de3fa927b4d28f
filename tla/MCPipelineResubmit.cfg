SPECIFICATION Spec
CONSTANTS
  Depth = 2
  Consumers = {c1, c2}
  MaxFrames = 4
  MaxFronts = 2
INVARIANT ResourceAccount
CHECK_DEADLOCK FALSE
