SPECIFICATION Spec
CONSTANTS
  Depth = 2
  Consumers = {c1}
  MaxFrames = 4
  MaxFronts = 1
INVARIANT NeverPopsEmpty
CHECK_DEADLOCK FALSE
