SPECIFICATION FifoSpec
CONSTANTS
  Depth = 2
  Consumers = {c1, c2}
  MaxFrames = 4
  MaxFronts = 0
INVARIANT FifoSafety
PROPERTY ImplementsFifo
CHECK_DEADLOCK FALSE
