SPECIFICATION Spec
CONSTANTS
  platform = platform
  gpu = gpu
  Queues = {platform, gpu}
  kUnmerged = kUnmerged
  MaxTime = 2
  MaxTasks = 2
  MaxMerges = 1
SYMMETRY Symmetry
INVARIANT WakesInTime
CHECK_DEADLOCK FALSE
