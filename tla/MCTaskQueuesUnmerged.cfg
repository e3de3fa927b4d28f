SPECIFICATION UnmergedFairSpec
CONSTANTS
  platform = platform
  gpu = gpu
  Queues = {platform, gpu}
  kUnmerged = kUnmerged
  MaxTime = 2
  MaxTasks = 3
  MaxMerges = 0
INVARIANTS WakesInTime OnceInOrder
PROPERTY EventuallyRun
CHECK_DEADLOCK FALSE
