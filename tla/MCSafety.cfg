SPECIFICATION SumSpec
CONSTANTS
  platform = platform
  gpu = gpu
  Queues = {platform, gpu}
  kUnmerged = kUnmerged
  MaxTime = 1
  MaxTasks = 3
  MaxMerges = 2
  LeaseTerm = 2
  Depth = 2
  MaxFrames = 3
  MaxFronts = 2
  MaxRedraws = 1
  MaxSurfaces = 2
  KernelLists <- KernelListsOfTwo
  WindowStates = {"v", "w"}
  DefaultWindow = "v"
  Children = {"c", "d"}
  MaxRuns = 2
  Devices = {1, 2}
  Locations = {0, 1}
  MaxPointers = 3
  EngineThreads = {"ui", "gpu"}
  Delays = {0, 1}
  MaxPosts = 2
  MaxClock = 3
INVARIANTS
   IsolateSafe ChildrenSafe PointersSafe EventLoopSafe
PROPERTY MergingSafe
CHECK_DEADLOCK FALSE
