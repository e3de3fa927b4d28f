SPECIFICATION Spec
CONSTANTS
  t1 = t1
  t2 = t2
  t3 = t3
  t4 = t4
  Threads = {t1, t2, t3, t4}
  service = service
  None = None
  Configs <- AllConfigs
  MaxSurfaces = 4
  MaxServices = 2
  MaxRestarts = 1
  MaxMerges = 2
  WorkerCount = 2
  Clients = {11}
  VM = 12
  Tasks = {"t", "u", "v"}
  NoTask = "no"
  Waiters = {"a", "b"}
  MaxSignals = 3
  MaxResets = 1
  DueTasks = {"a", "b"}
  DelayedTasks = {"c"}
  LoopPosters = {"p", "q"}
  MaxLoopMerges = 1
  Shells = {"x", "y", "z"}
  MaxLaunches = 3
  BatchSize = 2
  MaxTimedFrames = 3
  MaxViews = 2
  Images = {1, 2}
  FrameCalls = {1, 2}
  MaxSwitches = 2
  FrameCount = 3
  MaxCalls = 4
  MaxFailures = 1
  CreationThreads = {t1, t2, t3, t4}
  CreationConfigs <- EveryConfig
INVARIANTS
  PoolSafe LoopsSafe VMSafe  ImageSafe
PROPERTIES
  PoolLive EventSafe JoinReturns VMEnds EveryCallReturns  ImageLive
   ShellCreated
CHECK_DEADLOCK FALSE
