SPECIFICATION ShellFairSpec
CONSTANTS
  t1 = t1
  t2 = t2
  t3 = t3
  t4 = t4
  Threads = {t1, t2, t3, t4}
  service = service
  None = None
  Configs <- FourThreads
  MaxSurfaces = 2
  MaxServices = 1
  MaxRestarts = 1
  MaxMerges = 0
PROPERTY RestartFlushes
CHECK_DEADLOCK FALSE
