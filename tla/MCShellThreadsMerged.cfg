SPECIFICATION ShellSpec
CONSTANTS
  t1 = t1
  t2 = t2
  t3 = t3
  t4 = t4
  Threads = {t1, t2, t3, t4}
  service = service
  None = None
  Configs <- FourThreads
  MaxSurfaces = 2
  MaxServices = 0
  MaxRestarts = 0
  MaxMerges = 1
INVARIANT NobodyWaitsForever
CHECK_DEADLOCK FALSE
