SPECIFICATION RasterSpec
CONSTANTS
  platform = platform
  gpu = gpu
  LeaseTerm = 1
  Depth = 2
  MaxFrames = 2
  MaxFronts = 0
  MaxRedraws = 1
  MaxSurfaces = 0
INVARIANT NoFrameLeftBehind
CHECK_DEADLOCK FALSE
