SPECIFICATION Spec
CONSTANTS
  MaxMessages = 3
  MaxPlatformCalls = 1
  MaxEngineRestarts = 1
  Capacities = {0, 2}
  Pictures = {"p", "q", "r"}
  Layers = {"l"}
  Unworthy = {"r"}
  AccessThreshold = 2
  LimitPerFrame = 1
  MaxItems = 3
  MaxRasterFailures = 1
  Textures = {1}
  MaxProduced = 2
  MaxTextureSurfaces = 2
  MaxDraws = 1
  Keys = {1, 2}
  TreeDepth = 2
  kMaxSurfaces = 2
  kMaxSurfaceAge = 2
  MaxPresented = 5
  Hosts = {"A", "B"}
  Plugins = {"p"}
  MaxPosted = 2
INVARIANTS
  MessagesSafe CacheSafe  PresentationSafe EmbeddingSafe
PROPERTIES
  NoResponsePendsForever CacheServes  PresentationLive ForegroundRendered
CHECK_DEADLOCK FALSE
