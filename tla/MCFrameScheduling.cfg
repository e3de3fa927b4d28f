SPECIFICATION FairSpec
CONSTANTS
  Depth = 2
  MaxPackets = 3
INVARIANTS RequestsSafe PacketsSafe
PROPERTIES FramesBegin PacketsDelivered
