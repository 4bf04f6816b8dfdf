CONSTANTS
  Size = 2
  Chunk = 2
  PidLimit = 2
  WaitLimit = 0
  MaxFid = 3
  Packets <- WindowPackets
SPECIFICATION Spec
INVARIANT CopiedBitmapIsOwn
