CONSTANTS
  Size = 2
  Chunk = 2
  BitmapSize = 2
  WaitLimit = 2
  MaxFid = 2
  Packets <- ThreeFrames
SPECIFICATION Spec
INVARIANT DequeuesDelivered
