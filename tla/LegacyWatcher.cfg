CONSTANTS
  Size = 2
  Chunk = 2
  BitmapSize = 2
  WaitLimit = 2
  MaxFid = 2
  Packets <- ThreeFrames
SPECIFICATION FairSpec
INVARIANT TypeOK
INVARIANT SkipsOnlyTheOverdue
INVARIANT OnePayloadBehind
PROPERTY WindowSlides
PROPERTY PlayoutAdvances
