\* One row in the tables: two of the three frames are beyond them.
CONSTANTS
  FmetaSize = 1
  PacketSize = 2
  PacketPerFrameMax = 2
  PidModulus = 16
  JpegSizes <- Jpegs
  Bitstreams <- Units
  MaxSegs = 2
  SendErrors = TRUE
  MaxFrames = 3
SPECIFICATION FairSpec
INVARIANT TypeOK
INVARIANT FrameTiled
INVARIANT EncodedIntact
INVARIANT DumpsFinishedFrames
INVARIANT FeedbackFindsTable
INVARIANT StoresInTable
PROPERTY ShutdownCompletes
\* main() returns.
CHECK_DEADLOCK FALSE
