CONSTANTS
  FmetaSize = 2
  PacketSize = 2
  PacketPerFrameMax = 3
  PidModulus = 16
  JpegSizes <- Jpegs
  Bitstreams <- Units
  MaxSegs = 2
  SendErrors = FALSE
  MaxFrames = 2
SPECIFICATION Spec
INVARIANT AnsweredIsRecorded
\* main() returns.
CHECK_DEADLOCK FALSE
