CONSTANTS
  Size = 2
  Chunk = 2
  PidLimit = 2
  WaitLimit = 0
  MaxFid = 2
  Packets <- LapPackets
SPECIFICATION FairSpec
INVARIANT TypeOK
INVARIANT SlotsAreTheWindow
INVARIANT NoMisplacement
PROPERTY InOrder
PROPERTY AcceptedNotStale
PROPERTY PlayoutAdvances
