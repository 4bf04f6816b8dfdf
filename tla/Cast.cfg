\* A frame every 2 polls, given up after 5 polls; in the code 66 and 334.
CONSTANTS
  Size = 8
  Delay = 1
  WaitLimit = 4
  PollsPerFrame = 2
  MaxDelay = 3
  MaxLost = 2
  MaxRaces = 1
  RaceBy = 5
  QuitBy = 6
  Horizon = 36
  MaxRuns = 2
  RecoverTicks = 22
  MaxLag = 5
SPECIFICATION FairSpec
INVARIANT TypeOK
INVARIANT Recovers
INVARIANT NeverLapped
PROPERTY NeverBack
PROPERTY CrashesOnlyAfterRestart
PROPERTY ShutdownEnds
\* The clock stops at Horizon.
CHECK_DEADLOCK FALSE
