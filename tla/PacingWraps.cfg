CONSTANTS
  Period = 3
  Modulus = 16
  WorkMax = 8
  SleepMax = 2
  MaxFid = 6
SPECIFICATION Spec
INVARIANT NotAheadOfSchedule
\* The bound MaxFid.
CHECK_DEADLOCK FALSE
