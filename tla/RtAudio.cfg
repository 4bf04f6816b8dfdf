CONSTANTS
  Apis = {"ALSA", "PULSE", "OSS", "DS", "WASAPI", "CORE", "JACK", "ASIO"}
  MaxOpens = 2
  MaxStarts = 2
SPECIFICATION FairSpec
CHECK_DEADLOCK FALSE
INVARIANTS TypeOK ThreadOwnsHandle ClosedOwnsNothing RunningHasDevice AtMostOneLate SelfStopPlaysOut
PROPERTIES EndedIsEnded OnlyOpenStreamOpens CloseReturns
