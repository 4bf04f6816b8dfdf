CONSTANTS
  Size = 3
  MaxRecords = 7
SPECIFICATION FairSpec
INVARIANT TypeOK
INVARIANT Discipline
PROPERTY ImplementsQueue
PROPERTY PublishedIsSent
\* The renderer stops after MaxRecords; the receiver never does.
