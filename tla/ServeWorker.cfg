CONSTANTS
  WaitTasks = TRUE
  MaxSends = 4
  MaxStops = 3
SPECIFICATION FairSpec
CHECK_DEADLOCK FALSE
INVARIANTS
  TypeOK
  RunIsSaved
  Numbered
PROPERTIES
  ServesInOrder
  KeptWhileUp
  CutShortIsResumed
  NotStarved
  StopsWhenAsked
