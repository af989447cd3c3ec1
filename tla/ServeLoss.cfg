CONSTANTS
  WaitTasks = FALSE
  MaxSends = 3
  MaxStops = 2
SPECIFICATION Spec
CHECK_DEADLOCK FALSE
PROPERTIES
  QueuedStartsRun
