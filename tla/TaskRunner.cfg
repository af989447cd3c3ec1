CONSTANTS
  k = k
  m = m
  N = 5
  Key = {k, m}
  Tasks <- MCTasks
  ExecHooks <- MCHooks
  SkipOptions <- MCSkips
  MaxStops = 2
SPECIFICATION FairSpec
CHECK_DEADLOCK FALSE
INVARIANTS
  TypeOK
  RecordedWasDone
  AgentNotRepeated
  SavedInOrder
  GotoBounded
PROPERTY
  Settles
