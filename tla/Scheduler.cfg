CONSTANTS
  a = a
  b = b
  c = c
  d = d
  S = S
  T = T
  E = E
  p = p
  q = q
  NoType = NoType
  NoSignal = NoSignal
  NoExec = NoExec
  NoState = NoState
  Ignored = Ignored
  Malformed = Malformed
  Exec <- MCExec
  ConfigIndex <- MCConfigIndex
  Deps <- MCDeps
  Triggers <- MCTriggers
  SignalType = {S, T, E}
  Payload = {p, q}
  Starts <- MCStarts
  EntryFor <- MCEntryFor
  Checkable = {T}
  TaskWaits <- MCTaskWaits
  Messages <- MCMessages
  Options <- MCOptions
  MaxRuns = 1
  MaxSends = 2
  MaxStops = 1
SPECIFICATION Spec
CHECK_DEADLOCK FALSE
INVARIANTS
  TypeOK
  NeededAreActive
  DepsBeforeDependents
  TriggersNotLost
  RecordedWereFollowed
  RunsOnce
  NeverStuck

PROPERTIES
  FinishedIsDone
  SavedPlanAdvances
