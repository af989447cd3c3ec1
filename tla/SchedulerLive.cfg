CONSTANTS
  a = a
  b = b
  c = c
  d = d
  S = S
  T = T
  E = E
  p = p
  q = q
  NoType = NoType
  NoSignal = NoSignal
  NoExec = NoExec
  NoState = NoState
  Ignored = Ignored
  Malformed = Malformed
  Exec <- MCExec
  ConfigIndex <- MCConfigIndex
  Deps <- MCDeps
  Triggers <- MCDistinctTriggers
  SignalType = {S, T, E}
  Payload = {p, q}
  Starts <- MCStarts
  EntryFor <- MCEntryFor
  Checkable = {T}
  TaskWaits <- MCTaskWaits
  Messages <- MCMessages
  Options <- MCLiveOptions
  MaxRuns = 1
  MaxSends = 1
  MaxStops = 1
SPECIFICATION FairSpec
CHECK_DEADLOCK FALSE
PROPERTIES
  RunsSettle
  RunnableIsRun
