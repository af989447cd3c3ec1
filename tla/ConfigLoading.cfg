CONSTANTS
  None = None
  Bad = Bad
  Unknown = Unknown
  p = p
  Source = {"source"}
  Field <- MCField
  Name = {"x", "y", "z"}
  TaskId = {"t", "u"}
  Contents <- MCContents
  Param = {p}
  MaxIncludes = 2
  MaxTasks <- MCMaxTasks
  MaxRoutes = 2
  MaxTriggers = 2
SPECIFICATION Spec
CHECK_DEADLOCK FALSE
INVARIANTS
  AcceptedIsRunnable
  CyclesReported
