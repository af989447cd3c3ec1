CONSTANTS
  None = None
  Run = {run1, run2}
  Branch = {main, topic}
  Change = {change1}
  Ref = topic
  MaxCommits = 2
  MaxStops = 2
SPECIFICATION CacheSpec
CHECK_DEADLOCK FALSE
INVARIANTS
  RecordedCloneWhole
  RefusedOnlyWhenTorn
