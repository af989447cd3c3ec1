CONSTANTS
  None = None
  Env = Env
  Marker = Marker
  own1 = own1
  own2 = own2
  other1 = other1
  Run = {self}
  MaxCommits = 0
  Branch = {main, topic}
  Change <- MCChange
  Ref = None
  Self = self
  Main = main
  Target = topic
  BranchBase = main
  Reuse = TRUE
  Phases <- MCPhases
  LoopPhase = 1
  MaxRounds = 1
  Check = {check1}
  Own <- MCOwn
  Others <- MCOthers
  MaxStops = 1
SPECIFICATION FairSpec
CHECK_DEADLOCK FALSE
INVARIANTS
  GitTypeOK
  OnlyWorkPublished
  CompletedIsPublished
PROPERTY
  NothingCommittedLost
  RunEnds
