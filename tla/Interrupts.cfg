CONSTANTS
  Shell = {shell1, shell2}
  Lifecycle = {"load", "unload", "reload"}
  Impatient = TRUE
  MaxRequests = 3
  MaxInterrupts = 2
  MaxTroubles = 1
SPECIFICATION Spec
CHECK_DEADLOCK FALSE
INVARIANTS
  TypeOK
  StopIsRemembered
  LoneInterruptAnswered
PROPERTY
  ActsOnItsInterrupt
