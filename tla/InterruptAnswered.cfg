CONSTANTS
  Shell = {shell1}
  Lifecycle = {}
  Impatient = FALSE
  MaxRequests = 2
  MaxInterrupts = 2
  MaxTroubles = 0
SPECIFICATION Spec
CHECK_DEADLOCK FALSE
PROPERTY
  InterruptAnswered
