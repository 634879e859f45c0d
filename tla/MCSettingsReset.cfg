SPECIFICATION Spec
CONSTANTS
  Hosts <- Both
  Writables <- Both
  MaxUpdates = 2
  MaxDisturbances = 1
INVARIANTS ResetCancels
CHECK_DEADLOCK FALSE
