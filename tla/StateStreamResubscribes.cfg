SPECIFICATION Spec
CONSTANTS
  Variants = {{"a"}}
  Window = 1
  PendingCap = 1
  Failures = FALSE
  MaxEvents = 4
PROPERTIES
  DeltasFollowSnapshot
CHECK_DEADLOCK FALSE
