SPECIFICATION Spec
CONSTANTS
  Variants = {{"a"}, {"a", "b"}}
  Window = 1
  PendingCap = 1
  Failures = TRUE
  MaxEvents = 3
INVARIANTS
  RestIsCurrent
PROPERTIES
  ReplicaFollows
CHECK_DEADLOCK FALSE
