SPECIFICATION Spec
CONSTANTS
  Variants = {{"a"}, {"a", "b"}}
  Window = 1
  PendingCap = 1
  Failures = FALSE
  MaxEvents = 2
INVARIANTS
  MethodOnlyIsReady
CHECK_DEADLOCK FALSE
