SPECIFICATION Spec
CONSTANTS
  MaxSubs = 3
  MaxTasks = 3
  MaxEntries = 4
  MaxAborts = 0
  MaxCrashes = 1
  Drafts = {"followUp", "reset"}
  QueueModes = {"all"}
  Calls = {}
  Reasons = {"manual", "threshold", "overflow"}
  Owned = FALSE
CONSTRAINT
  RestartIsEarly
INVARIANTS
  ListedIsLive
  PreparedTailHolds
PROPERTIES
  ContextReachesBack
CHECK_DEADLOCK FALSE
