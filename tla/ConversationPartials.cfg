SPECIFICATION FairSpec
CONSTANTS
  MaxSubs = 2
  MaxTasks = 3
  MaxEntries = 6
  MaxAborts = 2
  MaxCrashes = 1
  Drafts = {"steer", "reject"}
  QueueModes = {"all"}
  Calls = {1}
  Reasons = {}
  Owned = TRUE
INVARIANTS
  PartialIsTheRequests
  CancelledQueueDrains
PROPERTIES
  AbortSettlesInputs
  CancelledFallsIdle
  PartialIsKept
CHECK_DEADLOCK FALSE
