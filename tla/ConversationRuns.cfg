SPECIFICATION Spec
CONSTANTS
  MaxSubs = 3
  MaxTasks = 3
  MaxEntries = 6
  MaxAborts = 1
  MaxCrashes = 0
  Drafts = {"steer", "followUp", "reset", "note", "cut"}
  QueueModes = {"one-at-a-time", "all"}
  Calls = {1, 2}
  Reasons = {}
  Owned = FALSE
INVARIANTS
  TypeOK
  InboxListsQueued
  PlacedIsInRun
  RunIsTheGeneration
PROPERTIES
  HeadNeverMovesBack
  KeepsPromise
  ResetEndsRun
CHECK_DEADLOCK FALSE
