SPECIFICATION FairSpec
CONSTANTS
  MaxRequests = 2
  Readers = {d1}
  Versions = {1, 2}
  MaxPending = 1
  MaxSweeps = 1
INVARIANTS
  WatchIsGapless
PROPERTIES
  KeepsJournal
  ReadsAreCurrent
  EveryoneIsAnswered
CHECK_DEADLOCK FALSE
