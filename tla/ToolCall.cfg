SPECIFICATION FairSpec
CONSTANTS
  Keys = {k1, k2}
  NoKey = none
  MaxNested = 2
  Endless = {k2}
  Leaning = {k1}
  MaxCrashes = 1
  MaxTroubles = 1
CONSTRAINT
  OneUpsetForTwo
INVARIANTS
  UnsafeRunsOnce
  NestedLeaveWithCaller
PROPERTIES
  SettlingEnds
CHECK_DEADLOCK FALSE
