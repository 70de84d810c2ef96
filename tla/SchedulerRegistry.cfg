SPECIFICATION Spec
CONSTANTS
  nodef = nodef
  MaxTasks = 1
  MaxConvs = 1
  Kinds = {"k"}
  Defs <- AllDefs
  NoDef = nodef
  BackgroundChoices = {FALSE}
  AbandonChoices = {FALSE}
  Checkpoints = {1, 2}
  HandlerOutcomes = {"completed", "failed", "aborted"}
  Registrable <- AllReg
  Policies = {}
  WaitSets = {}
  CreateLives = {"open"}
  HandlersCreate = FALSE
  MaxRequests = 1
  MaxCrashes = 1
  MaxReconciles = 1
INVARIANTS
  TypeOK
  NoLostWakeup
PROPERTIES
  VersionNeverGoesBack
CHECK_DEADLOCK FALSE
