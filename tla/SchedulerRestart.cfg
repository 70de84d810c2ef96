SPECIFICATION Spec
CONSTANTS
  nodef = nodef
  MaxTasks = 2
  MaxConvs = 1
  Kinds = {"k"}
  Defs <- OneDef
  NoDef = nodef
  BackgroundChoices = {FALSE, TRUE}
  AbandonChoices = {FALSE, TRUE}
  Checkpoints = {1}
  HandlerOutcomes = {"completed"}
  Registrable <- Reg
  Policies = {}
  WaitSets = {}
  CreateLives = {"open"}
  HandlersCreate = TRUE
  MaxRequests = 1
  MaxCrashes = 1
  MaxReconciles = 1
INVARIANTS
  AbandonedNeverRuns
  RunningIsInvoked
  CascadeComes
PROPERTIES
  OutcomeStands
  AbandonedWaitsForDefinition
CHECK_DEADLOCK FALSE
