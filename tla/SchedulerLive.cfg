SPECIFICATION FairSpec
CONSTANTS
  nodef = nodef
  MaxTasks = 2
  MaxConvs = 1
  Kinds = {"k"}
  Defs <- OneDef
  NoDef = nodef
  BackgroundChoices = {FALSE}
  AbandonChoices = {FALSE}
  Checkpoints = {1}
  HandlerOutcomes = {"completed"}
  Registrable <- Reg
  Policies = {}
  WaitSets = {}
  CreateLives = {"open"}
  HandlersCreate = FALSE
  MaxRequests = 1
  MaxCrashes = 1
  MaxReconciles = 1
PROPERTIES
  CancelledSettles
CHECK_DEADLOCK FALSE
