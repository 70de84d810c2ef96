SPECIFICATION Spec
CONSTANTS
  nodef = nodef
  MaxTasks = 3
  MaxConvs = 2
  Kinds = {"k"}
  Defs <- OneDef
  NoDef = nodef
  BackgroundChoices = {FALSE}
  AbandonChoices = {FALSE}
  Checkpoints = {1}
  HandlerOutcomes = {"completed"}
  Registrable = {}
  Policies = {"allSettled", "failFast"}
  WaitSets = {{2,3},{1}}
  CreateLives = {"open"}
  HandlersCreate = FALSE
  MaxRequests = 0
  MaxCrashes = 0
  MaxReconciles = 1
CONSTRAINT
  OthersAreOwned
  AllSettledInOne
INVARIANTS
  OwnerOutlivesChild
  AbortHandlerIsAlone
  HeldOutcomeIsChecked
  WaitGraphIsAcyclic
  FailFastComes
  NoLostWakeup
PROPERTIES
  EndsBottomUp
CHECK_DEADLOCK FALSE
