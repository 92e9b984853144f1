SPECIFICATION FairOnlineSpec
CONSTANTS
  None = None
  Names <- MCNames
  Actions <- MCActions
  KIRs <- MCKIRs
  InitKernel <- MCInitKernel
  Registered = {}
  Absent = {}
  MalformedNames = {}
  Modes = {TRUE}
  RollbackMayFail = FALSE
  MaxFaults = 1
  MaxCrashes = 1
  LearnedRaw <- MCLearnedRaw
  ForeignActions <- MCForeign
  Rewards <- MCRewards
  WindowSize = 3
  TThreshold = 5
  MinEffect = 50
  Consumes = {FALSE}
  Transitions <- MCTransitions
  TrainedKinds = {"learned", "foreign"}
  LoggingFails = TRUE
INVARIANTS
  AuditExplainsKernel
  WindowIsCurrentPolicys
  RewardsBounded
  DriftTypeOK
  NoSilentDrop
PROPERTIES
  DrivesActuator
  AlarmsAreApart
  CyclesComplete
