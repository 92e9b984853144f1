SPECIFICATION FairRuntimeSpec
CONSTANTS
  None = None
  Names <- MCNames
  Actions <- MCActions
  KIRs <- DeadbandKIRs
  InitKernel <- MCInitKernel
  Registered <- MCRegistered
  Absent = {}
  MalformedNames = {}
  Modes = {TRUE}
  RollbackMayFail = FALSE
  MaxFaults = 1
  MaxCrashes = 0
  LearnedRaw <- MCLearnedRaw
  ForeignActions <- NoActions
  StartKinds = {"heuristic"}
  SwapKinds = {}
  ObserveFaults = FALSE
PROPERTIES
  EngagesTight
