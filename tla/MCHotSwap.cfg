SPECIFICATION RuntimeSpec
CONSTANTS
  None = None
  Names <- MCNames
  Actions <- MCActions
  KIRs <- MCKIRs
  InitKernel <- MCInitKernel
  Registered <- MCRegistered
  Absent = {}
  MalformedNames = {}
  Modes = {TRUE}
  RollbackMayFail = FALSE
  MaxFaults = 0
  MaxCrashes = 0
  LearnedRaw <- ShortLatency
  ForeignActions <- NoActions
  StartKinds = {"heuristic"}
  SwapKinds = {"learned"}
  ObserveFaults = FALSE
INVARIANTS
  JointSafeAtRest
