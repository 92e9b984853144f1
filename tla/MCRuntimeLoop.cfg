SPECIFICATION RuntimeSpec
CONSTANTS
  None = None
  Names <- MCNames
  Actions <- MCActions
  KIRs <- MCKIRs
  InitKernel <- MCInitKernel
  Registered <- MCRegistered
  Absent = {}
  MalformedNames = {}
  Modes = {TRUE}
  RollbackMayFail = TRUE
  MaxFaults = 1
  MaxCrashes = 1
  LearnedRaw <- MCLearnedRaw
  ForeignActions <- MCForeign
  StartKinds = {"heuristic"}
  SwapKinds = {"heuristic", "joint", "learned", "foreign"}
  ObserveFaults = TRUE
INVARIANTS
  StepConsistent
  KernelInBounds
  ApprovedIsInForce
  BuiltInsAreAccepted
  BeliefMatchesKernel
  MemoryMatchesKernel
PROPERTIES
  DrivesActuator
  WritesAreJudged
