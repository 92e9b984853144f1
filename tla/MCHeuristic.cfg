SPECIFICATION FairRuntimeSpec
CONSTANTS
  None = None
  Names <- MCNames
  Actions <- MCActions
  KIRs <- DeadbandKIRs
  InitKernel <- MCInitKernel
  Registered <- MCRegistered
  Absent = {}
  MalformedNames = {}
  Modes = {TRUE}
  RollbackMayFail = FALSE
  MaxFaults = 1
  MaxCrashes = 2
  LearnedRaw <- MCLearnedRaw
  ForeignActions <- NoActions
  StartKinds = {"heuristic"}
  SwapKinds = {}
  ObserveFaults = FALSE
INVARIANTS
  JointSafeWhenPaired
PROPERTIES
  RaisingChangesNothing
  AppliesAtomically
  EngagesTightUnharmed
  NoFlapping
  JointRecovers
