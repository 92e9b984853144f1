SPECIFICATION UncheckedSpec
CONSTANTS
  None = None
  Names <- MCNames
  Actions <- MCActions
  KIRs <- MCKIRs
  InitKernel <- MCInitKernel
  Registered <- MCRegistered
  Absent = {}
  MalformedNames = {"a;b"}
  Modes = {TRUE}
  RollbackMayFail = FALSE
  MaxFaults = 0
  MaxCrashes = 0
INVARIANTS
  KernelInBounds
