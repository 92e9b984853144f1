SPECIFICATION FairActuatorSpec
CONSTANTS
  None = None
  Names <- MCNames
  Actions <- MCActions
  KIRs <- MCKIRs
  InitKernel <- MCInitKernel
  Registered <- MCRegistered
  Absent = {"dirty_background_ratio"}
  MalformedNames = {"a;b"}
  Modes = {TRUE, FALSE}
  RollbackMayFail = TRUE
  MaxFaults = 2
  MaxCrashes = 1
INVARIANTS
  ActuatorTypeOK
  KernelInBounds
  ReportMatchesKernel
  BatchBookkeeping
PROPERTIES
  AppliesAtomically
  ApplyTerminates
