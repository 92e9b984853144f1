SPECIFICATION MonitorSpec
CONSTANTS
  CPUs = {c0, c1}
  AbsentCPUs = {c2}
  Tasks = {t1, t2}
  Idle = idle
  SAMPLE_PERIOD = 2
  BufferSize = 1
  TaskTTL = 1
  MaxTime = 4
  MaxSwitches = 4
  Unseen = Unseen
SYMMETRY MCSymmetry
INVARIANTS
  MonitorTypeOK
  SamplesConserved
  ChargedOnce
  PeggedReadsFull
