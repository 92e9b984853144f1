SPECIFICATION LogSpec
CONSTANTS
  Loggers = {p, q}
  Payloads = {x, y}
  Fsync = TRUE
  LegacyLines = 0
  FailOutcomes = {"nothing", "fragment", "unterminated", "line"}
  KillOutcomes = {"nothing", "fragment", "unterminated", "line"}
  MaxLines = 4
  MaxFaults = 1
  MaxKills = 1
  MaxTampers = 1
SYMMETRY LogSymmetry
CHECK_DEADLOCK FALSE
INVARIANTS
  LogTypeOK
  HarmDecides
  UnharmedVerifies
  AckedIsDurable
