SPECIFICATION LogSpec
CONSTANTS
  Loggers = {p}
  Payloads = {x, y}
  Fsync = TRUE
  LegacyLines = 0
  FailOutcomes = {"nothing"}
  KillOutcomes = {}
  MaxLines = 4
  MaxFaults = 1
  MaxKills = 0
  MaxTampers = 0
INVARIANTS
  UntamperedIsIntact
