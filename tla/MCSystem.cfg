SPECIFICATION SysSpec
CONSTANTS
  MaxProc = 6
  PidMax = 32767
  Masks <- MCMasks
  Dwords <- MCDwords
  Key = "key"
  ReadFloor = 254
  MaxSignals = 4
  Disciplined = TRUE
  Chars = {"a"}
  COMMAND_BUF_SIZE = 1
  EarlyKeys = FALSE
INVARIANTS
  OneInFlight
  ShellAddressed
  LineComplete
PROPERTIES
  ProgramsKeepDiscipline
  KeyReachesShell
CHECK_DEADLOCK FALSE
