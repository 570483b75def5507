SPECIFICATION PsSpec
CONSTANTS
  MaxProc = 3
  PidMax = 7
  Masks <- MCMasks
  Dwords <- MCDwords
  Key = "key"
  ReadFloor = 254
  MaxSignals = 3
  Disciplined = FALSE
INVARIANTS
  NoReadBelowEmpty
CHECK_DEADLOCK FALSE
