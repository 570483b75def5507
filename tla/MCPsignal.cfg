SPECIFICATION PsSpec
CONSTANTS
  MaxProc = 4
  PidMax = 7
  Masks <- MCMasks
  Dwords <- MCDwords
  Key = "key"
  ReadFloor = 254
  MaxSignals = 2
  Disciplined = TRUE
INVARIANTS
  HandlersDoNotNest
  LockMatchesIndex
  UnreadHandlerHasSignal
PROPERTIES
  AcceptedSignalStays
  ImplementsMailbox
CHECK_DEADLOCK FALSE
