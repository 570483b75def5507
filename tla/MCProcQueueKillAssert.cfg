SPECIFICATION SpaceSpec
CONSTANTS
  MaxProc = 5
  PidMax = 32767
  Masks <- MCMasks
  Frames = {3, 4, 5, 6, 7, 8}
  Pages = {0}
INVARIANTS
  KillAssertHolds
CHECK_DEADLOCK FALSE
