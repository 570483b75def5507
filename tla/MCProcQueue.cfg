SPECIFICATION SpaceSpec
CONSTANTS
  MaxProc = 5
  PidMax = 32767
  Masks <- MCMasks
  Frames = {3, 4, 5, 6, 7, 8}
  Pages = {0}
INVARIANTS
  SpaceOwned
  RingInv
  CurrentInv
  PidOrder
  ExitAccepted
PROPERTIES
  OnlyCurrentDies
  EveryLiveScheduled
  ImplementsRoundRobin
CHECK_DEADLOCK FALSE
