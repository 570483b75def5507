SPECIFICATION SpaceSpec
CONSTANTS
  MaxProc = 4
  PidMax = 32767
  Masks = {{}}
  Frames = {3, 4, 5, 6, 7, 8}
  Pages = {0, 1}
INVARIANTS
  KillFreesItsOwn
CHECK_DEADLOCK FALSE
