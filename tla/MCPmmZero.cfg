SPECIFICATION Spec
CONSTANTS
  bitmap_length = 6
  Memory = 7
  WordFrames = 5
INVARIANTS
  ZeroMeansOutOfFrames
CHECK_DEADLOCK FALSE
