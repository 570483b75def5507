SPECIFICATION MemSpec
CONSTANTS
  bitmap_length = 9
  Memory = 9
  WordFrames = 8
  Page = 8
  Header = 4
  Sizes = {6, 9}
  Reserved = {6}
  Linked = {3}
  HeapPages = 11
  MaxSpaces = 2
INVARIANTS
  TypeOK
  HeldExclusively
  SpacesFilled
  HeapBlocksDisjoint
  UserBlocksMapped
  StuckOnlyBeyond4GiB
PROPERTIES
  NoneSkippedAbove
  TranslationsKept
CHECK_DEADLOCK FALSE
