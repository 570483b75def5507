SPECIFICATION BootSpec
CONSTANTS
  MaxEntries = 4
  Lengths = {3, 104, 105}
  Memory = 104
  WordFrames = 100
  Block = 4
  Page = 4
  Long = "long"
  Machines <- MCMachines
  PINS = 3
  MaxTicks = 2
  Later = {"initrd/shell.sys", "initrd/gfxd.sys", "initrd/font.psf"}
  MemTop = 55
  MaxBlocks = 17
  Header = 3
  HeapStart = 56
  SizeOf <- MCSizeOf
INVARIANTS
  ChunksSound
  IrqRouting
  NoStrayInterrupt
  OpenFindsFile
  
  EndsRight
PROPERTIES
  EndsWhereItShould
CHECK_DEADLOCK FALSE
