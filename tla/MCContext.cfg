SPECIFICATION Spec
CONSTANTS
  MaxProc = 3
  Value <- MCValue
  Own <- MCOwn
  Kernel = 0
  Followed = {"rbx", "rdx"}
  Clobbered = {"rdx"}
INVARIANTS
  OwnAddressSpace
PROPERTIES
  ResumesAsLeft
  SyscallKeepsRegisters
CHECK_DEADLOCK FALSE
