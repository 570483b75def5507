SPECIFICATION Spec
CONSTANTS
  MaxProc = 3
  Value <- MCValue
  Own <- MCOwn
  Kernel = 0
  Followed = {"rsp", "rbx"}
  Clobbered = {"rdx"}
PROPERTIES
  RspRestored
CHECK_DEADLOCK FALSE
