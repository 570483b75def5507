SPECIFICATION Spec
CONSTANTS
  Proc = {"gfxd", "shell", "other"}
  Claimers = {"gfxd", "other"}
  DRIVERTYPE_COUNT = 2
  DRVMASTER_MAX_SLAVES = 2
  Data = {0, 1, 2}
INVARIANTS
  TypeOK
  SoleMaster
  DrawsWhatWasAsked
CHECK_DEADLOCK FALSE
