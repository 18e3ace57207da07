CONSTANTS
  Modes = {"loopback"}
  CreateMayFail = FALSE
SPECIFICATION FairSpec
PROPERTY MainTerminates
CHECK_DEADLOCK FALSE
