CONSTANTS
  Modes = {"client", "server"}
  CreateMayFail = FALSE
SPECIFICATION Spec
INVARIANT ExitStatusReflectsChildren
