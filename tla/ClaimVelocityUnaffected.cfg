CONSTANTS
  MaxCmds = 2
  MaxPath = 2
  MaxLimits = 1
  Timeout = 1
  UsesMoveBase = FALSE
SPECIFICATION Spec
INVARIANTS
  VelocityUnaffected
CHECK_DEADLOCK FALSE
