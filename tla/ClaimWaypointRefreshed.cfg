CONSTANTS
  MaxCmds = 1
  MaxPath = 2
  MaxLimits = 1
  Timeout = 1
  UsesMoveBase = FALSE
SPECIFICATION Spec
INVARIANT
  CurrentWaypointRefreshed
CHECK_DEADLOCK FALSE
