CONSTANTS
  MaxCmds = 3
  MaxPath = 2
  MaxLimits = 2
  Timeout = 1
  UsesMoveBase = TRUE
SPECIFICATION Spec
INVARIANTS
  TrackerInv
  FollowsCommand
  LimitRegistered
  GoalWithdrawn
PROPERTIES
  FollowsLatest
  VelocityEnds
  JoinReturns
CHECK_DEADLOCK FALSE
