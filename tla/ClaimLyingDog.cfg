SPECIFICATION MCSpec
CONSTANTS
  Vels <- MCVels
  Lights <- MCLights
  Angles = {150}
  Switch = {1}
  MaxSpeed = 30
  Wheelbase = 65
  TanMax = 466
  MaxCalls = 2
PROPERTY LyingDogLeftAlone
CHECK_DEADLOCK FALSE
