SPECIFICATION MCSpec
CONSTANTS
  Vels <- MCVels
  Lights <- MCLights
  Angles = {150}
  Switch = {1}
  MaxSpeed = 30
  Wheelbase = 65
  TanMax = 466
  MaxCalls = 3
INVARIANTS
  StopOnBus
  BrakeOrDrive
  FramesReadBack
  OneTogglePerCall
PROPERTIES
  StopReachesBus
  LandingEnds
CHECK_DEADLOCK FALSE
