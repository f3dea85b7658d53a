SPECIFICATION Spec
CONSTANTS
  MaxCmds = 1
  MaxGiven = 1
  MaxEvents = 1
  NoMission = NoMission
PROPERTY
  MotionStopsOnExit
