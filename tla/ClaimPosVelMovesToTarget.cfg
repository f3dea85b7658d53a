SPECIFICATION Spec
CONSTANTS
  MaxCmds = 2
  MaxGiven = 1
  MaxEvents = 1
  NoMission = NoMission
PROPERTY
  PosVelMovesToTarget
