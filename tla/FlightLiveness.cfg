SPECIFICATION FairSpec
CONSTANTS
  MaxCmds = 2
  MaxGiven = 3
  MaxEvents = 1
  NoMission = NoMission
PROPERTIES
  ArmingEnds
  SideTripEnds
  MissionProgress
