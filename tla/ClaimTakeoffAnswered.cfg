SPECIFICATION FairSpec
CONSTANTS
  MaxCmds = 1
  MaxGiven = 0
  MaxEvents = 1
  NoMission = NoMission
PROPERTY
  TakeoffAnswered
