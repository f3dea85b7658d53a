SPECIFICATION LogSpec
CONSTANTS
  MaxCmds = 3
  MaxGiven = 1
  MaxEvents = 1
  NoMission = NoMission
INVARIANTS
  TypeOK
  FlightInv
  IndexInRange
  PlanLeavesMission
  NoStalePosition
  PlandOnlyWhileLanding
  HomeBelongsToFlight
  QueuedTakeoffUnanswered
PROPERTIES
  FirstMissionWins
  LandingOnlyLeftByCommand
  AnsweredOnce
  ImplementsVoyages
