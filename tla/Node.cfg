SPECIFICATION MCSpec
CONSTANTS
  LandAlt = 1
  BlindAlt = 2
  LostAlt = 4
  TopAlt = 5
  LostLimit = 1
  Jump = 4
  TargetSpeed = 1
  Slack = 1
  MaxGap = 3
  Spots = {0, 2, 9}
  Window = 5
  Least = 3
  Confirm = 2
  Calming = 3
  Writers = {"a", "b"}
  MaxValue = 2
  Threshold = 1
  Clients = {"c", "d"}
  History = 2
  Tolerance = 1
  Speed = 1
  MaxTime = 5
  Goals <- MCGoals
  SpeedFb = 300
  SpeedMax = 300
  Acc = 4
  Decel = 2
  Jerk = 40
  Tol = 250
  MaxMoves = 2
  Modes = {"guided", "land"}
  Guided = "guided"
  Requests = {"r", "s"}
  Checks = {"t", "u"}
  MaxChanges = 1
  Pids = {"p", "q", "o"}
  NoPid = "none"
  Vectors <- MCVectors
  Yaws <- MCYaws
  Rates = {1}
  Callers = {"g", "h"}
  MountModes = {"body", "abs"}
  OtherModes = {"fpv"}
  Angles <- MCAngles
  PitchMin <- MCPitchMin
  PitchMax = 30
INVARIANTS
  NothingForgotten
  ImagePoseNear
  TimeoutExplained
  MotionKept
PROPERTIES
  PressOnlyLow
  SeenTargetReached
  TargetFound
  ParkedStands
  ArrivesSlowly
  CorrectionsReturn
  RecordersReaped
  SwitchedOnlyInWindow
CHECK_DEADLOCK FALSE
