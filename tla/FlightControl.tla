---------------------------- MODULE FlightControl ----------------------------
(***************************************************************************)
(* The flight state machine of the control node, for the drone: the        *)
(* hierarchical states of include/states and src/states, the listeners     *)
(* that turn operator commands into transitions and plans                  *)
(* (src/features/control, src/features/algo) and the task plan they share. *)
(*                                                                         *)
(* One engine thread runs handlers to completion, so every handler is one  *)
(* action.  Telemetry threads store arm state and throttle in the context  *)
(* between any two handlers and post events that the engine delivers       *)
(* later.  The dk engine itself is not in the repository: EnterX, RunPlan  *)
(* and RunFallback follow its description in README.md section 4 and the   *)
(* comments at its uses.                                                   *)
(*                                                                         *)
(* An operator named XBut... is operator X with a plausible bug in it.     *)
(* Nothing refers to it: the project replaces X by it to see that the      *)
(* properties notice.                                                      *)
(***************************************************************************)
EXTENDS Integers, Sequences

CONSTANTS
  MaxCmds,    \* bound: operator commands in one behaviour (also their ids)
  MaxGiven,   \* bound: waypoints in one set_waypoint request
  MaxEvents,  \* bound: telemetry events waiting in the engine's queue
  NoMission   \* no WaypointState instance is live

ASSUME MaxCmdsAssumption == MaxCmds \in Nat
ASSUME MaxGivenAssumption == MaxGiven \in Nat
ASSUME MaxEventsAssumption == MaxEvents \in Nat

VARIABLES
  leaf,       \* the active leaf state
  mission,    \* the live WaypointState instance, or NoMission
  queue,      \* PlanManager: entries not yet executed
  fallback,   \* PlanManager: where next() goes when the queue is empty
  cmd,        \* what the tracker was last told to do
  doPland,    \* LandState::do_pland_ of the live instance
  plandOn,    \* ctx.do_pland: /pland/start published, /pland/cancel not yet
  home,       \* ctx.mission_home_enu: id of the mission that recorded it, or 0
  takeoffPt,  \* ctx.takeoff_enu: none, of this flight, of an earlier one
  fcuHome,    \* ctx.fcu_home_gps has a value
  odom,       \* ctx.odom_ok
  arm,        \* ctx.arm
  thr,        \* ctx.throttle > throttle_thresh
  events,     \* ArmEvent / StatusTextEvent posted and not yet delivered
  cool,       \* less than FOLLOW_COOL_TIME since stop_follow
  answer,     \* how each takeoff request was answered
  cmds        \* commands received so far

engineVars == <<leaf, mission, queue, fallback, cmd, doPland, plandOn, home,
                takeoffPt, answer>>
ctxVars == <<fcuHome, odom, arm, thr, events, cool, cmds>>
vars == <<engineVars, ctxVars>>

-----------------------------------------------------------------------------
(* Types.                                                                  *)

Cmds == 1..MaxCmds
Ground  == {"Ground", "Init", "Takeoff", "Arm", "Land"} \* not watched by on_tick
Side    == {"Move", "Turn", "Follow"}       \* children of Hover or of Waypoint
Leaves  == Ground \cup Side \cup {"Hover", "Lifting", "Execute"}

Position == {"Path", "Point"}               \* sent by send_pos_cmd
Velocity == {"Zero", "Climb", "Yaw", "Chase"}  \* sent by send_vel_cmd
Return   == {"no", "mission", "this", "earlier", "fcu"} \* return_enu taken from

Missions == [id : Cmds, own : BOOLEAN, len : Nat, dwell : SUBSET Nat,
             idx : Nat, ret : Return]
Entries  == [step : {"Mission"}, id : Cmds, own : BOOLEAN, len : Nat, ret : Return]
       \cup [step : {"Takeoff", "MoveHover", "MoveWaypoint"},
             id : Cmds \cup {0}, own : {FALSE}, len : {0}, ret : {"no"}]
ASSUME NoMissionAssumption == NoMission \notin Missions

TypeOK ==
  /\ leaf \in Leaves
  /\ mission \in Missions \cup {NoMission}
  /\ queue \in Seq(Entries)
  /\ fallback \in {"None", "Hover", "Land", "LandPland"}
  /\ cmd \in Position \cup Velocity \cup {"None"}
  /\ doPland \in BOOLEAN /\ plandOn \in BOOLEAN
  /\ home \in Cmds \cup {0}
  /\ takeoffPt \in {"none", "this", "earlier"}
  /\ fcuHome \in BOOLEAN /\ odom \in BOOLEAN /\ arm \in BOOLEAN /\ thr \in BOOLEAN
  /\ events \in Seq({"armed", "disarmed", "prearm"})
  /\ cool \in BOOLEAN
  /\ answer \in [Cmds -> {"none", "pending", "ok", "rejected"}]
  /\ cmds \in 0..MaxCmds

Init ==
  /\ leaf = "Init" /\ mission = NoMission
  /\ queue = <<>> /\ fallback = "None" /\ cmd = "None"
  /\ doPland = FALSE /\ plandOn = FALSE
  /\ home = 0 /\ takeoffPt = "none" /\ fcuHome = FALSE
  /\ odom = FALSE /\ arm = FALSE /\ thr = FALSE
  /\ events = <<>> /\ cool = FALSE
  /\ answer = [c \in Cmds |-> "none"] /\ cmds = 0

-----------------------------------------------------------------------------
(* The vehicle and the active states, as the handlers ask about them.      *)

CheckHover == arm /\ thr

InWaypoint == mission # NoMission
InHover    == \/ leaf = "Hover"
              \/ leaf \in Side /\ ~InWaypoint
InPosVel   == leaf \in {"Move", "Turn"}

-----------------------------------------------------------------------------
(* Transitions: the exits of the states left, then the entry of the state  *)
(* reached.  on_exit of LiftingState and of PosVelState stops the vehicle; *)
(* ExcuteState and FollowState have none.                                  *)

CmdLeft == IF leaf = "Lifting" \/ InPosVel THEN "Zero" ELSE cmd

PlandLeftButNotCancelled == plandOn

\* on_exit of LandState cancels the precision landing it started.
PlandLeft == plandOn /\ ~(leaf = "Land" /\ doPland)

\* Leaves every state and enters the top-level state l with tracker command c.
Enter(l, c) ==
  /\ leaf' = l /\ mission' = NoMission /\ cmd' = c
  /\ doPland' = FALSE /\ plandOn' = PlandLeft

EnterHoverButNoStop == Enter("Hover", CmdLeft) /\ UNCHANGED <<home, takeoffPt>>

EnterHover == Enter("Hover", "Zero") /\ UNCHANGED <<home, takeoffPt>>

EnterInit == /\ Enter("Init", CmdLeft)
             /\ home' = 0
             /\ UNCHANGED takeoffPt

EnterArm == Enter("Arm", CmdLeft) /\ UNCHANGED <<home, takeoffPt>>

EnterGroundButHomeKept ==
  /\ Enter("Ground", CmdLeft)
  /\ takeoffPt' = IF takeoffPt = "this" THEN "earlier" ELSE takeoffPt
  /\ UNCHANGED home

EnterGround ==
  /\ Enter("Ground", CmdLeft)
  /\ home' = 0
  /\ takeoffPt' = IF takeoffPt = "this" THEN "earlier" ELSE takeoffPt

EnterTakeoff == /\ Enter("Takeoff", CmdLeft)
                /\ takeoffPt' = "this"
                /\ UNCHANGED home

EnterLand(p) ==
  /\ leaf' = "Land" /\ mission' = NoMission /\ cmd' = "Zero"
  /\ doPland' = p
  /\ plandOn' = (p \/ PlandLeft)
  /\ UNCHANGED <<home, takeoffPt>>

\* A failed command leaves the state machine where the vehicle is.
EnterHoverOrGround == \/ CheckHover /\ EnterHover
                      \/ ~CheckHover /\ EnterGround

HomeOfButLatest(e) == IF e.own THEN e.id ELSE home

\* A mission with waypoints of its own records its start, if none did before.
HomeOf(e) == IF e.own /\ home = 0 THEN e.id ELSE home

\* WaypointState is constructed from entry e and its LiftingState entered.
\* Turn angles and dwell_indices decide the dwell points; the last always is one.
EnterMission(e) ==
  /\ e.len > 0
  /\ \E d \in SUBSET (0..e.len - 1) :
       mission' = [id |-> e.id, own |-> e.own, len |-> e.len, idx |-> 0,
                   dwell |-> d \cup {e.len - 1}, ret |-> e.ret]
  /\ leaf' = "Lifting" /\ cmd' = CmdLeft
  /\ home' = HomeOf(e)
  /\ doPland' = FALSE /\ plandOn' = PlandLeft
  /\ UNCHANGED takeoffPt

\* Moves to leaf l under the state that is its parent already, with mission data m.
WithinAt(l, c, m) ==
  /\ leaf' = l /\ cmd' = c /\ mission' = m
  /\ UNCHANGED <<doPland, plandOn, home, takeoffPt>>

Within(l, c) == WithinAt(l, c, mission)

BackToParentButAfresh ==
  IF InWaypoint THEN WithinAt("Lifting", CmdLeft, [mission EXCEPT !.idx = 0])
                ELSE Within("Hover", CmdLeft)

\* get_next_state() of PosVelState, and the step of stop_follow: a step without
\* arguments keeps the live parent, with the mission's progress.
BackToParent == Within(IF InWaypoint THEN "Lifting" ELSE "Hover", CmdLeft)

-----------------------------------------------------------------------------
(* The task plan.                                                          *)

\* m is the live mission at the time of the call: next() may follow an arrival.
RunFallback(m) ==
  /\ \/ fallback = "Hover" /\ EnterHover
     \/ fallback = "Land" /\ EnterLand(FALSE)
     \/ fallback = "LandPland" /\ EnterLand(TRUE)
     \/ fallback = "None" /\ WithinAt(leaf, cmd, m)
  /\ UNCHANGED answer

\* The takeoff of a mission carries no request (id 0).
Settle(id, a) == answer' = IF id \in Cmds THEN [answer EXCEPT ![id] = a] ELSE answer

RunTakeoff(e) ==
  \/ EnterTakeoff /\ Settle(e.id, "ok")
  \/ EnterHoverOrGround /\ Settle(e.id, "rejected")

\* An entry for a child of WaypointState cannot be built once the mission is gone:
\* build_path throws, and the state machine stays where it is.
RunMove(e, m) ==
  /\ UNCHANGED answer
  /\ \/ /\ e.step = "MoveWaypoint" /\ InWaypoint
        /\ WithinAt("Move", "Point", m)
     \/ /\ e.step = "MoveWaypoint" /\ ~InWaypoint
        /\ WithinAt(leaf, cmd, m)
     \/ /\ e.step = "MoveHover" /\ InHover
        /\ WithinAt("Move", "Point", m)
     \/ /\ e.step = "MoveHover" /\ ~InHover
        /\ Enter("Move", "Point")
        /\ UNCHANGED <<home, takeoffPt>>

RunMission(e) ==
  /\ UNCHANGED answer
  /\ \/ EnterMission(e)
     \/ e.len = 0 /\ EnterHover

RunEntry(e, m) ==
  \/ e.step = "Takeoff" /\ RunTakeoff(e)
  \/ e.step = "Mission" /\ RunMission(e)
  \/ e.step \in {"MoveHover", "MoveWaypoint"} /\ RunMove(e, m)

RunPlanAtButNotTaken(q, m) ==
  \/ q = <<>> /\ RunFallback(m) /\ queue' = q
  \/ q # <<>> /\ ~arm /\ EnterArm /\ queue' = q /\ UNCHANGED answer
  \/ q # <<>> /\ arm /\ RunEntry(Head(q), m) /\ queue' = q

\* start() and next() on queue q.  before_enter of TakeoffState, WaypointState
\* and PosVelState puts ArmState in front of the entry when not armed.
RunPlanAt(q, m) ==
  \/ q = <<>> /\ RunFallback(m) /\ queue' = q
  \/ q # <<>> /\ ~arm /\ EnterArm /\ queue' = q /\ UNCHANGED answer
  \/ q # <<>> /\ arm /\ RunEntry(Head(q), m) /\ queue' = Tail(q)

RunPlan(q) == RunPlanAt(q, mission)

-----------------------------------------------------------------------------
(* Operator commands.                                                      *)

NewCmd == cmds < MaxCmds /\ cmds' = cmds + 1
Id     == cmds + 1

Entry(step, id, own, len, ret) ==
  [step |-> step, id |-> id, own |-> own, len |-> len, ret |-> ret]

UnchangedCtx == UNCHANGED <<fcuHome, odom, arm, thr, events, cool>>

TakeoffCmd ==
  /\ NewCmd /\ UnchangedCtx
  /\ leaf # "Init"
  /\ fallback' = "Hover"
  /\ LET e == Entry("Takeoff", Id, FALSE, 0, "no")
     IN  \/ /\ ~arm
            /\ EnterArm /\ queue' = <<e>>
            /\ answer' = [answer EXCEPT ![Id] = "pending"]
         \/ /\ arm
            /\ RunTakeoff(e) /\ queue' = <<>>

KeptButNone(given) == given - 1

\* The first of several waypoints only carries the takeoff altitude.
Kept(given) == IF given >= 2 THEN given - 1 ELSE given

\* Where a RETURN goes: the mission's start, the takeoff point, the FCU's home.
ReturnPoint(finish) ==
  CASE finish # "RETURN"  -> "no"
    [] home # 0           -> "mission"
    [] takeoffPt # "none" -> takeoffPt
    [] OTHER              -> "fcu"

Landing(pland) == IF pland THEN "LandPland" ELSE "Land"

AfterMissionButHoverUnset(finish, pland) ==
  IF finish = "HOVER" THEN fallback ELSE Landing(pland)

AfterMission(finish, pland) == IF finish = "HOVER" THEN "Hover" ELSE Landing(pland)

SetWaypoint(given, finish, pland) ==
  LET ret     == ReturnPoint(finish)
      own     == given > 0
      len     == Kept(given) + (IF finish = "RETURN" THEN 1 ELSE 0)
      wp      == Entry("Mission", Id, own, len, ret)
      climb   == Entry("Takeoff", 0, FALSE, 0, "no")
  IN
  /\ NewCmd /\ UnchangedCtx
  /\ leaf # "Init"
  /\ ret = "fcu" => fcuHome
  /\ \/ /\ leaf = "Ground" /\ own
        /\ RunPlan(<<climb, wp>>)
        /\ fallback' = AfterMission(finish, pland)
     \/ /\ leaf # "Ground" /\ (own \/ finish # "LAND")
        /\ RunPlan(<<wp>>)
        /\ fallback' = AfterMission(finish, pland)
     \/ /\ leaf # "Ground" /\ ~own /\ finish = "LAND"
        /\ \/ EnterLand(pland)
           \/ leaf = "Land" /\ Within(leaf, cmd) \* step to the active state
        /\ UNCHANGED <<queue, fallback, answer>>

LandCmd(pland) ==
  /\ NewCmd /\ UnchangedCtx
  /\ leaf \notin {"Init", "Ground"}
  /\ EnterLand(pland)
  /\ UNCHANGED <<queue, fallback, answer>>

\* Inside PosVelState the new target replaces the old one, unless the step back from
\* LaterTurnState, with its empty argument tuples, throws in build_path.  Otherwise
\* the state is planned under the active Hover or Waypoint, behind whatever the plan
\* still holds.
SetPosVel ==
  /\ NewCmd /\ UnchangedCtx
  /\ \/ /\ InPosVel
        /\ \/ Within("Move", "Point")
           \/ leaf = "Turn" /\ Within(leaf, cmd)
        /\ UNCHANGED <<queue, fallback, answer>>
     \/ /\ ~InPosVel /\ InWaypoint
        /\ RunPlan(Append(queue, Entry("MoveWaypoint", 0, FALSE, 0, "no")))
        /\ UNCHANGED fallback
     \/ /\ ~InPosVel /\ InHover
        /\ RunPlan(Append(queue, Entry("MoveHover", 0, FALSE, 0, "no")))
        /\ fallback' = "Hover"

\* A step to HoverState does not enter it again when it is active already.
Loiter ==
  /\ NewCmd /\ UnchangedCtx
  /\ CheckHover
  /\ IF InHover THEN Within("Hover", CmdLeft) ELSE EnterHover
  /\ UNCHANGED <<queue, fallback, answer>>

Restart ==
  /\ NewCmd
  /\ EnterInit
  /\ odom' = FALSE
  /\ UNCHANGED <<queue, fallback, answer, fcuHome, arm, thr, events, cool>>

StopFollow ==
  /\ leaf = "Follow"
  /\ BackToParent
  /\ cool' = TRUE
  /\ UNCHANGED <<queue, fallback, answer, fcuHome, odom, arm, thr, events, cmds>>

\* A detection starts the follow state unless stop_follow was recent, and steers
\* it once active; a lost target (score < 0) commands zero velocity.
Detect ==
  /\ UNCHANGED <<queue, fallback, answer, ctxVars>>
  /\ \/ /\ leaf = "Follow" \/ (~cool /\ arm /\ (InHover \/ InWaypoint))
        /\ \E c \in {"Chase", "Zero"} : Within("Follow", c)
     \/ /\ leaf # "Follow" /\ ~cool /\ ~arm /\ (InHover \/ InWaypoint)
        /\ EnterArm

-----------------------------------------------------------------------------
(* Ticks of the listener and of the active state.                          *)

UnchangedPlan == UNCHANGED <<queue, fallback, answer>>

ListenerTick ==
  /\ leaf \notin Ground /\ ~CheckHover
  /\ EnterGround
  /\ UnchangedPlan /\ UNCHANGED ctxVars

InitTick ==
  /\ leaf = "Init" /\ odom
  /\ EnterHoverOrGround
  /\ UnchangedPlan /\ UNCHANGED ctxVars

GroundTick ==
  /\ leaf = "Ground" /\ CheckHover
  /\ EnterHover
  /\ UnchangedPlan /\ UNCHANGED ctxVars

ArmTimeoutButNotOnGround ==
  /\ leaf = "Arm" /\ CheckHover
  /\ EnterHover
  /\ UnchangedPlan /\ UNCHANGED ctxVars

\* prearm_timeout has passed and the vehicle has not armed.
ArmTimeout ==
  /\ leaf = "Arm"
  /\ EnterHoverOrGround
  /\ UnchangedPlan /\ UNCHANGED ctxVars

\* At altitude, or stalled for takeoff_timeout while hovering: the plan goes on.
TakeoffDone ==
  /\ leaf = "Takeoff"
  /\ RunPlan(queue)
  /\ UNCHANGED <<fallback, ctxVars>>

TakeoffStalled ==
  /\ leaf = "Takeoff" /\ ~CheckHover
  /\ EnterGround
  /\ UnchangedPlan /\ UNCHANGED ctxVars

LiftingTick ==
  /\ leaf = "Lifting"
  /\ \/ Within("Lifting", "Climb")
     \/ Within("Execute", "Path")
  /\ UnchangedPlan /\ UNCHANGED ctxVars

RouteDoneButOneLate(next) == next > mission.len

RouteDone(next) == next >= mission.len

\* check_arrive is true at the waypoint of index idx.
WaypointArrive ==
  LET next == mission.idx + 1
  IN
  /\ leaf = "Execute" /\ odom
  /\ \/ /\ RouteDone(next)
        /\ RunPlanAt(queue, [mission EXCEPT !.idx = next])
     \/ /\ ~RouteDone(next)
        /\ mission' = [mission EXCEPT !.idx = next]
        /\ \/ mission.idx \in mission.dwell /\ leaf' = "Lifting" /\ UNCHANGED cmd
           \/ mission.idx \notin mission.dwell /\ leaf' = "Execute" /\ cmd' = "Path"
        /\ UNCHANGED <<queue, doPland, plandOn, home, takeoffPt, answer>>
  /\ UNCHANGED <<fallback, ctxVars>>

\* At the target: turn to the requested yaw first, or done.
MoveArrive ==
  /\ leaf = "Move"
  /\ BackToParent \/ Within("Turn", cmd)
  /\ UnchangedPlan /\ UNCHANGED ctxVars

TurnTick ==
  /\ leaf = "Turn"
  /\ BackToParent \/ Within("Turn", "Yaw")
  /\ UnchangedPlan /\ UNCHANGED ctxVars

PosVelTimeoutButNotTurning ==
  /\ leaf = "Move"
  /\ BackToParent
  /\ UnchangedPlan /\ UNCHANGED ctxVars

\* posvel_timeout has passed since the last set_posvel.
PosVelTimeout ==
  /\ InPosVel
  /\ BackToParent
  /\ UnchangedPlan /\ UNCHANGED ctxVars

LandTick ==
  /\ leaf = "Land" /\ ~CheckHover
  /\ EnterGround
  /\ UnchangedPlan /\ UNCHANGED ctxVars

-----------------------------------------------------------------------------
(* Telemetry threads, delivery of their events, and the tracker.           *)

\* The arm state is stored when it changes, and only then is ArmEvent posted.
ArmTelemetry ==
  /\ Len(events) < MaxEvents
  /\ arm' = ~arm
  /\ events' = Append(events, IF arm THEN "disarmed" ELSE "armed")
  /\ UNCHANGED <<engineVars, fcuHome, odom, thr, cool, cmds>>

PrearmText ==
  /\ Len(events) < MaxEvents
  /\ events' = Append(events, "prearm")
  /\ UNCHANGED <<engineVars, fcuHome, odom, arm, thr, cool, cmds>>

ThrottleTelemetry ==
  /\ thr' = ~thr
  /\ UNCHANGED <<engineVars, fcuHome, odom, arm, events, cool, cmds>>

\* Positions set odom_ok; the home position of the FCU is received once or more.
OdomTelemetry ==
  /\ ~odom /\ odom' = TRUE
  /\ UNCHANGED <<engineVars, fcuHome, arm, thr, events, cool, cmds>>

HomeTelemetry ==
  /\ ~fcuHome /\ fcuHome' = TRUE
  /\ UNCHANGED <<engineVars, odom, arm, thr, events, cool, cmds>>

CooldownOver ==
  /\ cool /\ cool' = FALSE
  /\ UNCHANGED <<engineVars, fcuHome, odom, arm, thr, events, cmds>>

TakesArmEventsButAlways == TRUE

\* Only ArmState takes these events.
TakesArmEvents == leaf = "Arm"

Deliver ==
  /\ events # <<>> /\ events' = Tail(events)
  /\ \/ /\ TakesArmEvents /\ Head(events) = "armed"
        /\ RunPlan(queue)
        /\ UNCHANGED fallback
     \/ /\ TakesArmEvents /\ Head(events) = "prearm"
        /\ EnterHoverOrGround
        /\ UnchangedPlan
     \/ /\ ~TakesArmEvents \/ Head(events) = "disarmed"
        /\ UNCHANGED engineVars
  /\ UNCHANGED <<fcuHome, odom, arm, thr, cool, cmds>>

\* The tracker finished its path, or its velocity command expired.
TrackerIdle ==
  /\ cmd # "None" /\ cmd' = "None"
  /\ UNCHANGED <<leaf, mission, queue, fallback, doPland, plandOn, home,
                 takeoffPt, answer, ctxVars>>

-----------------------------------------------------------------------------
(* The specification.                                                      *)

Command ==
  \/ TakeoffCmd \/ SetPosVel \/ Loiter \/ Restart
  \/ \E given \in 0..MaxGiven, finish \in {"HOVER", "RETURN", "LAND"},
        pland \in BOOLEAN : SetWaypoint(given, finish, pland)
  \/ \E pland \in BOOLEAN : LandCmd(pland)

Tick ==
  \/ ListenerTick \/ InitTick \/ GroundTick \/ ArmTimeout \/ TakeoffDone
  \/ TakeoffStalled \/ LiftingTick \/ WaypointArrive \/ MoveArrive \/ TurnTick
  \/ PosVelTimeout \/ LandTick

Environment ==
  \/ StopFollow \/ Detect
  \/ ArmTelemetry \/ PrearmText \/ ThrottleTelemetry \/ OdomTelemetry
  \/ HomeTelemetry \/ CooldownOver \/ Deliver \/ TrackerIdle

Next == Command \/ Tick \/ Environment

Spec == Init /\ [][Next]_vars

\* The engine delivers posted events, and its ticks see the timers of ArmState
\* and PosVelState run out.  Nothing is assumed of operators or of the vehicle.
Fairness == WF_vars(Deliver) /\ WF_vars(ArmTimeout) /\ WF_vars(PosVelTimeout)

FairSpec == Spec /\ Fairness

-----------------------------------------------------------------------------
(* Safety.                                                                 *)

\* The current waypoint of a live mission exists (get_cur_wp), whatever the plan
\* and the side trips did: no state of a finished mission is ever entered again.
IndexInRange == InWaypoint => mission.idx < mission.len

\* What runs while a mission is live always leaves it when the mission is over:
\* the fallback is set and no entry still waiting belongs below WaypointState.
PlanLeavesMission ==
  InWaypoint => /\ fallback # "None"
                /\ \A i \in DOMAIN queue : queue[i].step # "MoveWaypoint"

\* A position command never survives into a state that must hold or descend, and
\* the path of a mission never into a side trip from it (HoverState, LandState and
\* FollowState on_enter, on_exit of PosVelState).
NoStalePosition ==
  /\ leaf \in {"Hover", "Land", "Follow"} => cmd \notin Position
  /\ leaf \in {"Move", "Turn"} => cmd # "Path"

\* The precision landing module is on exactly while the landing that asked for it
\* is the active state, however that landing is left or entered again.
PlandOnlyWhileLanding == plandOn <=> (leaf = "Land" /\ doPland)

\* mission_home belongs to the present flight: none on the ground, and while a
\* mission with waypoints of its own is live, that of this mission or of one before.
HomeBelongsToFlight ==
  /\ leaf \in {"Ground", "Init"} => home = 0
  /\ InWaypoint /\ mission.own => home # 0 /\ home <= mission.id

\* A takeoff request waits in at most one entry of the plan, and has not been
\* answered yet: taken from the plan, it is answered once.
QueuedTakeoffUnanswered ==
  \A i \in DOMAIN queue :
    queue[i].step = "Takeoff" /\ queue[i].id # 0 =>
      /\ answer[queue[i].id] = "pending"
      /\ \A j \in DOMAIN queue : queue[j].id = queue[i].id => i = j

-----------------------------------------------------------------------------
(* The inductive invariant behind the safety properties.                   *)

\* A mission is live exactly in its own children, side trips included.
MissionShape ==
  /\ InWaypoint => leaf \in Side \cup {"Lifting", "Execute"}
  /\ leaf \in {"Lifting", "Execute"} => InWaypoint

\* Commands are numbered in order: nothing carries the id of one still to come.
IdsInOrder ==
  /\ home <= cmds
  /\ InWaypoint => mission.id <= cmds
  /\ \A i \in DOMAIN queue : queue[i].id <= cmds
  /\ \A c \in Cmds : c > cmds => answer[c] = "none"

\* The plan: behind a mission, waiting or live, only set_posvel targets given in
\* Hover; a fallback whenever something waits or a mission is live; and a waiting
\* mission is no older than the one that recorded mission_home.
PlanShape ==
  /\ \A i, j \in DOMAIN queue :
       i < j /\ queue[i].step = "Mission" => queue[j].step = "MoveHover"
  /\ InWaypoint => \A i \in DOMAIN queue : queue[i].step = "MoveHover"
  /\ queue # <<>> \/ InWaypoint => fallback # "None"
  /\ \A i \in DOMAIN queue : queue[i].step = "Mission" => home <= queue[i].id

FlightInv ==
  /\ TypeOK /\ MissionShape /\ IdsInOrder /\ PlanShape
  /\ IndexInRange /\ NoStalePosition /\ PlandOnlyWhileLanding
  /\ HomeBelongsToFlight /\ QueuedTakeoffUnanswered

-----------------------------------------------------------------------------
(* Action properties.                                                      *)

\* The first mission of a flight keeps the return point: later missions, side trips
\* and plans never move it; it is only forgotten on the ground or by a restart.
FirstMissionWins ==
  [][home # 0 /\ home' # home => home' = 0 /\ leaf' \in {"Ground", "Init"}]_vars

\* A mission visits its waypoints in order, each one by arriving at it in
\* ExcuteState; no interruption skips or repeats one.
MissionProgress ==
  [][InWaypoint /\ mission' # NoMission /\ mission'.id = mission.id =>
       \/ mission' = mission
       \/ leaf = "Execute" /\ mission' = [mission EXCEPT !.idx = @ + 1]]_vars

\* A landing goes on to the ground unless the operator commands otherwise: no
\* tick, detection, late arm event or entry left in the plan interrupts it.
LandingOnlyLeftByCommand ==
  [][leaf = "Land" /\ leaf' \notin {"Land", "Ground"} => cmds' # cmds]_vars

\* The answer to a takeoff request is final.
AnsweredOnce ==
  [][\A c \in Cmds : answer[c] \in {"ok", "rejected"} => answer'[c] = answer[c]]_vars

(* Liveness.                                                               *)

\* Arming does not last for ever, whatever texts and arm events come or get lost.
ArmingEnds == leaf = "Arm" ~> leaf # "Arm"

\* A side trip from a mission ends: the mission goes on, a target is followed, or
\* the mission is over.
SideTripEnds == InWaypoint /\ InPosVel ~> ~InWaypoint \/ leaf \in {"Lifting", "Follow"}
=============================================================================
