# TLA+ model of the dankong control node

This directory specifies and checks the control logic of the dankong node: the hierarchical flight
states with the listeners and telemetry around them, the tracker's threads, the vehicles' adapters
and the CAN protocol of the car, precision landing, and the services of the node that keep state
of their own. Paths below are relative to the repository's root.

## 1. Inventory

The node is one process per vehicle (drone, dog, car, Go2). One **engine thread** (the `dk`
submodule) runs every event handler and every tick to completion. Around it run the MAVSDK
callback threads, ROS callbacks, the tracker's 50 Hz thread, background tasks (parameter reads,
NTRIP) and the HTTP/WebSocket server, which turns each request into an `AsyncEvent` that somebody
must `resolve` or `reject` (routes give up after 5 s). They share `RobotContext`, a struct of
atomics and lock-protected `DirtyVar`s: each field is consistent, several fields together are not.

| Component | State it keeps | Operations | Correct when | Hard because |
| --- | --- | --- | --- | --- |
| Flight states (`include/states`, `src/states`) | active path of the HSM; live `WaypointState` (route, index, dwell points), `PosVelState`, `LandState::do_pland_`; per-state timers | `before_enter`, `on_enter`, `on_tick`, `on_event`, `on_exit` | waypoints in order and in range; nothing stale left in tracker or precision landing; arming and side trips end; landing not interrupted | any event arrives in any state; states are re-entered, reused or rebuilt; exits clean up only partly |
| Control listener (`src/features/control`) | none of its own; writes plan and context | takeoff, set_waypoint, land, set_posvel, loiter, set_mode, prearm, disarm, restart, parameters, `on_tick` | each request answered once; a plan never finishes into a state of a dead mission; the return point is the first mission's | several listeners share one plan; requests outlive the states that should answer them |
| Follow and detection listener (`src/features/algo`) | `stop_follow_stamp`, speed limit token, recorder | detect, stop_follow, enable/disable detect, recording, gimbal, exposure | follow never starts where it is not allowed; the mission resumes | detections race disarming; cooldown; token lifetime |
| Task plan and engine (`dk`, external) | queue, fallback, active path | `push_back`, `push_front`, `clear`, `start`, `next`, `step`, `step_reenter_all` | the head runs once; deferral by `before_enter` keeps it | queue and fallback survive aborted plans |
| Telemetry (`include/features/mavlink`, `drone`) | `arm`, `throttle`, `odom_ok`, `fcu_home_gps`, mode | store, then post an event | events reflect stored values | other threads; delivery is later than the store |
| Tracker (`include/features/tracker`, `core/base_tracker.hpp`) | pending command, mode, waypoint list and index, speed-limit callbacks | `send_pos_cmd`, `send_vel_cmd`, `on_step`, add/remove limit | last command wins; index in range; limits removed | `on_step` reads outside the mutex; command timeout |
| Thread runner (`utils/thread_runner.hpp`) | `is_running_`, `is_terminating_` | start, stop, loop, destructor | no step after stop; destructor returns | stop concurrent with a step |
| Status report (`features/report`, `state_registry.hpp`, `dirty_var.hpp`) | dirty flags, rate limiters, last reported values | `try_report`, `append_full_state` | every client eventually sees the last value | new clients and rate limits share per-variable state |
| Car, dog (`robot/car.hpp`, `robot/dog.hpp`, `features/car`, `features/dog`) | command struct, senders; landing loops | `cmd_vel`, land, loiter, takeoff, timers | a stop stays a stop; one toggle for each landing | packed under a lock, sent outside it; the state is looked at once and used seconds later |
| CAN protocol (`generated/can_bus`) | — | pack, unpack, range checks, for 10 messages | what is packed is what is unpacked | a shift and a mask for every byte, twice |
| Bag recorder (`features/algo/bag_recorder.hpp`) | child's pid | start, check, stop, reap | no child unknown or a zombie | the child dies on its own |
| NTRIP client (`features/ntrip`) | socket, connection | connect, read, send the position | corrections come back after any failure | peers close, hang or vanish |
| Gimbal and mavros bridges (`features/control`) | control of the gimbal, its mode; — | set an angle; setpoints and odometry between frames | parameters tell the last angle; the motion is the same motion | calls of several nodes; signs and axes by hand |
| Precision landing (`features/pland`) | controller mode, target track, motion of the platform | start, stop, step, observation, image | pressed down only near the ground; a seen target is found and landed on | stale images and beliefs; state kept between landings |
| MAVSDK drone and requests (`src/mavlink`, `features/control`) | waiting requests | set_mode, prearm check | timeouts are explained; no mode switch in the air | polling against telemetry and events |
| Configuration, logging, startup, HTTP helper, MAVLink listener, system, datum synchronizer | — | — | — | see section 5 |

`PROJECT.json` lists every component with its status, and under `hazards` what is hard to test,
each at its line, with the property that would notice or the reason why none does.

### How the parts interact

A command's listener either steps the state machine directly (`land`, `loiter`, `stop_follow`) or
fills the plan (queue plus fallback) and starts it. Entering a state may be deferred by its
`before_enter`, which puts `ArmState` in front of the queue; `ArmState` continues the plan with
`next()` when telemetry's `ArmEvent` arrives, or drops to Hover/Ground on a timeout or a prearm
text, **leaving the queue as it is**. States command the tracker; `LandState` starts and cancels
the precision landing module. The listener's tick moves any flying state to Ground as soon as the
vehicle is not hovering.

The tracker takes commands in the engine's thread and follows them in its own; detection adds and
removes its speed limit. Its output goes to the vehicle's adapter: MAVSDK offboard setpoints, the
car's command struct and CAN frames, the dog's UDP commands, or goals of move_base. Telemetry
feeds the poses that the landing detector reads, the dirty variables of the status report, and
the modes that set_mode and prearm wait for.

## 2. Modules

| Module | What it is |
| --- | --- |
| `FlightControl` | flight states, plan, listeners, telemetry: specification, properties, inductive invariant |
| `MCFlightControl`, `FlightClaims` | its instance for the liveness properties; three statements of the repository that the code does not keep |
| `Voyages` | what an operator may rely on when giving missions, whatever the plan does with them |
| `MissionLog` | `FlightControl` with a log of the missions begun, which implements `Voyages` |
| `Tracker` | `ThreadedTracker` and `MoveBaseTracker` with the thread runner and the speed-limit token: engine thread and control thread |
| `LatestCommand` | what the tracker promises, whatever thread executes the commands; `Tracker` implements it (`FollowsLatest`) |
| `MCTracker` | the tracker's instance, with two statements about speed limits that the code does not keep |
| `Car` | the car's command struct, its senders and timers, `cmd_vel` with its limits |
| `Dog` | the dog's landing loops, its toggles and takeoff |
| `CanCodec`, `CanLibrary` | what pack and unpack of a layout do; the ten messages with their layouts and ranges, and one use of the library by the car's adapter |
| `MCVehicles` | instance of car, dog and CAN library |
| `Pland` | the landing controller: heights, blind drop, lost target, modes |
| `Detector` | the landing detector: outlier test, staleness, offset estimate |
| `MotionFilter` | whether the platform moves or stands (`target_tracker.hpp`) |
| `PoseHistory` | the pose of an image's moment, interpolated |
| `PosControl` | the jerk-limited position control of `tracker.hpp` along one axis |
| `Report` | dirty variables, checkers, reporter, new clients |
| `Autopilot` | flight mode, set_mode and prearm requests, `MavsdkDrone` |
| `Ntrip`, `Recorder`, `Gimbal` | NTRIP client; bag recorder; gimbal service |
| `MavrosBridge` | setpoints and odometry between ENU/FLU and NED/FRD |
| `MCNode` | instance of the eleven parts from `Pland` to `MavrosBridge` |
| `FlightControlProofs`, `TrackerProofs`, `CanCodecProofs`, `VehicleProofs`, `LandingProofs`, `ServiceProofs`, `AutopilotProofs`, `BridgeProofs` | TLAPS proofs |

`MCVehicles` and `MCNode` gather parts that share no state: a behaviour is one of one part, chosen
in the beginning, while the others stay where they start.

### `FlightControl` and the code

| Variable | Code |
| --- | --- |
| `leaf` | the active leaf state; `Move`, `Turn`, `Follow` are children of Waypoint when a mission is live, of Hover otherwise |
| `mission` | the live `WaypointState` instance: route length (`wp_list_`), `wp_idx_`, dwell points, whether it has waypoints of its own, where its RETURN point came from; `NoMission` when none is constructed |
| `queue`, `fallback` | `PlanManager` |
| `cmd` | the last command given to the tracker, `"None"` after it finished or timed out |
| `doPland`, `plandOn` | `LandState::do_pland_` and `ctx.do_pland` (start published, cancel not yet) |
| `home`, `takeoffPt`, `fcuHome` | `mission_home_enu` (by the mission that stored it), `takeoff_enu` (of this or an earlier flight), `fcu_home_gps` |
| `odom`, `arm`, `thr` | `odom_ok`, `arm`, `throttle > throttle_thresh` |
| `events` | `ArmEvent` / prearm `StatusTextEvent` posted, not delivered |
| `cool` | within `FOLLOW_COOL_TIME` of stop_follow |
| `answer` | how the `TakeoffEvent` of each command was settled |

Actions are whole handlers. *Commands* (`TakeoffCmd`, `SetWaypoint`, `LandCmd`, `SetPosVel`,
`Loiter`, `Restart`) carry a number that serves as mission and request id; a rejected command
changes nothing and is not a step. *Ticks* are the `on_tick` of the listener and of each state.
*Environment* holds detections, stop_follow, telemetry stores, the delivery of posted events and
the tracker's end of a command. The `Enter…` operators do what leaving and entering a state does
(`on_exit` of all states left, then `on_enter`), including the tracker's zero velocity, the cancel
of the precision landing and the loss of the return point on the ground.

Positions, altitudes, yaw and time are abstracted: "arrived", "at altitude", "stalled" and "timer
expired" are choices of the model, so every order of them is explored. Turn angles and
`dwell_indices` become an arbitrary set of dwell points that contains the last. `ArmTelemetry`
stores and posts in one step: the two are separate in the code, but a handler running in between
sees what it sees here when the event is delivered later.

`MissionLog` adds one history variable, `begun`, the last mission constructed; no action reads it.
`ImplementsVoyages` maps the live mission's route and index to `len` and `at` (0 outside a mission),
`cmds` to `given` and `home` to `start`. What it adds to the invariants is across missions: a mission
that is in the plan because of an `ArmState` in front of it, or was left there by a refused takeoff,
is never run twice and never after one given later.

### The other modules and the code

* **Tracker.** `engine` and `loop` say where the two threads are. `data_mutex_` covers the pending
  command, the end of a path and the refresh of the current waypoint by a speed limit, not the rest
  of `on_step`. `apply_current_waypoint` is therefore three steps wherever the other thread may
  come between: in the engine's thread `BeginRefresh` (index read, callbacks asked), `Refresh`
  (target and limit written), `PublishRefreshed` (goal published); in the control thread
  `Advance`, `Activate`, `PublishWaypoint`. The rest of `on_step` is `ApplyPending` (the locked
  block), `ArriveAtEnd` and `HaltAtEnd`, `Step…` or `CommandTimeout`, and `Emit`. The destructor is
  `Destroy`, `OnStop`, `Terminate`, `Join`, each interleaved with the loop. A target is a record of
  its command and waypoint; `strayed` notes what a refresh has overwritten: the target or goal of a
  route no longer followed, or the waypoint of an index that `on_step` has advanced meanwhile.
  Whether the vehicle has arrived is a choice. The refinement maps `cur`, `mode # "NONE"` and
  `finished` to `taken`, `busy` and `reached`; a path is finished (`Reach`) before it is given up
  (`End`).
* **Car and Dog.** The car's `cmd` is the packed struct, `bus` the last frame, with packing
  (`StepPack`) and sending (`StepSend`) as separate steps; velocities are in cm/s and mrad/s, as
  integers. Each call of the dog's `land` is a loop of its own (`LoopWaits`, `LoopSends`); `pose` is
  the dog's (external), which may stand or lie when the node starts. A toggle in the middle of
  standing up or lying down may end either way: no property depends on which.
* **CanCodec and CanLibrary.** A signal's value and a frame are the sets of their bits that are 1,
  a layout is a set of wires; `Pack` and `Unpack` follow the wires. The layouts are those of the
  shifts and masks of the pack functions; one layout stands for the unpack function too, and that
  the two agree in the C code was read, not checked.
* **Pland, Detector, MotionFilter, PoseHistory, PosControl.** Positions are integers in small
  units; control laws, filters and image processing are choices among the outcomes the rules around
  them tell apart. `Pland` copies the observation in one step and uses it in the next, as
  `on_step` does. `Detector` keeps the place it saw last and the time since, from which the
  outlier test follows. `PosControl` computes with integers in the fixed units of its header.
* **Report.** `Store` writes the value and `SetFlag` the flag, in any of the writers' threads;
  `TakeFlag` and `ReportValue` are the two halves of `try_report`; `ClientOpens` comes before its
  `SendFullState`.
* **Autopilot.** The telemetry callback is `TellMode` then `StoreMode`; set_mode is `AskMode`,
  `SendMode` (the engine is blocked by the command) and `WaitForMode`. Each prearm request posts a
  task of its own, which outlives the request's second, so several may run at once (`Checks`):
  `CheckLooks` (armed or in the air?), `CheckSwitches`, `CheckRuns`, with pilot and engine between any
  two. How the request is answered changes nothing else and is left out. `excuse` collects the
  reasons a set_mode request may be late for, `risen` the tasks whose vehicle was armed after they
  had looked.
* **Ntrip, Recorder, Gimbal.** Each blocking call is a step with its failures; peer, child and
  gimbal are external. `Gimbal` takes `mutex_` in `LockBridge` and gives it back with its answer;
  a failed mode command returns without `release_control`, as in the code.
* **MavrosBridge.** Headings are quarter turns, so the rotations are exact. `velBody` is `vel_body` as
  the code computes it, the NED velocity turned back by the ENU orientation. It is not the velocity
  in the vehicle's frame: facing and flying north at 1 m/s, the status report shows `x_vel_body` 0 and
  `y_vel_body` -1. Only that report reads it and no text says what it should be, so no property
  speaks of it.

### What is assumed of `dk`

Its source is a submodule absent from the repository. `README.md` section 4 and the comments at
its uses say, and the model follows:

* `step` does not touch the queue; only `clear()` empties it (section 4.3). `start()` and `next()`
  take and execute the head, or the fallback when the queue is empty, which stays set;
  with no fallback nothing happens.
* An entry whose `before_enter` defers stays behind the `ArmState` put in front of it; a plain
  `step` that is deferred is dropped. `ArmState::on_enter` going on at once because `arm` became
  true meanwhile has the same outcome as the delivery of the arm event.
* A step with arguments constructs its parents anew; without arguments it reuses the live ones
  (`posvel_state.hpp:160-164`); a step to a state that is active already does not enter it again.
* An entry below `WaypointState` without a live mission cannot be built (`build_path` throws); the
  machine stays where it is. `SetPosVel` out of `LaterTurnState` passes empty tuples, of which
  `posvel_state.hpp:163-164` says that they make `build_path` throw: the model allows both outcomes.
* A handler whose target instance is destroyed runs its destructor; nothing else touches requests.

## 3. Runs

| Run | Bounds | What it shows |
| --- | --- | --- |
| `flight` | 3 commands, 1 waypoint per request, 1 pending event | the safety and action properties of `FlightControl`, and with its log `ImplementsVoyages` |
| `flight_liveness` | 2 commands, up to 3 waypoints, 1 pending event | `ArmingEnds`, `SideTripEnds`; `MissionProgress` on longer routes |
| `tracker` | 3 commands, paths of 2, 2 speed limits, timeout after 1 tick, with move_base | `TrackerInv`, `FollowsCommand`, `LimitRegistered`, `GoalWithdrawn`; `FollowsLatest`; `VelocityEnds`, `JoinReturns` |
| `vehicles` | 3 velocities, 3 calls of the dog, 1 light command, every signal and bit of every message | `StopOnBus`, `BrakeOrDrive`, `StopReachesBus`; `OneTogglePerCall`, `LandingEnds`; `FramesReadBack` |
| `node` | see below | one or two properties for each part of `MCNode` |
| `claim_takeoff_answered` | 1 command | finding 1 |
| `claim_motion_stops` | 1 command, 1 waypoint | finding 2 |
| `claim_posvel_moves` | 2 commands, 1 waypoint | finding 3 |
| `claim_velocity_unaffected` | 2 commands, 1 limit | finding 4 |
| `claim_waypoint_refreshed` | 1 command, a path of 2, 1 limit | finding 5 |
| `claim_lying_dog` | as `vehicles`, 2 calls of the dog | finding 6 |
| `claim_prearm_leaves_flying` | as `node` | finding 7 |

**Flight.** `MaxCmds`, `MaxGiven` and `MaxEvents` are the only bounds. Three commands are a mission, its
interruption and a command that meets what both left behind, the longest pattern the hazards need;
one given waypoint makes routes of one, and of two with a return point; three given, of which the
first is dropped (`Kept`), make routes of two and three, in `flight_liveness`. One pending event
suffices for a late event: the bound limits how many wait at once, never how late one is
delivered. Telemetry is unbounded and may toggle for ever. No symmetry is used: command numbers
are ordered. Deadlock is checked (telemetry never stops).

Safety: `IndexInRange`, `PlanLeavesMission` (no finished mission is entered again, the hazard
named at `event_listener.cpp:111-114`), `NoStalePosition`, `PlandOnlyWhileLanding`,
`HomeBelongsToFlight`, `QueuedTakeoffUnanswered`. Actions: `FirstMissionWins`,
`LandingOnlyLeftByCommand`, `AnsweredOnce`, the refinement `ImplementsVoyages`, and in `flight_liveness`, whose routes are longer,
`MissionProgress`. `FlightInv` is the inductive invariant of the proofs,
checked by TLC first.

Fairness is only in `FairSpec`: weak fairness of `Deliver` (the engine drains its queue),
`ArmTimeout` and `PosVelTimeout` (the engine ticks, and wall-clock timers that are not reset run
out). Operators, vehicle and telemetry have none. `PosVelTimeout` counts because each set_posvel
resets the timer and commands are finite in a behaviour. Landing, takeoff and arriving at a
waypoint have no liveness property: the code has no timer for them (a mission whose waypoint is
unreachable stays in `ExcuteState`).

**Tracker.** Three commands suffice for one that is followed, one pending and one that overtakes it;
two waypoints for an intermediate and a last one; two limits for a token that replaces another.
`FollowsCommand` says that what is steered for is the newest command taken up, and on a path the
waypoint its index names, with two exceptions that are exactly what the code does: a refresh of a
route already left (finding 4), and a refresh that read the index before `on_step` advanced it and
wrote the target afterwards (finding 5), which leaves a waypoint already passed, never one ahead.
`GoalWithdrawn` says that no goal of move_base outlives its path, but for such a refresh of a route
already left. Fairness: the control thread's loop and the clock go on
(`WF(Loop)`, `WF(Tick)`), and an operation begun by the engine's thread is completed. Nobody has
to begin one. A velocity command ends by its timeout alone (`VelocityEnds`), and the destructor's
join returns from wherever the loop is (`JoinReturns`).

**Vehicles.** `StopOnBus`: after land or loiter at most the one frame packed before may still drive.
`BrakeOrDrive`: no frame mixes the fields of two requests. The velocities are straight on,
backwards in a sharp turn, and turning on the spot. Fairness: the car's senders and each of the
dog's landing loops go on. `FramesReadBack` is checked for every message with one signal
zero, full or a single bit and the others all zero or all full; `CanCodecProofs` proves it for
all values.

**Node.** Every part has its own small constants:

| Part | Bounds | Property |
| --- | --- | --- |
| `Pland` | heights 0 to 5 half metres, target lost after 1 step | `PressOnlyLow`, `SeenTargetReached` |
| `Detector` | two places 4 apart, a target of speed 1 per image, 3 images per second | `TargetFound` |
| `MotionFilter` | three spots at 0, 0.2 and 0.9 m, window of 5 images, 3 before anything is said, 2 to confirm, 3 to calm | `ParkedStands` |
| `Report` | 2 writers, values 0 to 2, threshold 1, 2 clients | `NothingForgotten` |
| `PoseHistory` | 2 entries kept, 5 instants, tolerance 1 | `ImagePoseNear` |
| `PosControl` | goals at 0.3 m and 7 m, the defaults of `tracker/config.hpp` (3 m/s, 2 and 1 m/s^2, 5 cm), 2 moves | `ArrivesSlowly` |
| `Autopilot` | 2 modes, 2 set_mode requests, 2 prearm tasks, 1 change by others | `TimeoutExplained`, `SwitchedOnlyInWindow` |
| `Ntrip` | none | `CorrectionsReturn` |
| `Recorder` | 3 children | `RecordersReaped` |
| `MavrosBridge` | one vector with three different parts, 4 headings, 4 yaws | `MotionKept` |
| `Gimbal` | 2 callers, 2 modes, 2 angles, one beyond the limit | proved: `ShownAngle`, `PitchInMode` |

Two of everything that competes (writers, requests, callers) are the least that interleave; three
children are a current one, a new one and one being reaped. The goal at 7 m reaches the full speed
and every phase of the profile, a second move between the two goals turns round; 0.3 m is a short
move that brakes early.

`SwitchedOnlyInWindow` says that a prearm task switches the mode of an armed vehicle only when it
was armed after that very task had looked; that this window exists is finding 7.

Fairness in `MCSpec` is for threads and timers only: the landing and detector loops, altitude and
camera that feed them, the motion filter's update, the NTRIP thread with its ticks and the kernel's
own timeout for a dead connection, the recorder's check and its reaping threads, and a child that
was told to end. `SeenTargetReached`, `TargetFound`, `ParkedStands` and `CorrectionsReturn` are
conditional: from some moment on the target stays in view, stays put or parks, or the caster works
(`steady`, `calm`, `good`, each set once by the environment). `CorrectionsReturn` excepts one case
the code has no timeout for: the caster vanishing while the thread waits for the first answer
(`Deaf`). `NothingForgotten` excepts clients before the newest when a checker is used: a full
state sent to a new client counts as reported. The two exceptions are what the code does.
`CHECK_DEADLOCK FALSE` stands in the runs whose system may stop: the bounds on commands and calls are
used up, or the tracker is gone.

Every property has a *mutant*: an operator named `XBut…` beside `X` with one plausible bug, under
which the property fails.

### Findings

1. `TakeoffAnswered`: a takeoff request whose arming fails is neither resolved nor rejected; it stays in
   the plan's lambda and its caller waits for the HTTP timeout, against `takeoff_state.hpp:27-28`.
2. `MotionStopsOnExit`: a mission left from `ExcuteState` by the listener's tick leaves its path with
   the tracker on the ground; `README.md:168` says `on_exit` stops motion output.
3. `PosVelMovesToTarget`: set_posvel in Hover appends without `clear()` and starts the head, which may
   be an abandoned takeoff or mission; `pytest/test_posvel.py:72` expects the flight to the target.
4. `VelocityUnaffected`: a speed limit that comes or goes while a velocity is followed writes the
   old route's waypoint over its target, against `开发日志.md:125`.
5. `CurrentWaypointRefreshed`: a speed limit added while the control thread advances to the next
   waypoint writes the one before back as the target (`tracker.hpp:441-442` reads the index,
   489-490 writes, 325-329 advances without the lock), against `开发日志.md:123`; its limit and
   the one `on_step` applies overwrite one another in the same way. The vehicle is at that waypoint,
   so the next `on_step` skips the leg, or takes the path for finished.
6. `LyingDogLeftAlone`: two landings asked for before the loop of the first has sent its command
   (two seconds at least) toggle twice, and the dog, lying by then, stands up again, against
   `dog.hpp:63`.
7. `PrearmLeavesFlying`: a vehicle armed between the look and the switch of `run_prearm_checks` is
   pulled into GUIDED, which `mavsdk_drone.cpp:94-96` means to exclude.

## 4. Proofs

`FlightControlProofs` proves, for every `MaxCmds`, `MaxGiven`, `MaxEvents` in `Nat` and any
`NoMission` that is not a mission record (the named assumptions of `FlightControl`):

* `FlightInvariant`: `Spec => []FlightInv`, and from it `TypeCorrect`, `MissionIndexInRange`,
  `PlanAlwaysLeavesMission`, `PositionNeverStale`, `PlandFollowsLanding`, `HomeOfThisFlight`;
* the action properties `ReturnPointKept` (`FirstMissionWins`), `WaypointsInOrder`
  (`MissionProgress`), `LandingNotInterrupted`, `AnswersFinal` (`AnsweredOnce`).

None of the safety properties is inductive alone. `PlanLeavesMission` needs to know what may wait
behind a mission (`PlanShape`: once a mission is in the queue or live, only hover side trips
follow it), because `next()` after the last waypoint would otherwise run an entry that keeps the
finished mission alive and break `IndexInRange`. `HomeBelongsToFlight` and `MissionProgress` need
that ids grow (`IdsInOrder`) and that a waiting mission is no older than the one that set `home`.
`AnsweredOnce` needs that a queued request is still pending and queued once.

The argument: `InvParts` splits `FlightInv` into what entering states establishes (`VehicleOK`,
`IdsOK`) and what the plan keeps (`QueueOK`, `Behind`). Each transition either *leaves* every
state (`LeavingOK`), *stays* under its parent (`StayingOK`) or *starts* a mission; `PlanKeeps`
treats `RunPlanAt` once, for whatever queue and mission it is given; then there is one step per
handler. The action properties use `StepKinds`: every step is one of these kinds or arrives at a
waypoint.

`MissionsAreVoyages` (`LogSpec => ImplementsVoyages`) is the refinement: the initial states map to
the initial state, and each step to `Begin`, `Advance`, `End`, `Down` or a stutter. It rests on
`LogInv`, that a mission waiting in the plan is newer than every mission begun, which `LogKeeps`
shows from what is known of the queue after each kind of step (`KnownIsNewer`, `QueueKnown`): its
entries were there before or carry the number of the present command.

The other proof modules:

* `TrackerProofs`, for any numbers of commands, waypoints and limits, any timeout, with and without
  move_base: `TrackerInvariant` and from it `FollowsCommandAlways`, `LimitRegisteredAlways`,
  `GoalWithdrawnAlways`, and `TrackerImplementsLatest`: `Spec => LC!Spec`. The properties need
  `Bookkeeping` (a pending command is the newest and not taken up; the loop is inside a step only
  when something is followed) and `FinishedUnlessPosition`. The proof has one step per action,
  the engine's in `EngineInv`, the loop's in `LoopInv`; the initial states and the steps are then
  mapped one by one. For a refresh under way it needs that the waypoint it has read is of the
  present route and not ahead of the index, which holds because a new path is taken up under
  the lock.
* `CanCodecProofs`: if the wires of a layout are apart (no frame bit and no value bit is used
  twice) and carry the message, unpacking a packed message gives it back (`UnpackOfPack`), and
  packing an unpacked frame gives its wired bits (`PackOfUnpack`). One lemma per layout shows that
  it is apart, another per range that what is in range has no bit without a wire; together they
  give `EveryMessageReadBack`, for all ten messages, and with the invariant `CanInv` (what lies
  between two steps is the packed frame or the unpacked message) `FramesAreReadBack`: the property
  of the run, started from any message in range instead of the run's few.
* `VehicleProofs`: `TogglesAsAsked`, for any number of calls: toggles sent and loops that may still
  send one never exceed the calls (`DogInv`, a count over the set of waiting loops).
  `CarStopsOnBus` and `CarBrakesOrDrives`, for any velocities: `CarInv` says that
  the command stands while nothing may drive and whenever it brakes, that the packed frame lags one
  command behind it, and the frame on the bus one behind that.
  `SharpTurnKeepsSpeed`, for all speeds, yaw rates and measures of the car: in a turn beyond the
  wheels' limit the car keeps its speed, although `car.hpp:154` means to lower it.
* `LandingProofs`: `HeightInvariant` and `BlindDropsAreLow` (`PressOnlyLow`), for all altitudes.
  `PosesStayNear`, for any speed, depth and tolerance: `HistoryInv` says that the
  records are true and in order, and that the past was no faster than the speed; the interpolation
  picks a next older and a next younger record, which exist by a lemma that every set of numbers
  has a least one. `MovesArriveSlowly`, for all goals and limits with `LimitsFit`:
  `ControlInv` says that the distance left suffices to brake from the present speed (`Stops`,
  shown for one step with lemmas about the products of speeds). `LimitsFit` asks that the jerk limit
  lets each acceleration through and that the tolerance leaves room for what braking in steps of
  20 ms adds to the speed planned (`RoomSuffices`); a step may then be longer than the tolerance,
  and `NoPassing` shows that the goal is not passed between two of them. Both hold for the shipped
  defaults (3 m/s, 5 cm, 1 m/s^2), and with those up to 4.4 m/s; `MCNode` assumes it for the
  defaults, which are its values. With a tighter jerk limit or tolerance braking begins later than
  planned, and the bound is not claimed.
* `ServiceProofs`: `ReportTypes` and `ChangesReported` (`NothingForgotten`), for any writers, clients,
  values and threshold; the invariant adds that the newest client was shown the value that is
  noted as reported, and that who was shown anything has opened. `ChildrenKnownOnce` and
  `RecordingToldTruly`, for any children of the recorder: each child that is not reaped is known
  to exactly one of the recorder, the check and the reaping threads. `SocketsNeitherLostNorStale`:
  the NTRIP client has a socket exactly while it connects or is connected.
* `AutopilotProofs`: `TimeoutsExplained` and `SwitchesInWindow` (`SwitchedOnlyInWindow`), for any modes,
  requests, prearm tasks and changes.
  `TimeoutExplained` needs that a request that still waits, without excuse, has its mode still to be
  told, in the queue, or being stored (`PendingFollowed`).
* `BridgeProofs`: `GimbalShowsPitch` and `GimbalPitchInMode`, for any callers, modes, angles and limits,
  from the mutual exclusion of handlers (`OneInside`) and what stands between an acknowledged pitch
  and the parameters (`ShownOrSent`); `MotionIsKept`, for all vectors, yaws and rates in the four
  headings.

Besides the named assumptions on constants only `LimitsFit` is used, in `MovesArriveSlowly`. Every
safety invariant, action property and refinement that a run checks is proved. Model-checked only
are the liveness properties (`ArmingEnds`, `SideTripEnds`, `VelocityEnds`, `JoinReturns`,
`StopReachesBus`, `LandingEnds`, `SeenTargetReached`, `TargetFound`, `ParkedStands`,
`CorrectionsReturn`, `RecordersReaped`: fairness is out of the prover's reach) and the
counterexamples of the findings. `ShownAngle`, `PitchInMode`, `EachChildKnownOnce`,
`ToldWhetherRecording` and `OneSocket` are proved and in no run.

## 5. Not modelled

* In `FlightControl`: the events of waypoints (`run_wp_event` dispatches any request by name), the
  mission data shown to clients, the answers of requests other than takeoff, the variants of the
  other vehicles, commands that only forward to the autopilot. `dk` itself is not in the
  repository.
* Numerics: Kalman filters (`kalman_filter_*.hpp`), control laws of the landing controller, tag
  detection, heading control and the Ackermann pursuit of `tracker.hpp`. They compute with
  reals; the models keep the decisions around them as choices.
* Glue without state of its own, or whose state nothing reads: the MAVLink listener (it pulls the
  parameters), system feature, configuration, startup, logging and crash handling, the HTTP
  helper, ROS and UDP handling of dog and Go2, exposure and planner switches, the JSON of the
  status report and the rate of each of its values.
* The detector's fallback to the present pose when the pose of the image is not known
  (`landing_detector.hpp:271-275`); `ImagePoseNear` ends where the history says so.
* `DatumSynchronizer`: nothing in the repository uses it.
* Undefined behaviour of data races proper: a vector read while it is written
  (`speed_limit_cbs_`, `target_vel_`), or `offset_estimator` reset while an image is processed. The
  models read and write such fields in one piece each, and interleave the pieces. Nor is the use of
  members of a tracker that is already destroyed.
