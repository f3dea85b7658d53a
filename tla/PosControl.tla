------------------------------ MODULE PosControl ------------------------------
(***************************************************************************)
(* What the tracker commands while it moves to a position                  *)
(* (features/tracker/tracker.hpp, compute_pos_control and                  *)
(* apply_kinematic_constraints), for an omnidirectional vehicle that moves *)
(* along one axis and does as it is told, to the last point of a route.    *)
(* Module Tracker has the modes and the thread; here a pending command is  *)
(* taken in a step of its own before the control step.                     *)
(*                                                                         *)
(* Speeds are in cm/s and accelerations in cm/s per control step of 20 ms; *)
(* positions are in 0.2 mm, so that a step moves the vehicle by its speed. *)
(* The integral part of the controller, at most 0.01 m/s, the heading and  *)
(* the feedforward of earlier points are left out.                         *)
(*                                                                         *)
(* Operators named XBut... are faulty variants of X.                       *)
(***************************************************************************)
EXTENDS Integers, FiniteSetsExt

CONSTANTS
  Goals,     \* positions that are asked for
  SpeedFb,   \* fb_vel_limit_xy_
  SpeedMax,  \* max_vel_xy
  Acc,       \* max_acc_xy
  Decel,     \* max_decel_xy
  Jerk,      \* max_jerk_xy, in cm/s per step and step: 40 for the 1000 m/s^3 of no limit
  Tol,       \* pos_tolerance_m
  MaxMoves   \* bound: commands in a behaviour

ASSUME ControlAssumption ==
  /\ Goals \subseteq Int
  /\ SpeedFb \in Nat /\ SpeedMax \in Nat /\ Acc \in Nat /\ Decel \in Nat /\ Jerk \in Nat
  /\ Tol \in Nat /\ MaxMoves \in Nat

\* What ArrivesSlowly asks of the configuration.  The jerk limit lets every acceleration
\* through, as the default of 1000 m/s^3 does up to 10 m/s^2; and the tolerance leaves room
\* for what braking in steps adds to the speed planned, as the default of 5 cm does with
\* the default 1 m/s^2 up to 4.4 m/s.
Room == 2 * Tol - SpeedFb
LimitsFit ==
  /\ Acc # 0 /\ Decel # 0
  /\ 2 * Acc <= Jerk /\ 2 * Decel <= Jerk
  /\ Decel <= Room /\ Decel * (2 * Tol + SpeedFb) <= Room * (Room - Decel)

VARIABLES
  goal,      \* target_pose_enu_
  moving_on, \* current_mode_ is POSITION
  place_x,   \* pos_enu
  speed,     \* last_cmd_vel_
  accel,     \* last_cmd_acc_
  prevError, \* pid_x_.prev_error
  rested,    \* the move began at rest and has kept its goal
  moves      \* commands so far

controlVars == <<goal, moving_on, place_x, speed, accel, prevError, rested, moves>>

ControlInit ==
  /\ goal = 0 /\ moving_on = FALSE /\ place_x = 0
  /\ speed = 0 /\ accel = 0 /\ prevError = 0
  /\ rested = FALSE /\ moves = 0

Magnitude(n) == IF n < 0 THEN -n ELSE n
Clamp(n, most) == IF n > most THEN most ELSE IF n < -most THEN -most ELSE n
Part(n, num, den) == IF n < 0 THEN -((-n * num) \div den) ELSE (n * num) \div den

\* apply_pending_command: a new goal while one is pursued keeps the controller's memory.
TakeGoal(x) ==
  /\ moves < MaxMoves
  /\ goal' = x /\ moving_on' = TRUE /\ moves' = moves + 1
  /\ prevError' = IF moving_on THEN prevError ELSE 0
  /\ rested' = (~moving_on /\ speed = 0)
  /\ UNCHANGED <<place_x, speed, accel>>

\* calculate_pid with kp_xy = 1.5 and kd_xy = 0.1.
Feedback(error) == Part(error, 3, 100) + Part(error - prevError, 1, 10)

\* The speed from which Decel stops within the distance.
BrakingButAcc(distance) == Max({s \in 0 .. SpeedFb : s * s <= 2 * Acc * distance})
Braking(distance) == Max({s \in 0 .. SpeedFb : s * s <= 2 * Decel * distance})

\* compute_pos_control.
Wanted(error) == Clamp(Clamp(Feedback(error), SpeedFb), Braking(Magnitude(error)))

\* apply_kinematic_constraints: the acceleration from the last command to this one,
\* limited in size and, with hindsight only, in its change.
Limited(want) ==
  LET a     == Clamp(want, SpeedMax) - speed
      limit == IF Magnitude(speed) > 1 /\ speed * a < 0 THEN Decel ELSE Acc
  IN  accel + Clamp(Clamp(a, limit) - accel, Jerk)

\* on_step and on_pos_step, and the vehicle's way until the next.
StepMove ==
  /\ moving_on
  /\ LET error == goal - place_x
     IN  /\ Magnitude(error) > Tol
         /\ accel' = Limited(Wanted(error)) /\ speed' = speed + accel'
         /\ prevError' = error
         /\ place_x' = place_x + speed'
  /\ UNCHANGED <<goal, moving_on, rested, moves>>

\* Within the tolerance the move is finished, at whatever speed: zero is sent at once.
Arrive ==
  /\ moving_on /\ Magnitude(goal - place_x) <= Tol
  /\ moving_on' = FALSE /\ rested' = FALSE
  /\ speed' = 0 /\ accel' = 0 /\ prevError' = 0
  /\ UNCHANGED <<goal, place_x, moves>>

ControlNext == StepMove \/ Arrive \/ \E x \in Goals : TakeGoal(x)

ControlSpec == ControlInit /\ [][ControlNext]_controlVars

-----------------------------------------------------------------------------
(* Properties.                                                             *)

\* A move that began at rest and kept its goal arrives so slowly that the zero speed sent
\* on arrival asks for no more than braking within twice the tolerance: the proportional
\* part, the braking curve and the limits of acceleration fit together.
ArrivesSlowly ==
  [][rested /\ Arrive => speed * speed <= 2 * Decel * (2 * Tol)]_controlVars
=============================================================================
