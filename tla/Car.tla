-------------------------------- MODULE Car --------------------------------
(***************************************************************************)
(* The car's adapter (include/robot/car.hpp): the engine's and the         *)
(* tracker's threads write the command struct under a mutex, and a 50 Hz   *)
(* thread packs it under the mutex and sends the frame after releasing it. *)
(*                                                                         *)
(* Velocities are in cm/s and mrad/s, lengths in cm, tangents in 1/1000; a *)
(* target speed is in tenths of km/h as on the bus, an angle as on the bus.*)
(*                                                                         *)
(* Operators named XBut... are faulty variants of X.                       *)
(***************************************************************************)
EXTENDS CanCodec

CONSTANTS
  Vels,       \* velocity commands [vx, vy, yaw]; one of vx and vy is 0
  Angles,     \* amounts of steering below the limit of 300
  Wheelbase,  \* distance of the axles
  TanMax,     \* tangent of the greatest wheel angle
  Lights,     \* lamp requests
  Switch,     \* what horn and emergency stop are set to
  MaxSpeed    \* the configured limit, tenths of km/h

VARIABLES
  cmd,        \* cmd_210_: the signals of message 210 as numbers
  payload,    \* the frame packed and not yet sent, NoFrame between two steps
  bus,        \* the last frame on the bus
  live,       \* has a takeoff been commanded since the last stop (history)
  sent        \* frames sent since the last stop, at most 2 (history)

carVars == <<cmd, payload, bus, live, sent>>

NoFrame == {-1}
P == 0
R == 1
N == 2
D == 3

-----------------------------------------------------------------------------

CarInit ==
  /\ cmd = [f \in DOMAIN Layout210 |-> IF f = "ipc_en" THEN 1 ELSE 0]
  /\ payload = NoFrame
  /\ bus = {}
  /\ live = FALSE
  /\ sent = 0

StandButSpeedKept(g, brake) ==
  [cmd EXCEPT !.ipc_en = 1, !.brake_en = brake, !.target_gear = g,
              !.target_angle = 0, !.steering_mode = 0]

\* The fields land, loiter and takeoff set: gear and brake, no speed, wheels ahead.
Stand(g, brake) ==
  [cmd EXCEPT !.ipc_en = 1, !.brake_en = brake, !.target_gear = g, !.target_speed = 0,
              !.target_angle = 0, !.steering_mode = 0]

CarLand == cmd' = Stand(P, 1) /\ live' = FALSE /\ sent' = 0 /\ UNCHANGED <<payload, bus>>

\* No caller in the repository at present.
CarLoiter == cmd' = Stand(N, 1) /\ live' = FALSE /\ sent' = 0 /\ UNCHANGED <<payload, bus>>

CarTakeoff == cmd' = Stand(D, 0) /\ live' = TRUE /\ UNCHANGED <<payload, bus, sent>>

-----------------------------------------------------------------------------
(* cmd_vel, called by the tracker's thread.                                *)

DrivableButNeutral(g) == g # P

\* inner_check_hover: neither P nor N.
Drivable(g) == g # P /\ g # N

Abs(n) == IF n < 0 THEN -n ELSE n
Speed(v) == Abs(v.vx) + Abs(v.vy)

Least(a, b) == IF a < b THEN a ELSE b

\* A speed in the bus's unit, at most the configured one.
BusSpeed(cms) == Least((cms * 36) \div 100, MaxSpeed)

\* The turn needs more than the greatest wheel angle.
Sharp(v) == Wheelbase * Abs(v.yaw) > TanMax * Speed(v)

\* The speed "that matches the yaw rate" at the greatest angle, or the one asked for.
SafeSpeed(v) ==
  IF Sharp(v) THEN Least(Speed(v), (Wheelbase * Abs(v.yaw)) \div TanMax) ELSE Speed(v)

Turned(v, amount) == IF v.yaw > 0 THEN amount ELSE IF v.yaw < 0 THEN -amount ELSE 0

\* Turning on the spot, standing, or driving with the wheels turned.
CmdVel(v) ==
  /\ Drivable(cmd.target_gear)
  /\ LET go == [cmd EXCEPT !.ipc_en = 1, !.brake_en = 0,
                           !.target_gear = IF v.vx < -5 THEN R ELSE D]
     IN  \/ /\ Speed(v) < 5 /\ Abs(v.yaw) > 50
            /\ \E a \in Angles \cup {300} :
                 cmd' = [go EXCEPT !.steering_mode = 1, !.target_speed = 0,
                                   !.target_angle = Turned(v, a)]
         \/ /\ Speed(v) < 5 /\ Abs(v.yaw) <= 50
            /\ cmd' = [go EXCEPT !.steering_mode = 0, !.target_angle = 0,
                                 !.target_speed = BusSpeed(Speed(v))]
         \/ /\ Speed(v) >= 5
            /\ \E a \in IF Sharp(v) THEN {300} ELSE Angles :
                 cmd' = [go EXCEPT !.steering_mode = 0, !.target_angle = Turned(v, a),
                                   !.target_speed = BusSpeed(SafeSpeed(v))]
  /\ UNCHANGED <<payload, bus, live, sent>>

-----------------------------------------------------------------------------
(* The other requests: lamps, horn, emergency stop.                        *)

SetLight(e) ==
  /\ cmd' = [cmd EXCEPT !.ipc_en = 1, !.turn_lamp = e.turn, !.dipped_lamp = e.lamps,
                        !.far_lamp = e.lamps, !.out_line_lamp = e.lamps,
                        !.alarm_lamp = e.lamps]
  /\ UNCHANGED <<payload, bus, live, sent>>

SetHorn(on) ==
  /\ cmd' = [cmd EXCEPT !.ipc_en = 1, !.horn = on]
  /\ UNCHANGED <<payload, bus, live, sent>>

\* Its event has a listener; no route of the repository posts it at present.
SetEstop(on) ==
  /\ cmd' = [cmd EXCEPT !.domain_ctrl_epo = on]
  /\ UNCHANGED <<payload, bus, live, sent>>

-----------------------------------------------------------------------------
(* The 50 Hz thread and the car's status.                                  *)

Signals(c) == [f \in DOMAIN c |-> Bits16(c[f])]

StepPackButOnce ==
  /\ payload = NoFrame
  /\ bus = {}
  /\ UNCHANGED <<cmd, bus, live, sent>>
  /\ payload' = Pack(Layout210, Signals(cmd))

\* on_step up to the end of the lock.
StepPack ==
  /\ payload = NoFrame
  /\ UNCHANGED <<cmd, bus, live, sent>>
  /\ payload' = Pack(Layout210, Signals(cmd))

\* send_frame, outside the lock: the command may be another by now.
StepSend ==
  /\ payload # NoFrame
  /\ bus' = payload
  /\ payload' = NoFrame
  /\ sent' = IF sent < 2 THEN sent + 1 ELSE 2
  /\ UNCHANGED <<cmd, live>>

CarThread == StepPack \/ StepSend

CarNext ==
  \/ CarLand \/ CarLoiter \/ CarTakeoff
  \/ \E v \in Vels : CmdVel(v)
  \/ \E e \in Lights : SetLight(e)
  \/ \E on \in Switch : SetHorn(on) \/ SetEstop(on)
  \/ CarThread

CarSpec == CarInit /\ [][CarNext]_carVars

-----------------------------------------------------------------------------
(* Properties.                                                             *)

OnBus(f) == Signal(Layout210[f], bus)
Stands == OnBus("target_speed") = {} /\ OnBus("target_gear") \in {Bits(P), Bits(N)}

\* After land or loiter at most one more frame may drive, the one packed before: whatever
\* velocities the tracker goes on sending, the frames stand until a takeoff.
StopOnBus == ~live /\ sent = 2 => Stands

\* No frame brakes and drives: the fields of a command are those of one request.
BrakeOrDrive == OnBus("brake_en") = {0} => Stands

\* The command to park reaches the bus unless another command replaces it.
StopReachesBus ==
  (cmd.target_gear = P) ~> (OnBus("target_gear") = Bits(P) \/ cmd.target_gear # P)

=============================================================================
