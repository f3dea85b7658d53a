----------------------------- MODULE MavrosBridge -----------------------------
(***************************************************************************)
(* Frames of reference: telemetry in NED and FRD becomes ENU and FLU in    *)
(* the context (features/mavlink/feature.hpp), the mavros bridge publishes *)
(* it (features/control/mavros_bridge.hpp), and setpoints in ENU and FLU   *)
(* go back to the autopilot (the bridge and MavsdkDrone).                  *)
(*                                                                         *)
(* Angles are quarter turns, clockwise from north in NED and the other way *)
(* from east in ENU; vectors are triples of integers; roll and pitch are   *)
(* zero.  The reference is the geometry: what a vector in the vehicle's    *)
(* frame means in the world, given its heading (Turned).                   *)
(*                                                                         *)
(* Operators named XBut... are faulty variants of X.                       *)
(***************************************************************************)
EXTENDS Integers

CONSTANTS
  Vectors,    \* velocities and positions
  Yaws,       \* quarter turns in a setpoint
  Rates       \* yaw rates

ASSUME BridgeAssumption ==
  Vectors \subseteq Int \X Int \X Int /\ Yaws \subseteq Int /\ Rates \subseteq Int

VARIABLES
  heading,    \* the vehicle's heading, in NED (environment)
  yawNed,     \* ctx.yaw_ned
  yawEnu,     \* ctx.orientation and ctx.yaw_enu
  velEnu,     \* ctx.vel_enu
  velBody,    \* ctx.vel_body, which the clients are told of and nothing else reads
  odom,       \* the odometry published last, with the velocity it stems from
  wish,       \* the setpoint or velocity command handled last
  sent,       \* what went to the autopilot for it
  stopping    \* stopping_ of the bridge

bridgeVars == <<heading, yawNed, yawEnu, velEnu, velBody, odom, wish, sent, stopping>>

Quarters == 0 .. 3
Nothing == [frame |-> "none"]

BridgeInit ==
  /\ heading \in Quarters /\ yawNed = heading /\ yawEnu = (1 - heading) % 4
  /\ velEnu = <<0, 0, 0>> /\ velBody = <<0, 0, 0>>
  /\ odom = Nothing /\ wish = Nothing /\ sent = Nothing
  /\ stopping = FALSE

-----------------------------------------------------------------------------
(* The geometry.                                                           *)

Cos(k) == CASE k % 4 = 0 -> 1 [] k % 4 = 2 -> -1 [] OTHER -> 0
Sin(k) == CASE k % 4 = 1 -> 1 [] k % 4 = 3 -> -1 [] OTHER -> 0

\* v turned about its third axis.  In FLU and ENU, as in FRD and NED, a vehicle with yaw k
\* that moves with v moves with this in the world.
Turned(v, k) == <<Cos(k) * v[1] - Sin(k) * v[2], Sin(k) * v[1] + Cos(k) * v[2], v[3]>>

\* The same vector, east and north exchanged and down for up: ENU of NED and back.
Swapped(v) == <<v[2], v[1], -v[3]>>

-----------------------------------------------------------------------------
(* Telemetry.                                                              *)

Turns ==
  /\ heading' \in {(heading + 1) % 4}
  /\ UNCHANGED <<yawNed, yawEnu, velEnu, velBody, odom, wish, sent, stopping>>

OnAttitude ==
  /\ yawNed' = heading /\ yawEnu' = (1 - heading) % 4
  /\ UNCHANGED <<heading, velEnu, velBody, odom, wish, sent, stopping>>

\* vel_body is the NED velocity turned back by the orientation, which is that of FLU in
\* ENU: facing and going north, the vehicle seems to go to its right.
OnVelocity(ned) ==
  /\ velEnu' = Swapped(ned)
  /\ velBody' = Turned(ned, -yawEnu)
  /\ UNCHANGED <<heading, yawNed, yawEnu, odom, wish, sent, stopping>>

-----------------------------------------------------------------------------
(* The bridge.                                                             *)

\* The orientation is read first, and the velocity turned by its inverse.
PublishOdom ==
  /\ ~stopping
  /\ odom' = [frame |-> "odom", yaw |-> yawEnu, twist |-> Turned(velEnu, -yawEnu),
              of |-> velEnu]
  /\ UNCHANGED <<heading, yawNed, yawEnu, velEnu, velBody, wish, sent, stopping>>

\* normalize_yaw, into half a turn to either side.
NormalizeYaw(y) == IF y \in -2 .. 2 THEN y ELSE ((y + 1) % 4) - 1

FlippedButUp(v) == <<v[1], -v[2], v[3]>>
Flipped(v) == <<v[1], -v[2], -v[3]>>

\* The yaw sent: where the setpoint's is to be ignored, the present one.
YawFor(s) ==
  IF s.ignoreYaw THEN yawNed
  ELSE IF s.frame = "local" THEN NormalizeYaw(1 - s.yaw) ELSE NormalizeYaw(-s.yaw)

\* MavlinkPassthrough takes the message as it is.
Send(s) == sent' = s

SetpointCallback(s) ==
  /\ ~stopping
  /\ wish' = s
  /\ IF s.frame \in {"local", "body"}
     THEN Send([s EXCEPT !.pos = IF s.frame = "local" THEN Swapped(s.pos) ELSE Flipped(s.pos),
                         !.vel = IF s.frame = "local" THEN Swapped(s.vel) ELSE Flipped(s.vel),
                         !.yaw = YawFor(s), !.rate = -s.rate])
     ELSE sent' = Nothing
  /\ UNCHANGED <<heading, yawNed, yawEnu, velEnu, velBody, odom, stopping>>

\* cmd_vel of MavsdkDrone: body velocity and yaw rate, nothing else.
CmdVel(v, rate) ==
  /\ wish' = [frame |-> "body", pos |-> <<0, 0, 0>>, vel |-> v, yaw |-> 0, rate |-> rate,
              ignoreYaw |-> TRUE]
  /\ Send([frame |-> "body", pos |-> <<0, 0, 0>>, vel |-> Flipped(v), yaw |-> 0,
           rate |-> -rate, ignoreYaw |-> TRUE])
  /\ UNCHANGED <<heading, yawNed, yawEnu, velEnu, velBody, odom, stopping>>

Destroy ==
  /\ stopping' = TRUE
  /\ UNCHANGED <<heading, yawNed, yawEnu, velEnu, velBody, odom, wish, sent>>

Setpoints ==
  [frame : {"local", "body", "other"}, pos : Vectors, vel : Vectors, yaw : Yaws,
   rate : Rates, ignoreYaw : BOOLEAN]

BridgeNext ==
  \/ Turns \/ OnAttitude \/ (\E v \in Vectors : OnVelocity(v))
  \/ PublishOdom \/ Destroy
  \/ \E s \in Setpoints : SetpointCallback(s)
  \/ \E v \in Vectors, rate \in Rates : CmdVel(v, rate)

BridgeSpec == BridgeInit /\ [][BridgeNext]_bridgeVars

-----------------------------------------------------------------------------
(* Property.                                                               *)

\* Whatever the heading n of the vehicle, vector v as sent is vector w as wished.
SameVector(v, w, n) ==
  IF wish.frame = "local" THEN v = Swapped(w)
  ELSE Turned(v, n) = Swapped(Turned(w, 1 - n))

\* The yaw sent points where the yaw wished does: both from the same zero and with the
\* opposite sense, and in a body frame relative to the same heading.
SameYaw(n) ==
  LET ned == IF sent.frame = "local" THEN sent.yaw ELSE n + sent.yaw
      enu == IF wish.frame = "local" THEN wish.yaw ELSE (1 - n) + wish.yaw
  IN  ned % 4 = (1 - enu) % 4

SetpointKept ==
  sent # Nothing =>
    /\ \A n \in Quarters :
         /\ SameVector(sent.pos, wish.pos, n) /\ SameVector(sent.vel, wish.vel, n)
         /\ sent.ignoreYaw \/ SameYaw(n)
    /\ sent.rate = -wish.rate

OdomKept == odom # Nothing => Turned(odom.twist, odom.yaw) = odom.of

\* What ROS is told of the motion, and what the autopilot is told to do for ROS, is the
\* same motion in the world, in either frame and for every heading, although signs and
\* axes change on the way.  (It says nothing of vel_body, which does not go through the
\* bridge.)
MotionKept == SetpointKept /\ OdomKept
=============================================================================
