---------------------------- MODULE BridgeProofs ----------------------------
(***************************************************************************)
(* What the two bridges to ROS promise: frames and signs for any vector,   *)
(* yaw and heading, and the gimbal service for any callers, modes, angles  *)
(* and limits.                                                             *)
(***************************************************************************)
EXTENDS MavrosBridge, Gimbal, TLAPS

-----------------------------------------------------------------------------
(* Frames of reference.                                                    *)

Vector == Int \X Int \X Int

\* Cosine and sine of a quarter turn, without cases.
LEMMA CosSin ==
  ASSUME NEW k \in Int
  PROVE  /\ k % 4 = 0 => Cos(k) = 1 /\ Sin(k) = 0
         /\ k % 4 = 1 => Cos(k) = 0 /\ Sin(k) = 1
         /\ k % 4 = 2 => Cos(k) = -1 /\ Sin(k) = 0
         /\ k % 4 = 3 => Cos(k) = 0 /\ Sin(k) = -1
         /\ k % 4 \in {0, 1, 2, 3}
<1>1. k % 4 \in {0, 1, 2, 3}
  OBVIOUS
<1>2. ASSUME k % 4 = 0 PROVE Cos(k) = 1 /\ Sin(k) = 0
  BY <1>2 DEF Cos, Sin
<1>3. ASSUME k % 4 = 1 PROVE Cos(k) = 0 /\ Sin(k) = 1
  BY <1>3 DEF Cos, Sin
<1>4. ASSUME k % 4 = 2 PROVE Cos(k) = -1 /\ Sin(k) = 0
  BY <1>4 DEF Cos, Sin
<1>5. ASSUME k % 4 = 3 PROVE Cos(k) = 0 /\ Sin(k) = -1
  BY <1>5 DEF Cos, Sin
<1> QED
  BY <1>1, <1>2, <1>3, <1>4, <1>5

\* A vector turned back and forth is the same.
LEMMA TurnedBack ==
  ASSUME NEW v \in Vector, NEW k \in Int
  PROVE  Turned(Turned(v, -k), k) = v
<1>1. \/ Cos(k) = 1 /\ Sin(k) = 0 /\ Cos(-k) = 1 /\ Sin(-k) = 0
      \/ Cos(k) = 0 /\ Sin(k) = 1 /\ Cos(-k) = 0 /\ Sin(-k) = -1
      \/ Cos(k) = -1 /\ Sin(k) = 0 /\ Cos(-k) = -1 /\ Sin(-k) = 0
      \/ Cos(k) = 0 /\ Sin(k) = -1 /\ Cos(-k) = 0 /\ Sin(-k) = 1
  <2>1. (-k) % 4 = (4 - (k % 4)) % 4
    BY SMT
  <2> QED
    BY <2>1, CosSin
<1>2. v[1] \in Int /\ v[2] \in Int /\ v = <<v[1], v[2], v[3]>>
  BY DEF Vector
<1> QED
  BY <1>1, <1>2 DEF Turned

\* A vector of the body means the same in the world whether its axes are first exchanged
\* and then turned with the heading, or turned with the yaw and then exchanged.
LEMMA FlippedIsSwapped ==
  ASSUME NEW v \in Vector, NEW n \in Int
  PROVE  Turned(Flipped(v), n) = Swapped(Turned(v, 1 - n))
<1>1. \/ Cos(n) = 1 /\ Sin(n) = 0 /\ Cos(1 - n) = 0 /\ Sin(1 - n) = 1
      \/ Cos(n) = 0 /\ Sin(n) = 1 /\ Cos(1 - n) = 1 /\ Sin(1 - n) = 0
      \/ Cos(n) = -1 /\ Sin(n) = 0 /\ Cos(1 - n) = 0 /\ Sin(1 - n) = -1
      \/ Cos(n) = 0 /\ Sin(n) = -1 /\ Cos(1 - n) = -1 /\ Sin(1 - n) = 0
  <2>1. (1 - n) % 4 = (5 - (n % 4)) % 4
    BY SMT
  <2> QED
    BY <2>1, CosSin
<1>2. v[1] \in Int /\ v[2] \in Int /\ v[3] \in Int
  BY DEF Vector
<1> QED
  BY <1>1, <1>2 DEF Turned, Flipped, Swapped

\* Normalizing a yaw changes it by whole turns.
LEMMA NormalizeTurns ==
  ASSUME NEW y \in Int
  PROVE  NormalizeYaw(y) \in Int /\ NormalizeYaw(y) % 4 = y % 4
  BY DEF NormalizeYaw

\* The inductive invariant: what was kept stays kept, and the context holds vectors and
\* quarter turns.
BridgeInv ==
  /\ heading \in Int /\ yawEnu \in Int
  /\ velEnu \in Vector
  /\ MotionKept

\* Setpoint and velocity command mean the same after the bridge as before.
LEMMA SetpointStep ==
  ASSUME NEW s \in Setpoints, SetpointCallback(s)
  PROVE  SetpointKept'
<1>1. /\ s.frame \in {"local", "body", "other"} /\ s.pos \in Vector /\ s.vel \in Vector
      /\ s.yaw \in Int /\ s.rate \in Int /\ s.ignoreYaw \in BOOLEAN
  BY BridgeAssumption DEF Setpoints, Vector
<1>2. CASE s.frame = "local"
  <2>1. /\ sent'.frame = "local" /\ wish' = s
        /\ sent'.pos = Swapped(s.pos) /\ sent'.vel = Swapped(s.vel)
        /\ sent'.yaw = YawFor(s) /\ sent'.rate = -s.rate /\ sent'.ignoreYaw = s.ignoreYaw
    BY <1>2 DEF SetpointCallback, Send, Setpoints
  <2>2. ASSUME ~s.ignoreYaw
        PROVE  sent'.yaw % 4 = (1 - s.yaw) % 4
    BY <1>1, <1>2, <2>1, <2>2, NormalizeTurns DEF YawFor
  <2> QED
    BY <1>1, <1>2, <2>1, <2>2 DEF SetpointKept, SameVector, SameYaw
<1>3. CASE s.frame = "body"
  <2>1. /\ sent'.frame = "body" /\ wish' = s
        /\ sent'.pos = Flipped(s.pos) /\ sent'.vel = Flipped(s.vel)
        /\ sent'.yaw = YawFor(s) /\ sent'.rate = -s.rate /\ sent'.ignoreYaw = s.ignoreYaw
    BY <1>3 DEF SetpointCallback, Send, Setpoints
  <2>2. ASSUME NEW n \in Quarters
        PROVE  /\ Turned(sent'.pos, n) = Swapped(Turned(s.pos, 1 - n))
               /\ Turned(sent'.vel, n) = Swapped(Turned(s.vel, 1 - n))
    BY <1>1, <2>1, FlippedIsSwapped DEF Quarters
  <2>3. ASSUME NEW n \in Quarters, ~s.ignoreYaw
        PROVE  (n + sent'.yaw) % 4 = (1 - ((1 - n) + s.yaw)) % 4
    <3>1. sent'.yaw \in Int /\ sent'.yaw % 4 = (-s.yaw) % 4
      BY <1>1, <1>3, <2>1, <2>3, NormalizeTurns DEF YawFor
    <3>2. \A a, b \in Int : a % 4 = b % 4 => (n + a) % 4 = (n + b) % 4
      BY SMT DEF Quarters
    <3>3. (n + sent'.yaw) % 4 = (n + -s.yaw) % 4 /\ n \in Int
      BY <1>1, <3>1, <3>2 DEF Quarters
    <3>4. n + -s.yaw = 1 - ((1 - n) + s.yaw)
      BY <1>1, <3>3
    <3> QED
      BY <3>3, <3>4
  <2> QED
    BY <1>1, <1>3, <2>1, <2>2, <2>3 DEF SetpointKept, SameVector, SameYaw
<1>4. CASE s.frame = "other"
  BY <1>4 DEF SetpointCallback, Send, SetpointKept
<1> QED
  BY <1>1, <1>2, <1>3, <1>4

\* See SetpointStep.
LEMMA CmdVelStep ==
  ASSUME NEW v \in Vectors, NEW rate \in Rates, CmdVel(v, rate)
  PROVE  SetpointKept'
<1>1. v \in Vector /\ <<0, 0, 0>> \in Vector
  BY BridgeAssumption DEF Vector
<1>2. /\ wish'.frame = "body" /\ wish'.pos = <<0, 0, 0>> /\ wish'.vel = v
      /\ sent'.pos = <<0, 0, 0>> /\ sent'.vel = Flipped(v) /\ sent'.ignoreYaw
      /\ sent'.rate = -wish'.rate
  BY DEF CmdVel, Send
<1>3. ASSUME NEW n \in Quarters
      PROVE  /\ Turned(Flipped(<<0, 0, 0>>), n) = Swapped(Turned(<<0, 0, 0>>, 1 - n))
             /\ Turned(Flipped(v), n) = Swapped(Turned(v, 1 - n))
  BY <1>1, FlippedIsSwapped DEF Quarters
<1>4. Flipped(<<0, 0, 0>>) = <<0, 0, 0>>
  <2>1. \A o \in Int : o <= 0 /\ o >= 0 => -o = o
    BY SMT
  <2>2. ASSUME NEW w \in Vector, \A i \in 1 .. 3 : w[i] <= 0 /\ w[i] >= 0
        PROVE  Flipped(w) = w
    BY <2>1, <2>2 DEF Flipped, Vector
  <2> QED
    BY <1>1, <2>2
<1> QED
  BY <1>2, <1>3, <1>4 DEF SetpointKept, SameVector

\* What ROS is told of the motion, and what the autopilot is told to do for ROS, is the
\* same motion in the world: for all velocities, positions, yaws, rates and headings.
THEOREM MotionIsKept == BridgeSpec => []MotionKept
<1>1. BridgeInit => BridgeInv
  BY DEF BridgeInit, BridgeInv, MotionKept, SetpointKept, OdomKept, Quarters, Vector
<1>2. BridgeInv /\ [BridgeNext]_bridgeVars => BridgeInv'
  <2> SUFFICES ASSUME BridgeInv, [BridgeNext]_bridgeVars PROVE BridgeInv'
    OBVIOUS
  <2> USE DEF BridgeInv, MotionKept
  <2>1. ASSUME UNCHANGED <<wish, sent>> PROVE SetpointKept'
    BY <2>1 DEF SetpointKept, SameVector, SameYaw
  <2>2. ASSUME UNCHANGED odom PROVE OdomKept'
    BY <2>2 DEF OdomKept
  <2>3. CASE Turns \/ Destroy \/ UNCHANGED bridgeVars
    BY <2>1, <2>2, <2>3 DEF Turns, Destroy, bridgeVars
  <2>4. CASE OnAttitude
    <3>1. yawEnu' \in Int
      BY <2>4 DEF OnAttitude
    <3> QED
      BY <2>1, <2>2, <2>4, <3>1 DEF OnAttitude
  <2>5. ASSUME NEW v \in Vectors, OnVelocity(v) PROVE BridgeInv'
    <3>1. Swapped(v) \in Vector
      BY BridgeAssumption DEF Swapped, Vector
    <3> QED
      BY <2>1, <2>2, <2>5, <3>1 DEF OnVelocity
  <2>6. CASE PublishOdom
    <3>1. OdomKept'
      BY <2>6, TurnedBack DEF PublishOdom, OdomKept
    <3> QED
      BY <2>1, <2>6, <3>1 DEF PublishOdom
  <2>7. ASSUME NEW s \in Setpoints, SetpointCallback(s) PROVE BridgeInv'
    BY <2>2, <2>7, SetpointStep DEF SetpointCallback, Send
  <2>8. ASSUME NEW v \in Vectors, NEW rate \in Rates, CmdVel(v, rate) PROVE BridgeInv'
    BY <2>2, <2>8, CmdVelStep DEF CmdVel, Send
  <2> QED
    BY <2>3, <2>4, <2>5, <2>6, <2>7, <2>8 DEF BridgeNext
<1>3. BridgeInv => MotionKept
  BY DEF BridgeInv
<1> QED
  BY <1>1, <1>2, <1>3, PTL DEF BridgeSpec

-----------------------------------------------------------------------------
(* The gimbal.                                                             *)

\* mutex_: two handlers never run past the lock together.
OneInside == \A c, d \in Inside : c = d

\* Between the acknowledgement of a pitch and the parameters' update the handler that sent
\* it stands in between; else the two agree.
ShownOrSent ==
  /\ \A c \in Callers : stage[c] = "sent" => acked = {PitchOf(wanted[c].angle)}
  /\ (\A c \in Callers : stage[c] # "sent") => acked = {PitchOf(r.angle) : r \in params}

\* From the mode command on the bridge holds the control.
ControlTaken == \A c \in Callers : stage[c] \in {"mode", "pitch"} => taken

\* The part of the type invariant that the other conjuncts need.
Typed == stage \in [Callers -> Stages] /\ wanted \in [Callers -> GimbalRequests]

\* The inductive invariant.
GimbalInv == Typed /\ OneInside /\ ShownOrSent /\ ControlTaken /\ PitchInMode

\* The functions keep their types in every step.
LEMMA TypedStep == Typed /\ [GimbalNext]_gimbalVars => Typed'
<1> SUFFICES ASSUME Typed, [GimbalNext]_gimbalVars PROVE Typed'
  OBVIOUS
<1> USE DEF Typed, Stages
<1>1. CASE UNCHANGED gimbalVars
  BY <1>1 DEF gimbalVars
<1>2. ASSUME NEW c \in Callers, RequestAngle(c) PROVE Typed'
  <2>1. wanted' \in [Callers -> GimbalRequests]
    <3>1. CASE UNCHANGED wanted
      BY <3>1
    <3>2. CASE \E m \in MountModes, a \in Angles :
                 wanted' = [wanted EXCEPT ![c] = [mode |-> m, angle |-> a]]
      <4>1. PICK m \in MountModes : \E a \in Angles :
                 wanted' = [wanted EXCEPT ![c] = [mode |-> m, angle |-> a]]
        BY <3>2
      <4>2. PICK a \in Angles : wanted' = [wanted EXCEPT ![c] = [mode |-> m, angle |-> a]]
        BY <4>1
      <4>3. [mode |-> m, angle |-> a] \in GimbalRequests
        BY DEF GimbalRequests
      <4> QED BY <4>2, <4>3
    <3> QED BY <1>2, <3>1, <3>2 DEF RequestAngle
  <2>2. stage' \in [Callers -> Stages]
    BY <1>2 DEF RequestAngle, Move, Return
  <2> QED BY <2>1, <2>2
<1>3. ASSUME NEW c \in Callers, LockBridge(c) PROVE Typed'
  BY <1>3 DEF LockBridge, Move
<1>4. ASSUME NEW c \in Callers, TakeControl(c) PROVE Typed'
  BY <1>4 DEF TakeControl, Move
<1>5. ASSUME NEW c \in Callers, TakeTargeted(c) PROVE Typed'
  BY <1>5 DEF TakeTargeted, Move, Return
<1>6. ASSUME NEW c \in Callers, ApplyMode(c) PROVE Typed'
  BY <1>6 DEF ApplyMode, Move, Return
<1>7. ASSUME NEW c \in Callers, SendPitch(c) PROVE Typed'
  BY <1>7 DEF SendPitch, Move
<1>8. ASSUME NEW c \in Callers, ReleaseControl(c) PROVE Typed'
  BY <1>8 DEF ReleaseControl, Move, Return
<1> QED BY <1>1, <1>2, <1>3, <1>4, <1>5, <1>6, <1>7, <1>8 DEF GimbalNext

\* Only a handler at the lock enters, and only while nobody is inside.
LEMMA OneInsideStep == Typed /\ OneInside /\ [GimbalNext]_gimbalVars => OneInside'
<1> SUFFICES ASSUME Typed, OneInside, [GimbalNext]_gimbalVars PROVE OneInside'
  OBVIOUS
<1> USE DEF Typed, OneInside, Inside, Stages
<1>1. CASE UNCHANGED gimbalVars
  BY <1>1 DEF gimbalVars
<1>2. ASSUME NEW c \in Callers, RequestAngle(c) PROVE OneInside'
  BY <1>2 DEF RequestAngle, Move, Return
<1>3. ASSUME NEW c \in Callers, LockBridge(c) PROVE OneInside'
  BY <1>3 DEF LockBridge, Move
<1>4. ASSUME NEW c \in Callers, TakeControl(c) PROVE OneInside'
  BY <1>4 DEF TakeControl, Move
<1>5. ASSUME NEW c \in Callers, TakeTargeted(c) PROVE OneInside'
  BY <1>5 DEF TakeTargeted, Move, Return
<1>6. ASSUME NEW c \in Callers, ApplyMode(c) PROVE OneInside'
  BY <1>6 DEF ApplyMode, Move, Return
<1>7. ASSUME NEW c \in Callers, SendPitch(c) PROVE OneInside'
  BY <1>7 DEF SendPitch, Move
<1>8. ASSUME NEW c \in Callers, ReleaseControl(c) PROVE OneInside'
  BY <1>8 DEF ReleaseControl, Move, Return
<1> QED BY <1>1, <1>2, <1>3, <1>4, <1>5, <1>6, <1>7, <1>8 DEF GimbalNext

\* The handler that sent a pitch is alone until the parameters are written.
LEMMA ShownStep == Typed /\ OneInside /\ ShownOrSent /\ [GimbalNext]_gimbalVars => ShownOrSent'
<1> SUFFICES ASSUME Typed, OneInside, ShownOrSent, [GimbalNext]_gimbalVars PROVE ShownOrSent'
  OBVIOUS
<1> USE DEF Typed, ShownOrSent, Stages
<1>1. CASE UNCHANGED gimbalVars
  BY <1>1 DEF gimbalVars
<1>2. ASSUME NEW c \in Callers, RequestAngle(c) PROVE ShownOrSent'
  BY <1>2 DEF RequestAngle, Move, Return
<1>3. ASSUME NEW c \in Callers, LockBridge(c) PROVE ShownOrSent'
  BY <1>3 DEF LockBridge, Move
<1>4. ASSUME NEW c \in Callers, TakeControl(c) PROVE ShownOrSent'
  BY <1>4 DEF TakeControl, Move
<1>5. ASSUME NEW c \in Callers, TakeTargeted(c) PROVE ShownOrSent'
  BY <1>5 DEF TakeTargeted, Move, Return
<1>6. ASSUME NEW c \in Callers, ApplyMode(c) PROVE ShownOrSent'
  BY <1>6 DEF ApplyMode, Move, Return
<1>7. ASSUME NEW c \in Callers, SendPitch(c) PROVE ShownOrSent'
  <2>1. \A d \in Callers : stage[d] # "sent"
    BY <1>7 DEF SendPitch, OneInside, Inside
  <2>2. CASE Move(c, "sent") /\ acked' = {PitchOf(wanted[c].angle)}
    BY <1>7, <2>1, <2>2 DEF SendPitch, Move
  <2>3. CASE Move(c, "failed") /\ UNCHANGED acked
    BY <1>7, <2>1, <2>3 DEF SendPitch, Move
  <2> QED BY <1>7, <2>2, <2>3 DEF SendPitch
<1>8. ASSUME NEW c \in Callers, ReleaseControl(c) PROVE ShownOrSent'
  <2>1. \A d \in Callers : d # c => stage[d] # "sent"
    BY <1>8 DEF ReleaseControl, OneInside, Inside
  <2>2. \A d \in Callers : stage'[d] # "sent"
    BY <1>8, <2>1 DEF ReleaseControl, Return, Move
  <2>3. CASE stage[c] = "sent" /\ params' = {wanted[c]}
    <3>1. {PitchOf(r.angle) : r \in params'} = {PitchOf(wanted[c].angle)}
      BY <2>3
    <3> QED BY <1>8, <2>2, <2>3, <3>1 DEF ReleaseControl
  <2>4. CASE stage[c] = "failed" /\ UNCHANGED params
    <3>1. \A d \in Callers : stage[d] # "sent"
      BY <2>1, <2>4
    <3> QED BY <1>8, <2>2, <2>4, <3>1 DEF ReleaseControl
  <2> QED BY <1>8, <2>3, <2>4 DEF ReleaseControl
<1> QED BY <1>1, <1>2, <1>3, <1>4, <1>5, <1>6, <1>7, <1>8 DEF GimbalNext

\* Nobody gives the control back or sets another mode while a handler is at its pitch.
LEMMA PitchStep ==
  Typed /\ OneInside /\ ControlTaken /\ PitchInMode /\ [GimbalNext]_gimbalVars
  => ControlTaken' /\ PitchInMode'
<1> SUFFICES ASSUME Typed, OneInside, ControlTaken, PitchInMode, [GimbalNext]_gimbalVars
             PROVE ControlTaken' /\ PitchInMode'
  OBVIOUS
<1> USE DEF Typed, ControlTaken, PitchInMode, Stages
<1>1. CASE UNCHANGED gimbalVars
  BY <1>1 DEF gimbalVars
<1>2. ASSUME NEW c \in Callers, RequestAngle(c) PROVE ControlTaken' /\ PitchInMode'
  BY <1>2 DEF RequestAngle, Move, Return
<1>3. ASSUME NEW c \in Callers, LockBridge(c) PROVE ControlTaken' /\ PitchInMode'
  BY <1>3 DEF LockBridge, Move
<1>4. ASSUME NEW c \in Callers, TakeControl(c) PROVE ControlTaken' /\ PitchInMode'
  <2>1. CASE Move(c, "mode") /\ taken' = TRUE
    <3>1. \A d \in Callers : stage'[d] = "pitch" => stage[d] = "pitch"
      BY <2>1 DEF Move
    <3> QED BY <1>4, <2>1, <3>1 DEF TakeControl
  <2>2. CASE Move(c, "targeted") /\ UNCHANGED taken
    <3>1. \A d \in Callers : /\ stage'[d] = "pitch" => stage[d] = "pitch"
                             /\ stage'[d] = "mode" => stage[d] = "mode"
      BY <2>2 DEF Move
    <3> QED BY <1>4, <2>2, <3>1 DEF TakeControl
  <2> QED BY <1>4, <2>1, <2>2 DEF TakeControl
<1>5. ASSUME NEW c \in Callers, TakeTargeted(c) PROVE ControlTaken' /\ PitchInMode'
  <2>1. CASE Move(c, "mode") /\ taken' = TRUE
    <3>1. \A d \in Callers : stage'[d] = "pitch" => stage[d] = "pitch"
      BY <2>1 DEF Move
    <3> QED BY <1>5, <2>1, <3>1 DEF TakeTargeted
  <2>2. CASE Move(c, "idle") /\ UNCHANGED taken
    <3>1. \A d \in Callers : /\ stage'[d] = "pitch" => stage[d] = "pitch"
                             /\ stage'[d] = "mode" => stage[d] = "mode"
      BY <2>2 DEF Move
    <3> QED BY <1>5, <2>2, <3>1 DEF TakeTargeted
  <2> QED BY <1>5, <2>1, <2>2 DEF TakeTargeted, Return
<1>6. ASSUME NEW c \in Callers, ApplyMode(c) PROVE ControlTaken' /\ PitchInMode'
  <2>1. \A d \in Callers : d # c => stage[d] \notin {"mode", "pitch"}
    BY <1>6 DEF ApplyMode, OneInside, Inside
  <2>2. \A d \in Callers : d # c => stage'[d] = stage[d]
    BY <1>6 DEF ApplyMode, Move, Return
  <2>3. taken /\ taken' = taken /\ wanted' = wanted
    BY <1>6 DEF ApplyMode
  <2>4. stage'[c] = "pitch" => lastMode' = {wanted[c].mode}
    BY <1>6 DEF ApplyMode, Move, Return
  <2> QED BY <2>1, <2>2, <2>3, <2>4
<1>7. ASSUME NEW c \in Callers, SendPitch(c) PROVE ControlTaken' /\ PitchInMode'
  BY <1>7 DEF SendPitch, Move
<1>8. ASSUME NEW c \in Callers, ReleaseControl(c) PROVE ControlTaken' /\ PitchInMode'
  <2>1. \A d \in Callers : d # c => stage[d] \notin {"mode", "pitch"}
    BY <1>8 DEF ReleaseControl, OneInside, Inside
  <2>2. \A d \in Callers : d # c => stage'[d] = stage[d]
    BY <1>8 DEF ReleaseControl, Move, Return
  <2>3. stage'[c] = "idle"
    BY <1>8 DEF ReleaseControl, Move, Return
  <2> QED BY <2>1, <2>2, <2>3
<1> QED BY <1>1, <1>2, <1>3, <1>4, <1>5, <1>6, <1>7, <1>8 DEF GimbalNext

\* Nobody is inside in the beginning.
LEMMA GimbalStarts == GimbalInit => GimbalInv
<1> SUFFICES ASSUME GimbalInit PROVE GimbalInv
  OBVIOUS
<1> DEFINE first == [mode |-> CHOOSE m \in MountModes : TRUE, angle |-> 0]
<1>1. stage \in [Callers -> Stages]
  BY DEF GimbalInit, Stages
<1>2. OneInside /\ ShownOrSent /\ ControlTaken /\ PitchInMode
  BY DEF GimbalInit, OneInside, Inside, ShownOrSent, ControlTaken, PitchInMode
<1>3. wanted \in [Callers -> GimbalRequests]
  <2>1. first \in GimbalRequests
    BY GimbalAssumption DEF GimbalRequests
  <2> QED BY <2>1 DEF GimbalInit
<1> QED BY <1>1, <1>2, <1>3 DEF GimbalInv, Typed

\* The invariant holds of every behaviour.
LEMMA GimbalInvariant == GimbalSpec => []GimbalInv
<1>1. GimbalInv /\ [GimbalNext]_gimbalVars => GimbalInv'
  BY TypedStep, OneInsideStep, ShownStep, PitchStep DEF GimbalInv
<1> QED BY GimbalStarts, <1>1, PTL DEF GimbalSpec

\* What GetGimbalEvent answers is the last pitch the gimbal acknowledged, whenever no
\* handler runs: mutex_ covers both the command and the parameters.
THEOREM GimbalShowsPitch == GimbalSpec => []ShownAngle
<1>1. GimbalInv => ShownAngle
  BY DEF GimbalInv, ShownOrSent, ShownAngle, Inside
<1> QED BY GimbalInvariant, <1>1, PTL

\* A pitch is sent only under control and in the mode of its own request, although the
\* mode is kept from call to call and its command left out when it is believed set.
THEOREM GimbalPitchInMode == GimbalSpec => []PitchInMode
<1>1. GimbalInv => PitchInMode
  BY DEF GimbalInv
<1> QED BY GimbalInvariant, <1>1, PTL
=============================================================================
