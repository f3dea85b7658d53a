------------------------------- MODULE Gimbal -------------------------------
(***************************************************************************)
(* The gimbal service of features/control/gimbal_bridge.hpp.  Its handler  *)
(* runs in the threads of several callers (the engine's SetGimbalEvent and *)
(* any other node), one at a time under mutex_: it takes control of the    *)
(* gimbal, sets its mode unless it believes it set, sends the pitch and    *)
(* gives the control back.  Each call of the gimbal blocks and may fail.   *)
(* The diagnostic telemetry of the gimbal is only logged and left out, and *)
(* a bridge disabled because the service exists already gets no call.      *)
(***************************************************************************)
EXTENDS Integers

CONSTANTS
  Callers,
  MountModes,   \* "body" and "abs"
  OtherModes,   \* modes no caller should ask for
  Angles,       \* positive is downwards
  PitchMin, PitchMax  \* limits of the gimbal, negative is downwards

ASSUME GimbalAssumption ==
  /\ MountModes # {} /\ MountModes \cap OtherModes = {}
  /\ Angles \subseteq Int /\ 0 \in Angles
  /\ PitchMin \in Int /\ PitchMax \in Int /\ PitchMin <= PitchMax

VARIABLES
  stage,    \* where each caller's handler is
  wanted,   \* its request: mode and angle
  reply,    \* whether its response says success
  taken,    \* control_taken_
  lastMode, \* {} or the last_dji_mode_
  params,   \* {} or the parameters angle_mode and gimbal_angle, which GetGimbalEvent reads
  acked     \* {} or the last pitch that the gimbal acknowledged (external)

gimbalVars == <<stage, wanted, reply, taken, lastMode, params, acked>>

GimbalRequests == [mode : MountModes, angle : Angles]
Stages == {"idle", "waiting", "control", "targeted", "mode", "pitch", "sent", "failed"}

GimbalTypeOK ==
  /\ stage \in [Callers -> Stages]
  /\ wanted \in [Callers -> GimbalRequests]
  /\ reply \in [Callers -> {"none", "OK", "refused"}]
  /\ taken \in BOOLEAN
  /\ lastMode \in SUBSET MountModes
  /\ params \in SUBSET GimbalRequests
  /\ acked \in SUBSET Int

GimbalInit ==
  /\ stage = [c \in Callers |-> "idle"]
  /\ wanted = [c \in Callers |-> [mode |-> CHOOSE m \in MountModes : TRUE, angle |-> 0]]
  /\ reply = [c \in Callers |-> "none"]
  /\ taken = FALSE /\ lastMode = {} /\ params = {} /\ acked = {}

\* The handlers that hold mutex_.
Inside == {c \in Callers : stage[c] \notin {"idle", "waiting"}}

Move(c, s) == stage' = [stage EXCEPT ![c] = s]
Return(c, message) == Move(c, "idle") /\ reply' = [reply EXCEPT ![c] = message]

\* The sign turns between the service and the gimbal, and the gimbal's limits apply.
PitchOf(angle) ==
  IF -angle < PitchMin THEN PitchMin ELSE IF -angle > PitchMax THEN PitchMax ELSE -angle

-----------------------------------------------------------------------------
\* A mode the service does not know is refused before the lock is asked for.
RequestAngle(c) ==
  /\ stage[c] = "idle"
  /\ \/ /\ \E m \in MountModes, a \in Angles :
             wanted' = [wanted EXCEPT ![c] = [mode |-> m, angle |-> a]]
        /\ Move(c, "waiting") /\ reply' = [reply EXCEPT ![c] = "none"]
     \/ OtherModes # {} /\ Return(c, "refused") /\ UNCHANGED wanted
  /\ UNCHANGED <<taken, lastMode, params, acked>>

LockBridge(c) ==
  /\ stage[c] = "waiting" /\ Inside = {}
  /\ Move(c, "control")
  /\ UNCHANGED <<wanted, reply, taken, lastMode, params, acked>>

\* ensure_control: the broadcast id first, then gimbal 1; nothing is asked when the bridge
\* still holds the control.
TakeControl(c) ==
  /\ stage[c] = "control"
  /\ \/ Move(c, "mode") /\ taken' = TRUE
     \/ ~taken /\ Move(c, "targeted") /\ UNCHANGED taken
  /\ UNCHANGED <<wanted, reply, lastMode, params, acked>>

TakeTargeted(c) ==
  /\ stage[c] = "targeted"
  /\ \/ Move(c, "mode") /\ taken' = TRUE /\ UNCHANGED reply
     \/ Return(c, "refused") /\ UNCHANGED taken
  /\ UNCHANGED <<wanted, lastMode, params, acked>>

\* apply_dji_mode: a refusal leaves the handler without giving the control back.
ApplyMode(c) ==
  /\ stage[c] = "mode"
  /\ \/ Move(c, "pitch") /\ lastMode' = {wanted[c].mode} /\ UNCHANGED reply
     \/ /\ wanted[c].mode \notin lastMode
        /\ Return(c, "refused") /\ UNCHANGED lastMode
  /\ UNCHANGED <<wanted, taken, params, acked>>

SendPitch(c) ==
  /\ stage[c] = "pitch"
  /\ \/ Move(c, "sent") /\ acked' = {PitchOf(wanted[c].angle)}
     \/ Move(c, "failed") /\ UNCHANGED acked
  /\ UNCHANGED <<wanted, reply, taken, lastMode, params>>

\* release_control, whatever its result; the parameters keep the angle as it was asked for.
ReleaseControl(c) ==
  /\ taken' = FALSE
  /\ \/ stage[c] = "sent" /\ Return(c, "OK") /\ params' = {wanted[c]}
     \/ stage[c] = "failed" /\ Return(c, "refused") /\ UNCHANGED params
  /\ UNCHANGED <<wanted, lastMode, acked>>

GimbalNext ==
  \E c \in Callers :
    \/ RequestAngle(c) \/ LockBridge(c) \/ TakeControl(c) \/ TakeTargeted(c)
    \/ ApplyMode(c) \/ SendPitch(c) \/ ReleaseControl(c)

GimbalSpec == GimbalInit /\ [][GimbalNext]_gimbalVars

-----------------------------------------------------------------------------
(* Properties.                                                             *)

\* Whenever no handler holds the bridge, the parameters that GetGimbalEvent reads name the
\* last pitch the gimbal acknowledged, however the calls of several nodes overlap and
\* whichever of their commands failed.
ShownAngle == Inside = {} => acked = {PitchOf(r.angle) : r \in params}

\* No pitch is sent without control of the gimbal and the mode the caller asked for.
PitchInMode ==
  \A c \in Callers : stage[c] = "pitch" => taken /\ lastMode = {wanted[c].mode}
=============================================================================
