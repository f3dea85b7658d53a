------------------------------ MODULE Detector ------------------------------
(***************************************************************************)
(* The landing detector (features/pland/landing_detector.hpp): its thread  *)
(* takes the camera's last image and estimates where the target is, while  *)
(* the engine thread starts and stops it for two uses that share it, the   *)
(* detection of a landing and the calibration of the camera's offset.      *)
(*                                                                         *)
(* A target is at one of two places, Jump apart.  Time is counted in       *)
(* images.  What the detector finds in an image and the estimates' values  *)
(* are left out.                                                           *)
(*                                                                         *)
(* Operators named XBut... are faulty variants of X.                       *)
(***************************************************************************)
EXTENDS Integers

CONSTANTS
  Jump,        \* the distance of the two places
  TargetSpeed, \* the way a target can move between two images
  Slack,       \* allowance for errors (1 m)
  MaxGap       \* images in a second: a longer gap resets the filters

ASSUME DetectorAssumption ==
  /\ Jump \in Nat /\ Slack \in Nat /\ MaxGap \in Nat
  /\ TargetSpeed \in Nat \ {0}

VARIABLES
  detOn,      \* is_running_ of the detector
  detAt,      \* its thread: "idle", or "frame" between taking an image and the result
  image,      \* the place shown by the camera's last image, -1 before the first
  shot,       \* the place in the image being worked on
  newer,      \* images since that one
  lastSeen,   \* last_valid_enu_pos_, -1 when has_last_valid_pos_ is false
  since,      \* images since last_ekf_stamp_; Never when the stamp is 0
  estimator,  \* offset_estimator exists
  target,     \* pland_target
  found,      \* the place given to the controller last, -1 before the first
  place,      \* where the target is
  calm        \* from now on the target stays and every image shows it (environment)

detVars == <<detOn, detAt, image, shot, newer, lastSeen, since, estimator, target, found,
             place, calm>>

Places == {0, 1}
Never == MaxGap + Jump + 1
Later(n) == IF n < Never THEN n + 1 ELSE n

DetInit ==
  /\ detOn = FALSE
  /\ detAt = "idle"
  /\ image = -1 /\ shot = -1 /\ newer = 0
  /\ lastSeen = -1 /\ since = Never
  /\ estimator = FALSE
  /\ target = FALSE
  /\ found = -1
  /\ place = 0
  /\ calm = FALSE

-----------------------------------------------------------------------------
(* The camera and the target (external).                                   *)

\* pland_image and its stamp.
Camera ==
  /\ image' = place
  /\ since' = Later(since)
  /\ newer' = IF detAt = "frame" THEN Later(newer) ELSE newer
  /\ UNCHANGED <<detOn, detAt, shot, lastSeen, estimator, target, found, place, calm>>

TargetMoves ==
  /\ ~calm /\ place' \in Places
  /\ UNCHANGED <<detOn, detAt, image, shot, newer, lastSeen, since, estimator, target, found,
                 calm>>

Calms ==
  /\ calm' = TRUE
  /\ UNCHANGED <<detOn, detAt, image, shot, newer, lastSeen, since, estimator, target, found,
                 place>>

-----------------------------------------------------------------------------
(* The requests, in the engine thread.                                     *)

\* IThreadRunner::start: nothing when running, otherwise on_start resets the estimate,
\* also when the thread still works on an image of the run before.
DetStart ==
  /\ detOn' = TRUE
  /\ IF detOn THEN UNCHANGED <<lastSeen, since>> ELSE lastSeen' = -1 /\ since' = Never

StartPlandDetect ==
  /\ DetStart
  /\ UNCHANGED <<detAt, image, shot, newer, estimator, target, found, place, calm>>

StartOffsetEstimate ==
  /\ DetStart /\ estimator' = TRUE
  /\ UNCHANGED <<detAt, image, shot, newer, target, found, place, calm>>

\* Ends the detection for a landing too, and does so when no calibration was started.
StopOffsetEstimate ==
  /\ detOn' = FALSE /\ estimator' = FALSE
  /\ target' = IF detOn THEN FALSE ELSE target
  /\ UNCHANGED <<detAt, image, shot, newer, lastSeen, since, found, place, calm>>

SetTarget ==
  /\ target' = TRUE
  /\ UNCHANGED <<detOn, detAt, image, shot, newer, lastSeen, since, estimator, found, place,
                 calm>>

-----------------------------------------------------------------------------
(* on_step: update and set_target_.                                        *)

\* A new image is there; how late it is decides whether it is used.
TakeImage ==
  /\ detOn /\ detAt = "idle"
  /\ image # -1 /\ since # 0
  /\ detAt' = "frame" /\ shot' = image /\ newer' = 0
  /\ UNCHANGED <<detOn, image, lastSeen, since, estimator, target, found, place, calm>>

\* Too late, no tag, or no solution: the result is not valid.
NothingFound ==
  /\ detAt = "frame" /\ ~calm
  /\ detAt' = "idle"
  /\ UNCHANGED <<detOn, image, shot, newer, lastSeen, since, estimator, target, found, place,
                 calm>>

\* The time since the last valid image, and how far a target can have gone.
Gap == IF since = Never THEN Never ELSE since - newer
Possible == lastSeen \in {-1, shot} \/ since = Never \/ Jump <= TargetSpeed * Gap + Slack

RejectButStamped ==
  /\ detAt = "frame" /\ ~Possible
  /\ detAt' = "idle" /\ since' = newer
  /\ UNCHANGED <<detOn, image, shot, newer, lastSeen, estimator, target, found, place, calm>>

\* "Physically impossible": dropped, and the clock runs on.
Reject ==
  /\ detAt = "frame" /\ ~Possible
  /\ detAt' = "idle"
  /\ UNCHANGED <<detOn, image, shot, newer, lastSeen, since, estimator, target, found, place,
                 calm>>

Accept ==
  /\ detAt = "frame" /\ Possible
  /\ lastSeen' = shot /\ since' = newer /\ found' = shot
  /\ detAt' = "idle"
  /\ UNCHANGED <<detOn, image, shot, newer, estimator, target, place, calm>>

DetStep == TakeImage \/ NothingFound \/ Reject \/ Accept

DetNext ==
  \/ Camera \/ TargetMoves \/ Calms
  \/ StartPlandDetect \/ StartOffsetEstimate \/ StopOffsetEstimate \/ SetTarget
  \/ DetStep

-----------------------------------------------------------------------------
(* Properties.                                                             *)

\* A target that stays in view is found where it is, however far that is from what the
\* detector believed: a wrong belief, be it from an earlier run, does not lock it out.
TargetFound == calm ~> (found = place \/ ~detOn)
=============================================================================
