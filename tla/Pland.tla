-------------------------------- MODULE Pland --------------------------------
(***************************************************************************)
(* The precision landing controller (features/pland/landing_controller.hpp)*)
(* beside the thread that gives it observations and whoever starts and     *)
(* stops it through ILandingController.  In this repository its loop is    *)
(* never started: LandState hands landings to a module outside.            *)
(*                                                                         *)
(* Heights are in half metres above the platform.  A step's horizontal     *)
(* situation is "near" (within blind_drop_xy_thresh), "turned" (near, with *)
(* the heading off), "in" or "out" of the funnel; it is computed from the  *)
(* drone's present position, so every step may find another.  The heading  *)
(* and the horizontal part of the commands are left out.                   *)
(*                                                                         *)
(* Operators named XBut... are faulty variants of X.                       *)
(***************************************************************************)
EXTENDS Integers

CONSTANTS
  LandAlt,    \* pland_land_alt
  BlindAlt,   \* pland_blind_drop_alt
  LostAlt,    \* lost_target_alt
  TopAlt,     \* bound: the greatest height
  LostLimit   \* bound: steps without a target until it is lost (20 in the code)

ASSUME HeightsAssumption ==
  /\ LandAlt \in Nat /\ BlindAlt \in Nat /\ LostAlt \in Nat /\ TopAlt \in Nat
  /\ LostLimit \in Nat

VARIABLES
  plandOn,    \* is_running_ of the controller
  at,         \* the control thread: "idle", or "read" between the copy and the command
  z,          \* height above the platform
  obs,        \* latest_obs_: "none", "fresh", or "old" (a second or more)
  got,        \* the copy on_step works with
  invalid,    \* invalid_time_, no further than LostLimit + 1
  blind,      \* is_blind_drop_
  approaching,\* is_approaching_target_
  inject,     \* a pland_target that has not timed out
  vision,     \* pure_vision, which may be switched in the air
  order,      \* what the tracker, or the autopilot, was last told
  steady      \* from now on the target is near and in view (environment)

plandVars == <<plandOn, at, z, obs, got, invalid, blind, approaching, inject, vision,
               order, steady>>

Orders == {"zero", "approach", "hold", "down", "press", "recover", "climb", "land",
           "disarm"}

PlandInit ==
  /\ plandOn = FALSE
  /\ at = "idle"
  /\ z = TopAlt
  /\ obs = "none" /\ got = "none"
  /\ invalid = 0
  /\ blind = FALSE
  /\ approaching = TRUE
  /\ inject = FALSE
  /\ vision \in BOOLEAN
  /\ order = "zero"
  /\ steady = FALSE

-----------------------------------------------------------------------------
(* The callers.                                                            *)

\* start calls on_start: the blind drop, the counter and the observation stay.
PlandStart ==
  /\ ~plandOn
  /\ plandOn' = TRUE /\ approaching' = TRUE
  /\ UNCHANGED <<at, z, obs, got, invalid, blind, inject, vision, order, steady>>

\* A step that has read its observation still sends its command after this.
PlandStop ==
  /\ plandOn /\ ~steady
  /\ plandOn' = FALSE /\ order' = "zero"
  /\ UNCHANGED <<at, z, obs, got, invalid, blind, approaching, inject, vision, steady>>

\* update_observation keeps valid results only.
Observe ==
  /\ obs' = "fresh"
  /\ UNCHANGED <<plandOn, at, z, got, invalid, blind, approaching, inject, vision, order,
                 steady>>

SetPlandTarget ==
  /\ ~steady
  /\ inject' = TRUE
  /\ UNCHANGED <<plandOn, at, z, obs, got, invalid, blind, approaching, vision, order,
                 steady>>

SetPureVision ==
  /\ vision' = ~vision /\ ~steady
  /\ UNCHANGED <<plandOn, at, z, obs, got, invalid, blind, approaching, inject, order,
                 steady>>

-----------------------------------------------------------------------------
(* Time and the vehicle (external).                                        *)

Ages ==
  /\ ~steady
  /\ \/ obs = "fresh" /\ obs' = "old" /\ UNCHANGED inject
     \/ inject' = FALSE /\ UNCHANGED obs
  /\ UNCHANGED <<plandOn, at, z, got, invalid, blind, approaching, vision, order, steady>>

Down == {z - 1} \cap Nat
Up == {z + 1} \cap 0 .. TopAlt

\* The vehicle does as it was told; the wind lifts it, as long as nothing is steady.
Altitude ==
  /\ z' \in CASE order \in {"down", "press", "land", "disarm"} -> Down
              [] order = "climb" -> Up
              [] order = "recover" -> IF z < LostAlt THEN Up ELSE IF z > LostAlt THEN Down ELSE {}
              [] OTHER -> {}
  /\ UNCHANGED <<plandOn, at, obs, got, invalid, blind, approaching, inject, vision, order,
                 steady>>

Gust ==
  /\ ~steady /\ z' \in Up
  /\ UNCHANGED <<plandOn, at, obs, got, invalid, blind, approaching, inject, vision, order,
                 steady>>

Steadies ==
  /\ plandOn /\ obs = "fresh" /\ ~inject
  /\ steady' = TRUE
  /\ UNCHANGED <<plandOn, at, z, obs, got, invalid, blind, approaching, inject, vision,
                 order>>

-----------------------------------------------------------------------------
(* on_step.                                                                *)

\* The distance to the injected target: inside, in the metre of hysteresis, or outside.
Approaches(distance) ==
  approaching' = (distance = "outside" \/ (approaching /\ distance = "margin"))

\* Flying to the injected target, nothing else is looked at.
StepApproach(distance) ==
  /\ plandOn /\ at = "idle" /\ inject
  /\ Approaches(distance) /\ approaching'
  /\ order' = "approach"
  /\ UNCHANGED <<plandOn, at, z, obs, got, invalid, blind, inject, vision, steady>>

\* The observation is copied under state_mtx_ and counted.
StepRead(distance) ==
  /\ plandOn /\ at = "idle"
  /\ IF inject THEN Approaches(distance) /\ ~approaching' ELSE UNCHANGED approaching
  /\ got' = obs
  /\ invalid' = IF obs = "fresh" THEN 0
                ELSE IF invalid > LostLimit THEN invalid ELSE invalid + 1
  /\ at' = IF obs = "none" THEN "idle" ELSE "read"
  /\ UNCHANGED <<plandOn, z, obs, blind, inject, vision, order, steady>>

\* The target is lost: a blind drop goes on, anything else regains height.
StepLost ==
  /\ at = "read" /\ invalid > LostLimit
  /\ order' = IF blind THEN "press"
              ELSE IF ~vision THEN "recover"
              ELSE IF z < LostAlt THEN "climb" ELSE "hold"
  /\ at' = "idle" /\ got' = "none"
  /\ UNCHANGED <<plandOn, z, obs, invalid, blind, approaching, inject, vision, steady>>

ResetAlt == IF BlindAlt + 1 > 2 THEN BlindAlt + 1 ELSE 2

\* Below one metre pure vision does not trust the heading.
Sideways(found) == IF vision /\ z < 2 /\ found = "turned" THEN "near" ELSE found

BlindDropButNoReset(where) == blind \/ (z < BlindAlt /\ where \in {"near", "turned"})

BlindDrop(where) ==
  LET kept == blind /\ z <= ResetAlt
  IN  kept \/ (z < BlindAlt /\ where \in {"near", "turned"})

\* calculate_shared_z_descent for a vehicle that has not touched down.
DescentButOutside(where) ==
  IF blind' THEN "press" ELSE IF where = "out" THEN "down" ELSE "hold"

Descent(where) ==
  IF blind' THEN "press" ELSE IF where \in {"near", "in"} THEN "down" ELSE "hold"

\* step_global_enu or step_pure_visual, with execute_z_state_machine.
StepServo(found) ==
  /\ at = "read" /\ invalid <= LostLimit
  /\ \/ z < LandAlt /\ order' \in {"land", "disarm"} /\ UNCHANGED blind
     \/ /\ z >= LandAlt
        /\ blind' = BlindDrop(Sideways(found))
        /\ order' = Descent(Sideways(found))
  /\ at' = "idle" /\ got' = "none"
  /\ UNCHANGED <<plandOn, z, obs, invalid, approaching, inject, vision, steady>>

Distances == {"inside", "margin", "outside"}
Found == IF steady THEN {"near"} ELSE {"near", "turned", "in", "out"}

PlandStep ==
  \/ \E d \in Distances : StepApproach(d) \/ StepRead(d)
  \/ StepLost
  \/ \E f \in Found : StepServo(f)

PlandNext ==
  \/ PlandStart \/ PlandStop \/ Observe \/ SetPlandTarget \/ SetPureVision
  \/ Ages \/ Altitude \/ Gust \/ Steadies
  \/ PlandStep

PlandSpec == PlandInit /\ [][PlandNext]_plandVars

-----------------------------------------------------------------------------
(* Properties.                                                             *)

\* With its target in view the controller drops blindly near the ground only, whatever
\* drop an earlier landing, a loss of the target or a gust has left behind.
PressOnlyLow ==
  [][\A f \in Found : StepServo(f) => (order' = "press" => z <= ResetAlt)]_plandVars

\* A landing whose target stays near and in view ends on the ground, from any height and
\* whatever went before: no two rules of the controller hold one another up.
SeenTargetReached == steady ~> order \in {"land", "disarm"}
=============================================================================
