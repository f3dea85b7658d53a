----------------------------- MODULE FlightClaims -----------------------------
(***************************************************************************)
(* What comments, documents and tests of the repository say of the flight  *)
(* state machine and the code does not do.  Each definition quotes its     *)
(* source; a run of its own shows the counterexample.                      *)
(***************************************************************************)
EXTENDS FlightControl

\* include/states/takeoff_state.hpp:27-28: an event not yet settled is rejected, so
\* that its caller (an HTTP request) does not hang until its timeout.  But a request
\* that waits in the plan behind ArmState has no TakeoffState yet to reject it.
TakeoffAnswered == \A c \in Cmds : answer[c] = "pending" ~> answer[c] # "pending"

\* README.md, the on_exit row of section 4.1: on_exit stops the motion output.  But
\* on_exit of WaypointState only resets dist_to_target and ExcuteState has none.
MotionStopsOnExit ==
  [][InWaypoint /\ mission' = NoMission => cmd' \notin Position]_vars

\* pytest/test_posvel.py, test_posvel_timeout: set_posvel in Hover flies towards its
\* target and goes back to Hover.  But it runs the head of the shared plan, which
\* may be the takeoff of a mission that was refused or interrupted before.
PosVelMovesToTarget ==
  [][SetPosVel /\ InHover /\ ~InPosVel /\ arm => leaf' = "Move"]_vars
=============================================================================
