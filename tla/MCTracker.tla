------------------------------- MODULE MCTracker -------------------------------
(***************************************************************************)
(* Tracker for TLC; the .cfg files give the constants their values.        *)
(***************************************************************************)
EXTENDS Tracker

\* What the development log (line 125) says of the speed limit of detection:
\* it works on POSITION cruise only, VELOCITY commands are not affected.
VelocityUnaffected == mode = "VELOCITY" => aim.wp = -1

\* What line 123 of the log says: adding and removing a callback refreshes the current
\* waypoint at once.  Afterwards, between two calls of on_step, the target is the waypoint
\* the index names.
CurrentWaypointRefreshed ==
  mode = "POSITION" /\ engine = "idle" /\ loop = "test"
    => aim = Waypoint(route, idx)
=============================================================================
