------------------------------- MODULE Voyages -------------------------------
(***************************************************************************)
(* What an operator may rely on when giving missions: each one is flown at *)
(* most once and never after a newer one, one at a time, its waypoints in  *)
(* order from the first, and the return point is the start of the first    *)
(* mission that has one, until the vehicle is down.  Missions carry the    *)
(* numbers of the commands that give them.  An interrupted mission is      *)
(* over.  MissionLog shows that FlightControl implements this              *)
(* specification.                                                          *)
(***************************************************************************)
EXTENDS Integers

VARIABLES
  given,  \* commands so far
  begun,  \* the last mission begun, 0 before the first
  len,    \* waypoints of the mission under way, 0 without one
  at,     \* the waypoint it flies to, from 0
  start   \* the mission whose start is the return point, 0 without one

voyageVars == <<given, begun, len, at, start>>

Init == given = 0 /\ begun = 0 /\ len = 0 /\ at = 0 /\ start = 0

\* A mission newer than all begun before; its start becomes the return point unless there
\* is one.  It may have been given in this step, and replaces one under way.
Begin ==
  /\ \E n \in begun + 1 .. given' :
       begun' = n /\ start' \in IF start = 0 THEN {0, n} ELSE {start}
  /\ len' \in Nat \ {0} /\ at' = 0

Advance ==
  /\ at + 1 < len /\ at' = at + 1
  /\ UNCHANGED <<begun, len, start>>

End ==
  /\ len' = 0 /\ at' = 0
  /\ UNCHANGED <<begun, start>>

\* On the ground the return point is forgotten.
Down ==
  /\ len' = 0 /\ at' = 0 /\ start' = 0
  /\ UNCHANGED begun

Next ==
  /\ given' \in {given, given + 1}
  /\ Begin \/ Advance \/ End \/ Down \/ UNCHANGED <<begun, len, at, start>>

Spec == Init /\ [][Next]_voyageVars
=============================================================================
