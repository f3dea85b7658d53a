------------------------------ MODULE MissionLog ------------------------------
(***************************************************************************)
(* FlightControl with a history variable, the last mission begun, and the  *)
(* claim that it implements Voyages.  The code keeps no such log: that no  *)
(* mission is flown twice, or after a newer one, rests on when the plan is *)
(* cleared and what is left in it.                                         *)
(***************************************************************************)
EXTENDS FlightControl

VARIABLE begun  \* the last mission begun, 0 before the first

LogInit == Init /\ begun = 0

LogNext == Next /\ begun' = IF mission' = NoMission THEN begun ELSE mission'.id

LogSpec == LogInit /\ [][LogNext]_<<vars, begun>>

V == INSTANCE Voyages WITH
       given <- cmds,
       len   <- IF InWaypoint THEN mission.len ELSE 0,
       at    <- IF InWaypoint THEN mission.idx ELSE 0,
       start <- home

\* The missions of FlightControl are voyages: a mission left in the plan by a refused or
\* interrupted one before, or deferred behind ArmState, is run at most once and never after
\* a newer one; side trips and plans change neither the route nor the return point.
ImplementsVoyages == V!Spec

\* The inductive invariant: a mission that waits in the plan is newer than all begun.
LogInv ==
  /\ begun \in 0 .. cmds
  /\ InWaypoint => begun = mission.id
  /\ \A i \in DOMAIN queue : queue[i].step = "Mission" => begun < queue[i].id
=============================================================================
