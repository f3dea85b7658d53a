----------------------------- MODULE MCVehicles -----------------------------
(***************************************************************************)
(* TLC instance of the adapters of car and dog and of the CAN library.     *)
(* They share no state, and a build has one of them: a behaviour is one of *)
(* one part, chosen in the beginning.                                      *)
(***************************************************************************)
EXTENDS Car, CanLibrary, Dog

VARIABLE part

mcVars == <<part, carVars, canVars, dogVars>>

\* Forward, backward in a sharp turn, turning on the spot.
MCVels == {[vx |-> 70, vy |-> 0, yaw |-> 0], [vx |-> -50, vy |-> 0, yaw |-> 800],
           [vx |-> 0, vy |-> 0, yaw |-> -100]}
MCLights == {[turn |-> 2, lamps |-> 1]}

CanIdle == canMsg = [id |-> "m260", signals |-> Zero("m260")] /\ canFrame = {} /\ canGot = {}
           /\ canStep = "idle" /\ canCtx = {}

MCInit ==
  \/ part = "car" /\ CarInit /\ CanIdle /\ DogInit
  \/ part = "can" /\ CarInit /\ CanInit /\ DogInit
  \/ part = "dog" /\ CarInit /\ CanIdle /\ DogInit

CarStep == part = "car" /\ CarNext /\ UNCHANGED <<part, canVars, dogVars>>
CanStep == part = "can" /\ CanNext /\ UNCHANGED <<part, carVars, dogVars>>
DogStep == part = "dog" /\ DogNext /\ UNCHANGED <<part, carVars, canVars>>

MCNext == CarStep \/ CanStep \/ DogStep

ThreadRuns == part = "car" /\ UNCHANGED <<part, canVars, dogVars>> /\ CarThread
LoopRuns(c) ==
  /\ part = "dog"
  /\ LoopWaits(c) \/ LoopSends(c)
  /\ UNCHANGED <<part, carVars, canVars>>

MCSpec ==
  /\ MCInit /\ [][MCNext]_mcVars
  /\ WF_mcVars(ThreadRuns)
  /\ \A c \in 1 .. MaxCalls : WF_mcVars(LoopRuns(c))
=============================================================================
