-------------------------------- MODULE Dog --------------------------------
(***************************************************************************)
(* The robot dog's adapter (include/robot/dog.hpp).  One command,          *)
(* TOGGLE_STAND_DOWN, makes the dog stand up or lie down, whichever it is  *)
(* not: takeoff sends it at once, land starts a loop of the engine that    *)
(* waits for the dog to stop and sends it then.  The adapter knows the     *)
(* dog's pose from its status packets, which arrive later.                 *)
(*                                                                         *)
(* The dog itself is external: its poses are those of the status map.      *)
(* Toggled when it stands it lies down, when it lies it stands up, as the  *)
(* comments at the uses of the command say; toggled while it changes       *)
(* between the two it does either, and fallen it stands up or stays.       *)
(*                                                                         *)
(* Operators named XBut... are faulty variants of X.                       *)
(***************************************************************************)
EXTENDS Integers, FiniteSets

CONSTANT MaxCalls   \* bound: calls of land and takeoff

ASSUME MaxCallsAssumption == MaxCalls \in Nat

VARIABLES
  pose,       \* what the dog does
  seen,       \* dog_state: what its last status packet said
  still,      \* cmd_vel_ is zero
  target,     \* the velocity the tracker is to send: "stop" or "move"
  loops,      \* for every call, the state of its landing loop
  calls,      \* calls so far
  toggles     \* toggle commands sent so far (history)

dogVars == <<pose, seen, still, target, loops, calls, toggles>>

Poses == {"Prone", "Rising", "Standing", "Walking", "Lying", "Fallen"}

\* What the loop's index says: within the first two seconds, later, or the last run.
Phases == {"early", "waiting", "last"}

DogInit ==
  /\ pose \in {"Prone", "Standing"}
  /\ seen = "Prone"
  /\ still = TRUE
  /\ target = "stop"
  /\ loops = [c \in 1 .. MaxCalls |-> "none"]
  /\ calls = 0
  /\ toggles = 0

-----------------------------------------------------------------------------
(* The dog (external).                                                     *)

Toggled ==
  CASE pose \in {"Standing", "Walking"} -> {"Lying"}
    [] pose = "Prone"                   -> {"Rising"}
    [] pose \in {"Rising", "Lying"}     -> {"Rising", "Lying"}
    [] pose = "Fallen"                  -> {"Fallen", "Rising"}

PoseChanges ==
  /\ pose' \in CASE pose = "Rising"   -> {"Standing", "Fallen"}
                 [] pose = "Lying"    -> {"Prone"}
                 [] pose = "Standing" -> IF still THEN {"Fallen"} ELSE {"Walking", "Fallen"}
                 [] pose = "Walking"  -> IF still THEN {"Standing"} ELSE {"Fallen"}
                 [] OTHER             -> {pose}
  /\ UNCHANGED <<seen, still, target, loops, calls, toggles>>

\* A status packet with a pose of the status map.
StatusPacket == seen' = pose /\ UNCHANGED <<pose, still, target, loops, calls, toggles>>

-----------------------------------------------------------------------------
(* The adapter.                                                            *)

\* Sending the toggle command.
SendToggle == pose' \in Toggled /\ toggles' = toggles + 1

Land ==
  /\ calls < MaxCalls
  /\ calls' = calls + 1
  /\ \/ seen \in {"Prone", "Lying"} /\ UNCHANGED <<target, loops>>
     \/ /\ seen \notin {"Prone", "Lying"}
        /\ target' = "stop"
        /\ loops' = [loops EXCEPT ![calls'] = "early"]
  /\ UNCHANGED <<pose, seen, still, toggles>>

Takeoff ==
  /\ calls < MaxCalls
  /\ calls' = calls + 1
  /\ \/ seen = "Standing" /\ UNCHANGED <<pose, toggles>>
     \/ seen # "Standing" /\ SendToggle
  /\ UNCHANGED <<seen, still, target, loops>>

\* One run of a landing loop, or several that wait: it ends when the dog was told to
\* stand still, or with its last run.
LoopWaits(c) ==
  /\ \/ loops[c] = "early" /\ loops' = [loops EXCEPT ![c] = "waiting"]
     \/ loops[c] = "waiting" /\ ~still /\ loops' = [loops EXCEPT ![c] = "last"]
  /\ UNCHANGED <<pose, seen, still, target, calls, toggles>>

LoopSendsButGoesOn(c) ==
  /\ loops[c] = "last" \/ (loops[c] = "waiting" /\ still)
  /\ SendToggle
  /\ toggles < 2 * MaxCalls
  /\ UNCHANGED <<seen, still, target, calls, loops>>

LoopSendsButOnlyStill(c) ==
  /\ loops[c] \in {"last", "waiting"} /\ still
  /\ SendToggle
  /\ loops' = [loops EXCEPT ![c] = "none"]
  /\ UNCHANGED <<seen, still, target, calls>>

LoopSends(c) ==
  /\ loops[c] = "last" \/ (loops[c] = "waiting" /\ still)
  /\ SendToggle
  /\ loops' = [loops EXCEPT ![c] = "none"]
  /\ UNCHANGED <<seen, still, target, calls>>

\* cmd_vel, from the tracker's thread; a state of the machine gives it another velocity.
TrackerSends ==
  /\ still' = (target = "stop")
  /\ UNCHANGED <<pose, seen, target, loops, calls, toggles>>

Move == target' = "move" /\ UNCHANGED <<pose, seen, still, loops, calls, toggles>>

Loop == \E c \in 1 .. MaxCalls : LoopWaits(c) \/ LoopSends(c)

DogNext ==
  \/ Land \/ Takeoff \/ Loop
  \/ TrackerSends \/ Move
  \/ PoseChanges \/ StatusPacket

DogSpec == DogInit /\ [][DogNext]_dogVars

-----------------------------------------------------------------------------
(* Properties.                                                             *)

Pending == {c \in 1 .. MaxCalls : loops[c] # "none"}

\* The toggle command is never sent more often than it was asked for: every landing that
\* was accepted sends it once, however its loop and the tracker interleave, and none is
\* sent on its behalf afterwards.
OneTogglePerCall == toggles + Cardinality(Pending) <= calls

\* A landing ends: its loop sends the command even if the dog never stands still.
LandingEnds == \A c \in 1 .. MaxCalls : (loops[c] # "none") ~> (loops[c] = "none")

\* A landing leaves a dog that lies already alone: what land's comment says.
LyingDogLeftAlone ==
  [][\A c \in 1 .. MaxCalls : LoopSends(c) => pose # "Prone"]_dogVars
=============================================================================
