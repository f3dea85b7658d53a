---------------------------- MODULE MotionFilter ----------------------------
(***************************************************************************)
(* TargetTracker (features/pland/target_tracker.hpp): does the target      *)
(* move?  It is told a position per image.  Positions are tenths of metres *)
(* on a line; the numbers of images are constants.                         *)
(*                                                                         *)
(* Operators named XBut... are faulty variants of X.                       *)
(***************************************************************************)
EXTENDS Integers, Sequences

LOCAL INSTANCE SequencesExt
LOCAL INSTANCE FiniteSetsExt

CONSTANTS
  Spots,      \* positions
  Window,     \* window_size (30 in the code)
  Least,      \* images before anything is said (5)
  Confirm,    \* deviating images that make a target move (3)
  Calming     \* images that show whether it has stopped (15)

ASSUME MotionAssumption ==
  /\ Window \in Nat /\ Least \in 2 .. Window /\ Confirm \in Nat /\ Calming \in Nat \ {0}

VARIABLES
  history,    \* history_
  moving,     \* state_ is MOVING
  deviating,  \* move_counter_
  spot,       \* the target's present position
  parked      \* the target stays from now on (environment)

motionVars == <<history, moving, deviating, spot, parked>>

MotionInit ==
  /\ history = <<>> /\ moving = FALSE /\ deviating = 0
  /\ spot \in Spots /\ parked = FALSE

Total(s) == FoldLeft(LAMBDA a, b : a + b, 0, s)

\* More than 0.24 m from the mean of the images before.
Deviates(s, p) ==
  LET n == Len(s)
      d == n * p - Total(s)
  IN  10 * (IF d < 0 THEN -d ELSE d) > 24 * n

\* The last images fit into less than 0.16 m.
Recent(s) == {s[i] : i \in (IF Len(s) > Calming THEN Len(s) - Calming + 1 ELSE 1) .. Len(s)}
QuietButAlways(s) == 10 * (Max(Recent(s)) - Min(Recent(s))) < 0
Quiet(s) == 10 * (Max(Recent(s)) - Min(Recent(s))) < 16

UpdateMotion ==
  /\ LET longer == Append(history, spot)
     IN  history' = IF Len(longer) > Window THEN Tail(longer) ELSE longer
  /\ \/ Len(history') < Least /\ UNCHANGED <<moving, deviating>>
     \/ /\ Len(history') >= Least /\ ~moving
        /\ IF Deviates(Front(history'), spot)
           THEN IF deviating + 1 >= Confirm
                THEN moving' = TRUE /\ deviating' = 0
                ELSE deviating' = deviating + 1 /\ UNCHANGED moving
           ELSE deviating' = 0 /\ UNCHANGED moving
     \/ /\ Len(history') >= Least /\ moving
        /\ moving' = ~Quiet(history')
        /\ deviating' = IF Quiet(history') THEN 0 ELSE deviating
  /\ UNCHANGED <<spot, parked>>

ResetMotion ==
  /\ history' = <<>> /\ moving' = FALSE /\ deviating' = 0
  /\ UNCHANGED <<spot, parked>>

SpotMoves == ~parked /\ spot' \in Spots /\ UNCHANGED <<history, moving, deviating, parked>>
Parks == parked' = TRUE /\ UNCHANGED <<history, moving, deviating, spot>>

MotionNext == UpdateMotion \/ ResetMotion \/ SpotMoves \/ Parks

\* A target that stays put is, from some image on, said to stand for ever, whatever
\* positions its history still holds.
ParkedStands == []<>~parked \/ <>[]~moving
=============================================================================
