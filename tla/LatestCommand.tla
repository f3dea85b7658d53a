----------------------------- MODULE LatestCommand -----------------------------
(***************************************************************************)
(* What a tracker promises to the states that command it, whatever thread  *)
(* executes the commands: a command is a number, one is followed at a      *)
(* time, it is the newest one given when it is taken up, and none is taken *)
(* up twice.  Commands overtaken before they are taken up are dropped.     *)
(* Tracker implements this specification.                                  *)
(***************************************************************************)
EXTENDS Integers

VARIABLES
  given,   \* commands given so far; the newest one has this number
  taken,   \* the last command taken up, 0 before the first
  busy,    \* it is still being followed
  reached  \* what is_position_reached answers

lcVars == <<given, taken, busy, reached>>

Init == given = 0 /\ taken = 0 /\ busy = FALSE /\ reached = TRUE

Give == /\ given' = given + 1
        /\ UNCHANGED <<taken, busy, reached>>

\* The newest command replaces whatever was followed.
Take == /\ taken < given
        /\ taken' = given /\ busy' = TRUE /\ reached' \in BOOLEAN
        /\ UNCHANGED given

\* Its end is told before it is over: a target was reached.
Reach == /\ busy
         /\ reached' = TRUE
         /\ UNCHANGED <<given, taken, busy>>

\* Whoever asks of a command that is over is told so: it was reached, or it was
\* a velocity that became too old.
End == /\ busy /\ reached
       /\ busy' = FALSE
       /\ UNCHANGED <<given, taken, reached>>

Next == Give \/ Take \/ Reach \/ End

Spec == Init /\ [][Next]_lcVars
=============================================================================
