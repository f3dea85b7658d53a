----------------------------- MODULE PoseHistory -----------------------------
(***************************************************************************)
(* PoseHistory (features/control/context.hpp): the telemetry thread pushes *)
(* positions and attitudes, each at its own moments, and the landing       *)
(* detector asks for the pose at the moment of an image.  Time goes in     *)
(* units of 0.15 s / Tolerance, the two poses are numbers on a line that   *)
(* change by at most Speed in a unit.                                      *)
(*                                                                         *)
(* Operators named XBut... are faulty variants of X.                       *)
(***************************************************************************)
EXTENDS Integers, Sequences, FiniteSetsExt

CONSTANTS
  History,    \* MAX_HISTORY_SEC
  Tolerance,  \* MAX_TOLERANCE_SEC
  Speed,      \* of the vehicle
  MaxTime     \* bound: the run ends then

ASSUME HistoryAssumption ==
  /\ History \in Nat /\ Tolerance \in Nat /\ Speed \in Nat /\ MaxTime \in Nat

VARIABLES
  clock,      \* now() of the time provider
  path,       \* where the vehicle was at each time so far (environment)
  posBuffer,  \* pos_buffer_
  quatBuffer  \* quat_buffer_

historyVars == <<clock, path, posBuffer, quatBuffer>>

HistoryInit ==
  /\ clock = 0
  /\ path = [t \in {0} |-> [pos |-> 0, quat |-> 0]]
  /\ posBuffer = <<>> /\ quatBuffer = <<>>

\* The vehicle moves and turns at full speed, to and fro (external).
TimePasses ==
  /\ clock < MaxTime
  /\ clock' = clock + 1
  /\ \E p \in {-Speed, Speed} :
       path' = [t \in 0 .. clock + 1 |->
                  IF t <= clock THEN path[t]
                  ELSE [pos |-> path[clock].pos + p, quat |-> path[clock].quat - p]]
  /\ UNCHANGED <<posBuffer, quatBuffer>>

\* A stamp that does not increase is ignored; what is too old goes, but two remain.
Push(buffer, value) ==
  IF buffer # <<>> /\ clock <= buffer[Len(buffer)].stamp THEN buffer
  ELSE LET longer == Append(buffer, [stamp |-> clock, val |-> value])
           n == Len(longer)
           kept == {i \in 1 .. n : i >= n - 1 \/ clock - longer[i].stamp <= History}
       IN  SubSeq(longer, Min(kept), n)

PushPos ==
  /\ posBuffer' = Push(posBuffer, path[clock].pos)
  /\ UNCHANGED <<clock, path, quatBuffer>>

PushQuat ==
  /\ quatBuffer' = Push(quatBuffer, path[clock].quat)
  /\ UNCHANGED <<clock, path, posBuffer>>

HistoryNext == TimePasses \/ PushPos \/ PushQuat

HistorySpec == HistoryInit /\ [][HistoryNext]_historyVars

-----------------------------------------------------------------------------
(* Reading.  A result is a fraction num / den.                             *)

Fails == [ok |-> FALSE, num |-> 0, den |-> 1, diff |-> 0]
Exactly(r, d) == [ok |-> TRUE, num |-> r.val, den |-> 1, diff |-> d]

Between(buffer, t) ==
  LET after  == buffer[Min({i \in 1 .. Len(buffer) : buffer[i].stamp >= t})]
      before == buffer[Min({i \in 1 .. Len(buffer) : buffer[i].stamp >= t}) - 1]
      dt     == after.stamp - before.stamp
  IN  [ok |-> TRUE, num |-> before.val * dt + (t - before.stamp) * (after.val - before.val),
       den |-> dt, diff |-> Min({after.stamp - t, t - before.stamp})]

LookupButAnyAge(buffer, t) ==
  IF buffer = <<>> THEN Fails
  ELSE LET first == buffer[1]
           final == buffer[Len(buffer)]
       IN  IF t <= first.stamp
           THEN IF first.stamp - t > Tolerance THEN Fails ELSE Exactly(first, first.stamp - t)
           ELSE IF t >= final.stamp THEN Exactly(final, t - final.stamp)
           ELSE Between(buffer, t)

\* Before the first and after the last record only within the tolerance.
Lookup(buffer, t) ==
  IF buffer = <<>> THEN Fails
  ELSE LET first == buffer[1]
           final == buffer[Len(buffer)]
       IN  IF t <= first.stamp
           THEN IF first.stamp - t > Tolerance THEN Fails ELSE Exactly(first, first.stamp - t)
           ELSE IF t >= final.stamp
           THEN IF t - final.stamp > Tolerance THEN Fails ELSE Exactly(final, t - final.stamp)
           ELSE Between(buffer, t)

\* get_pose_at: both or nothing, and the worse of the two distances.
PoseAt(t) ==
  LET p == Lookup(posBuffer, t)
      q == Lookup(quatBuffer, t)
  IN  [ok |-> p.ok /\ q.ok, pos |-> p, quat |-> q,
       diff |-> IF p.diff > q.diff THEN p.diff ELSE q.diff]

\* The detector uses images that are not older than this (0.15 s as well).
Timely == {t \in 0 .. clock : clock - t <= Tolerance}

-----------------------------------------------------------------------------
(* Properties.                                                             *)

Off(read, truth) ==
  LET d == read.num - truth * read.den IN IF d < 0 THEN -d ELSE d

\* The pose given for a timely image is near the pose in that moment, whatever gaps the
\* telemetry has and however differently positions and attitudes arrive, and the
\* difference that is handed out bounds the error.
ImagePoseNear ==
  \A t \in Timely :
    LET pose == PoseAt(t)
    IN  pose.ok =>
          /\ pose.diff <= Tolerance
          /\ Off(pose.pos, path[t].pos) <= 2 * Speed * pose.diff * pose.pos.den
          /\ Off(pose.quat, path[t].quat) <= 2 * Speed * pose.diff * pose.quat.den
=============================================================================
