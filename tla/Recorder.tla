------------------------------ MODULE Recorder ------------------------------
(***************************************************************************)
(* The bag recorder (features/algo/bag_recorder.hpp) with the requests     *)
(* that start and stop it in the engine's thread: a child process per      *)
(* recording, and a detached thread per stop that waits for its end.       *)
(* The arguments, the directory and the file name are left out: finding    *)
(* them fails before there is a child, as spawning may.                    *)
(*                                                                         *)
(* Operators named XBut... are faulty variants of X.                       *)
(***************************************************************************)

CONSTANTS
  Pids,   \* the children a behaviour may have
  NoPid

ASSUME NoPidAssumption == NoPid \notin Pids

VARIABLES
  rec,      \* rec_pid_
  recording,\* ctx.recording, which clients are told
  child,    \* "unborn", "runs", "ends" (told to), "zombie" or "reaped"
  checking, \* the child start looks at after 200 ms, while the engine waits
  reapers   \* children a detached thread waits for

recVars == <<rec, recording, child, checking, reapers>>

RecInit ==
  /\ rec = NoPid /\ recording = FALSE
  /\ child = [p \in Pids |-> "unborn"]
  /\ checking = NoPid
  /\ reapers = {}

\* The recorder was found not to record, and its directory and binary to exist.
StartRecordButAgain(p) ==
  /\ checking = NoPid
  /\ child[p] = "unborn"
  /\ child' = [child EXCEPT ![p] = "runs"]
  /\ checking' = p
  /\ UNCHANGED <<rec, recording, reapers>>

StartRecord(p) ==
  /\ checking = NoPid /\ rec = NoPid
  /\ child[p] = "unborn"
  /\ child' = [child EXCEPT ![p] = "runs"]
  /\ checking' = p
  /\ UNCHANGED <<rec, recording, reapers>>

\* The requests' handlers store it, when the recorder has not failed.
StoreRecording(on) == recording' = on

\* A child that has ended by now is reaped, and the request rejected.
CheckRecord ==
  /\ checking # NoPid
  /\ IF child[checking] = "zombie"
     THEN child' = [child EXCEPT ![checking] = "reaped"] /\ UNCHANGED <<rec, recording>>
     ELSE rec' = checking /\ StoreRecording(TRUE) /\ UNCHANGED child
  /\ checking' = NoPid
  /\ UNCHANGED reapers

StopRecord ==
  /\ checking = NoPid /\ rec # NoPid
  /\ rec' = NoPid /\ StoreRecording(FALSE)
  /\ child' = [child EXCEPT ![rec] = IF @ = "runs" THEN "ends" ELSE @]
  /\ reapers' = reapers \cup {rec}
  /\ UNCHANGED checking

Reap(p) ==
  /\ p \in reapers /\ child[p] = "zombie"
  /\ child' = [child EXCEPT ![p] = "reaped"]
  /\ reapers' = reapers \ {p}
  /\ UNCHANGED <<rec, recording, checking>>

\* rosbag (external) ends when it was told to, or of itself.
ChildEnds(p) ==
  /\ child[p] \in {"runs", "ends"}
  /\ child' = [child EXCEPT ![p] = "zombie"]
  /\ UNCHANGED <<rec, recording, checking, reapers>>

RecNext ==
  \/ CheckRecord \/ StopRecord
  \/ \E p \in Pids : StartRecord(p) \/ Reap(p) \/ ChildEnds(p)

RecSpec == RecInit /\ [][RecNext]_recVars

-----------------------------------------------------------------------------
(* Properties.                                                             *)

\* The recorder, the check or a thread knows every child that is not reaped, and each child
\* is known to one of them only: none is lost, and no signal or wait goes to a pid that
\* the system may have given away again.
EachChildKnownOnce ==
  /\ \A p \in Pids :
       child[p] \in {"runs", "ends", "zombie"} <=> p \in {rec, checking} \cup reapers
  /\ {rec, checking} \cap reapers = {}
  /\ rec = NoPid \/ checking = NoPid

\* What clients are told is what the recorder believes.
ToldWhetherRecording == recording <=> rec # NoPid

\* A recorder that was started and is not the current one ends and is reaped: none goes
\* on writing unknown to stop, none is left a zombie.
RecordersReaped ==
  \A p \in Pids :
    (child[p] \in {"runs", "ends", "zombie"} /\ p \notin {rec, checking})
      ~> (child[p] = "reaped")
=============================================================================
