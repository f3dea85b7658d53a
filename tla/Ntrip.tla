-------------------------------- MODULE Ntrip --------------------------------
(***************************************************************************)
(* The client for GPS corrections (features/ntrip): the engine's tick      *)
(* starts it and sends the position every ten seconds, its thread connects *)
(* to the caster and reads.  Every step of the thread is one run of        *)
(* on_step, or the part of one that waits for the network.                 *)
(*                                                                         *)
(* The connection, as the kernel sees it, is external: "up", "fin" (closed *)
(* by the caster), "reset", "dead" (the other side has gone, or hangs, and *)
(* nothing tells), or "dying" (dead, with data of ours unacknowledged,     *)
(* which the kernel gives up after a while).  The client is never stopped: *)
(* only its destructor does that.                                          *)
(*                                                                         *)
(* Operators named XBut... are faulty variants of X.                       *)
(***************************************************************************)

VARIABLES
  gps,        \* fix type and satellites suffice, and the configuration enables it
  ntripOn,    \* is_running of the client
  thread,     \* "rest" between steps, "request" or "reply" within connect_and_auth
  link,       \* the connection of socket_fd_, "none" without one
  connected,  \* is_connected_
  located,    \* the caster knows the position, so that it sends corrections
  outcome,    \* of the last step: "none", "data", "nothing" or "failed"
  good        \* from now on the caster answers and no connection breaks (environment)

ntripVars == <<gps, ntripOn, thread, link, connected, located, outcome, good>>

NtripInit ==
  /\ gps = FALSE /\ ntripOn = FALSE
  /\ thread = "rest" /\ link = "none" /\ connected = FALSE /\ located = FALSE
  /\ outcome = "none"
  /\ good = FALSE

-----------------------------------------------------------------------------
(* The network and the receiver.                                           *)

LinkBreaks ==
  /\ ~good
  /\ \/ link = "up" /\ link' \in {"fin", "reset", "dead"}
     \/ link = "dying" /\ link' = "up"
  /\ UNCHANGED <<gps, ntripOn, thread, connected, located, outcome, good>>

KernelGivesUp ==
  /\ link = "dying" /\ link' = "reset"
  /\ UNCHANGED <<gps, ntripOn, thread, connected, located, outcome, good>>

GpsChanges ==
  /\ ~good /\ gps' = ~gps
  /\ UNCHANGED <<ntripOn, thread, link, connected, located, outcome, good>>

TurnsGood ==
  /\ ~good /\ gps /\ good' = TRUE
  /\ outcome' = "none"
  /\ UNCHANGED <<gps, ntripOn, thread, link, connected, located>>

-----------------------------------------------------------------------------
(* on_tick of the listener.                                                *)

TickStart ==
  /\ ~ntripOn /\ gps
  /\ ntripOn' = TRUE
  /\ link' = "none" /\ connected' = FALSE
  /\ UNCHANGED <<gps, thread, located, outcome, good>>

\* What sending does to the connection.
Sent == CASE link = "dead" -> "dying" [] link = "fin" -> "reset" [] OTHER -> link

TickUpdateButSilent ==
  /\ ntripOn /\ connected
  /\ UNCHANGED ntripVars

\* send_location_update: no result is looked at.
TickUpdate ==
  /\ ntripOn /\ connected /\ link # "none"
  /\ link' = Sent
  /\ located' = (located \/ link = "up")
  /\ UNCHANGED <<gps, ntripOn, thread, connected, outcome, good>>

-----------------------------------------------------------------------------
(* The thread.                                                             *)

CloseSocket == link' = "none" /\ connected' = FALSE /\ located' = FALSE

Fail == CloseSocket /\ thread' = "rest" /\ outcome' = "failed"

StepConnect ==
  /\ ntripOn /\ thread = "rest" /\ ~connected
  /\ \/ link' = "up" /\ thread' = "request" /\ UNCHANGED <<connected, located, outcome>>
     \/ ~good /\ Fail
  /\ UNCHANGED <<gps, ntripOn, good>>

StepRequest ==
  /\ thread = "request"
  /\ IF link = "reset" THEN Fail
     ELSE link' = Sent /\ thread' = "reply" /\ UNCHANGED <<connected, located, outcome>>
  /\ UNCHANGED <<gps, ntripOn, good>>

\* The first recv blocks, without a timeout.
StepReply ==
  /\ thread = "reply"
  /\ \/ link = "up" /\ connected' = TRUE /\ located' = TRUE /\ thread' = "rest"
        /\ UNCHANGED <<link, outcome>>
     \/ (link \in {"fin", "reset"} \/ (link = "up" /\ ~good)) /\ Fail
  /\ UNCHANGED <<gps, ntripOn, good>>

StepReceive ==
  /\ thread = "rest" /\ connected
  /\ CASE link = "up" -> outcome' \in (IF located THEN {"data"} ELSE {}) \cup
                                      (IF good /\ located THEN {} ELSE {"nothing"})
                         /\ UNCHANGED <<link, connected, located>>
       [] link \in {"fin", "reset"} -> CloseSocket /\ outcome' = "failed"
       [] OTHER -> outcome' = "nothing" /\ UNCHANGED <<link, connected, located>>
  /\ UNCHANGED <<gps, ntripOn, thread, good>>

NtripStep == StepConnect \/ StepRequest \/ StepReply \/ StepReceive

NtripNext ==
  \/ LinkBreaks \/ KernelGivesUp \/ GpsChanges \/ TurnsGood
  \/ TickStart \/ TickUpdate
  \/ NtripStep

NtripSpec == NtripInit /\ [][NtripNext]_ntripVars

-----------------------------------------------------------------------------
(* Properties.                                                             *)

\* A socket is open exactly while the thread connects or is connected, never both: none is
\* read or written after it was closed, none is left open by the next connection.
OneSocket ==
  /\ link # "none" <=> (connected \/ thread # "rest")
  /\ connected => thread = "rest"

\* The thread waits for the answer of a caster that will never come.
Deaf == thread = "reply" /\ link = "dead"

\* Once the caster answers and connections hold, corrections arrive, whatever state the
\* broken connections before have left the client in: a connection that died without a
\* word is found out by the position updates.  The exception is a connection that died
\* while the thread waited for the first answer, without a timeout.
CorrectionsReturn == good ~> (outcome = "data" \/ Deaf)
=============================================================================
