-------------------------------- MODULE Report --------------------------------
(***************************************************************************)
(* Status reports: one variable of the shared context (utils/dirty_var.hpp)*)
(* written by several threads, and the reporter in the engine thread that  *)
(* sends it to the WebSocket clients (utils/state_registry.hpp and         *)
(* features/report).  The variables of the context are independent of one  *)
(* another, so one stands for each; it may have a checker that suppresses  *)
(* small changes or not.  The rate limiter only says that a tick may pass  *)
(* the variable over.  Heartbeats and the events about tasks carry no      *)
(* variable and are left out, and so is a client's going away.             *)
(*                                                                         *)
(* Operators named XBut... are faulty variants of X.                       *)
(***************************************************************************)
EXTENDS Integers, Sequences

CONSTANTS
  Writers,    \* threads that write the variable
  MaxValue,   \* bound: the values are 0 .. MaxValue
  Threshold,  \* of the checker: a smaller or equal change is not reported
  Clients     \* WebSocket connections


VARIABLES
  checked,    \* the variable was bound with a checker
  value,      \* data_
  dirty,      \* dirty_
  writing,    \* threads between the new data and the flag
  reporting,  \* the reporter is between taking the flag and the data
  last,       \* last_reported_val_, -1 when has_reported_ is false
  opened,     \* clients the connection manager knows
  opening,    \* WsOpenEvents not handled yet
  newest,     \* the client whose event was handled last
  shown       \* what each client was sent last, -1 for nothing

reportVars == <<checked, value, dirty, writing, reporting, last, opened, opening, newest,
                shown>>

Values == 0 .. MaxValue
Nobody == "nobody"

ASSUME ReportAssumption == MaxValue \in Nat /\ Threshold \in Nat /\ Nobody \notin Clients

ReportInit ==
  /\ checked \in BOOLEAN
  /\ value = 0 /\ dirty = TRUE
  /\ writing = {} /\ reporting = FALSE
  /\ last = -1
  /\ opened = {} /\ opening = <<>> /\ newest = Nobody
  /\ shown = [c \in Clients |-> -1]

-----------------------------------------------------------------------------
(* DirtyVar.                                                               *)

\* store returns early for equal data, write does not.
Store(w, v) ==
  /\ w \notin writing /\ v # value
  /\ value' = v /\ writing' = writing \union {w}
  /\ UNCHANGED <<checked, dirty, reporting, last, opened, opening, newest, shown>>

WriteSame(w) ==
  /\ w \notin writing
  /\ writing' = writing \union {w}
  /\ UNCHANGED <<checked, value, dirty, reporting, last, opened, opening, newest, shown>>

\* The flag is set after the lock is released.
SetFlag(w) ==
  /\ w \in writing
  /\ dirty' = TRUE /\ writing' = writing \ {w}
  /\ UNCHANGED <<checked, value, reporting, last, opened, opening, newest, shown>>

-----------------------------------------------------------------------------
(* The reporter.                                                           *)

\* try_report on a tick that the rate allows: consume_if_dirty exchanges the flag ...
TakeFlag ==
  /\ dirty /\ ~reporting
  /\ dirty' = FALSE /\ reporting' = TRUE
  /\ UNCHANGED <<checked, value, writing, last, opened, opening, newest, shown>>

Differs(new, old) == ~checked \/ old = -1 \/ new - old > Threshold \/ old - new > Threshold

\* What is compared next time is the present value, reported or not.
ReportValueButDrifts ==
  /\ reporting /\ reporting' = FALSE
  /\ last' = value
  /\ shown' = [c \in Clients |-> IF c \in opened /\ Differs(value, last) THEN value ELSE shown[c]]
  /\ UNCHANGED <<checked, value, dirty, writing, opened, opening, newest>>

\* ... and then reads the data; what differs goes to every client.
ReportValue ==
  /\ reporting /\ reporting' = FALSE
  /\ IF Differs(value, last)
     THEN /\ last' = value
          /\ shown' = [c \in Clients |-> IF c \in opened THEN value ELSE shown[c]]
     ELSE UNCHANGED <<last, shown>>
  /\ UNCHANGED <<checked, value, dirty, writing, opened, opening, newest>>

ClientOpens(c) ==
  /\ c \notin opened
  /\ opened' = opened \union {c} /\ opening' = Append(opening, c)
  /\ UNCHANGED <<checked, value, dirty, writing, reporting, last, newest, shown>>

\* get_full_state reads the data now, and what client c is sent counts as reported.
AppendFullState(c) ==
  /\ shown' = [shown EXCEPT ![c] = value]
  /\ last' = value

\* The full state goes to the new client only.
SendFullState ==
  /\ opening # <<>> /\ ~reporting
  /\ opening' = Tail(opening) /\ newest' = Head(opening)
  /\ AppendFullState(Head(opening))
  /\ UNCHANGED <<checked, value, dirty, writing, reporting, opened>>

ReportNext ==
  \/ \E w \in Writers : (\E v \in Values : Store(w, v)) \/ WriteSame(w) \/ SetFlag(w)
  \/ TakeFlag \/ ReportValue \/ SendFullState
  \/ \E c \in Clients : ClientOpens(c)

ReportSpec == ReportInit /\ [][ReportNext]_reportVars

-----------------------------------------------------------------------------
(* Properties.                                                             *)

Coming == dirty \/ reporting \/ writing # {}

\* No change is forgotten between the writers and the reporter: when nothing is on its way,
\* a client that was ever sent the variable has what it is now.  With a checker it has it
\* up to the threshold, and only the newest client is sure to: a full state sent to a new
\* client makes the reporter suppress the same change for the clients before it.
NothingForgotten ==
  Coming \/ \A c \in Clients :
              \/ shown[c] \in {-1, value}
              \/ checked /\ (c # newest \/ ~Differs(value, shown[c]))

\* The type invariant.
ReportTypeOK ==
  /\ checked \in BOOLEAN /\ dirty \in BOOLEAN /\ reporting \in BOOLEAN
  /\ value \in Values /\ last \in Values \union {-1}
  /\ writing \subseteq Writers
  /\ opened \subseteq Clients /\ opening \in Seq(opened)
  /\ newest \in Clients \union {Nobody}
  /\ shown \in [Clients -> Values \union {-1}]
=============================================================================
