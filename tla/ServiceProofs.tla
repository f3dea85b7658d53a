---------------------------- MODULE ServiceProofs ----------------------------
(***************************************************************************)
(* Services of the node.  The status report never forgets a change, for    *)
(* all threads, clients, values and thresholds; the recorder knows each of *)
(* its children once, for any set of them; the client for corrections has  *)
(* a socket exactly when it believes so.                                   *)
(***************************************************************************)
EXTENDS Report, Recorder, Ntrip, TLAPS

-----------------------------------------------------------------------------
(* Status report.                                                          *)


\* A client that was sent something is known.
ShownAreOpened == \A c \in Clients : shown[c] # -1 => c \in opened

\* The newest client has what the reporter compares with.
NewestHasLast == newest # Nobody => newest \in opened /\ shown[newest] = last

ReportInv == ReportTypeOK /\ ShownAreOpened /\ NewestHasLast /\ NothingForgotten

\* Without a checker every value counts as different.
LEMMA UncheckedDiffers ==
  ASSUME NEW a, NEW b, ~checked
  PROVE  Differs(a, b)
BY DEF Differs

\* A client more is no client less.
LEMMA MoreOpened ==
  ASSUME NEW c \in Clients, opening \in Seq(opened), opened \subseteq Clients
  PROVE  Append(opening, c) \in Seq(opened \union {c})
OBVIOUS

\* The invariant holds in the beginning.
LEMMA ReportInvInit == ReportInit => ReportInv
<1> SUFFICES ASSUME ReportInit PROVE ReportInv
  OBVIOUS
<1>1. ReportTypeOK
  <2>1. 0 \in Values
    BY ReportAssumption DEF Values
  <2>2. opening \in Seq(opened) /\ newest \in Clients \union {Nobody}
    BY DEF ReportInit
  <2>3. checked \in BOOLEAN /\ dirty \in BOOLEAN /\ reporting \in BOOLEAN
    BY Zenon DEF ReportInit
  <2>4. value \in Values /\ last \in Values \union {-1} /\ writing \subseteq Writers
        /\ opened \subseteq Clients /\ shown \in [Clients -> Values \union {-1}]
    BY <2>1 DEF ReportInit
  <2> QED
    BY <2>2, <2>3, <2>4 DEF ReportTypeOK
<1>2. ShownAreOpened /\ NewestHasLast
  BY DEF ReportInit, ShownAreOpened, NewestHasLast
<1>3. NothingForgotten
  BY DEF ReportInit, NothingForgotten, Coming
<1> QED
  BY <1>1, <1>2, <1>3 DEF ReportInv

\* The writers and the flag leave what was sent alone, and something is coming.
LEMMA ReportInvComing ==
  ASSUME ReportInv, Coming', UNCHANGED <<last, opened, opening, newest, shown>>,
         ReportTypeOK'
  PROVE  ReportInv'
BY DEF ReportInv, ShownAreOpened, NewestHasLast, NothingForgotten

\* What the reporter does with the value it has read.
LEMMA ReportInvReport ==
  ASSUME ReportInv, ReportValue
  PROVE  ReportInv'
<1>1. ReportTypeOK'
  BY DEF ReportInv, ReportTypeOK, ReportValue
<1>2. CASE Differs(value, last)
  <2>1. last' = value /\ shown' = [c \in Clients |-> IF c \in opened THEN value ELSE shown[c]]
    BY <1>2 DEF ReportValue
  <2>2. UNCHANGED <<checked, value, opened, newest>>
    BY DEF ReportValue
  <2>3. newest # Nobody => newest \in Clients
    BY DEF ReportInv, ReportTypeOK
  <2>4. ShownAreOpened' /\ NewestHasLast'
    BY <2>1, <2>2, <2>3 DEF ReportInv, ShownAreOpened, NewestHasLast
  <2>5. \A c \in Clients : shown'[c] \in {-1, value'}
    BY <2>1, <2>2 DEF ReportInv, ShownAreOpened
  <2> QED
    BY <1>1, <2>4, <2>5 DEF ReportInv, NothingForgotten
<1>3. CASE ~Differs(value, last)
  <2>1. UNCHANGED <<checked, value, opened, newest, shown, last>>
    BY <1>3 DEF ReportValue
  <2>2. checked
    BY <1>3, UncheckedDiffers
  <2>3. ShownAreOpened' /\ NewestHasLast'
    BY <2>1 DEF ReportInv, ShownAreOpened, NewestHasLast
  <2>4. ASSUME NEW c \in Clients, c = newest
        PROVE  ~Differs(value, shown[c])'
    <3>1. newest # Nobody
      BY <2>4, ReportAssumption
    <3>2. shown[c] = last
      BY <2>4, <3>1 DEF ReportInv, NewestHasLast
    <3>3. ~Differs(value, shown[c])
      BY <3>2, <1>3
    <3> QED
      BY <3>3, <2>1 DEF Differs
  <2>5. NothingForgotten'
    BY <2>1, <2>2, <2>4 DEF NothingForgotten
  <2> QED
    BY <1>1, <2>3, <2>5 DEF ReportInv
<1> QED
  BY <1>2, <1>3

\* A new client gets the full state.
LEMMA ReportInvFull ==
  ASSUME ReportInv, SendFullState
  PROVE  ReportInv'
<1> DEFINE h == Head(opening)
<1>1. h \in opened /\ h \in Clients /\ Tail(opening) \in Seq(opened)
  BY DEF ReportInv, ReportTypeOK, SendFullState, AppendFullState
<1>2. UNCHANGED <<checked, value, dirty, writing, reporting, opened>>
  BY DEF SendFullState, AppendFullState
<1>3. /\ newest' = h /\ last' = value /\ opening' = Tail(opening)
      /\ shown' = [shown EXCEPT ![h] = value]
  BY DEF SendFullState, AppendFullState
<1>4. shown \in [Clients -> Values \union {-1}]
  BY DEF ReportInv, ReportTypeOK
<1>5. ReportTypeOK'
  BY <1>1, <1>2, <1>3, <1>4 DEF ReportInv, ReportTypeOK
<1>6. ShownAreOpened' /\ NewestHasLast'
  BY <1>1, <1>2, <1>3, <1>4 DEF ReportInv, ShownAreOpened, NewestHasLast
<1>7. CASE checked
  <2>1. \A c \in Clients : shown'[c] \in {-1, value'} \/ c # newest'
    BY <1>1, <1>2, <1>3, <1>4
  <2> QED
    BY <1>2, <1>5, <1>6, <1>7, <2>1 DEF ReportInv, NothingForgotten
<1>8. CASE ~checked
  <2>1. Coming' = Coming
    BY <1>2 DEF Coming
  <2>2. Coming \/ \A c \in Clients : shown[c] \in {-1, value}
    BY <1>8 DEF ReportInv, NothingForgotten
  <2>3. Coming \/ \A c \in Clients : shown'[c] \in {-1, value'}
    BY <1>1, <1>2, <1>3, <1>4, <2>2
  <2> QED
    BY <1>5, <1>6, <2>1, <2>3 DEF ReportInv, NothingForgotten
<1> QED
  BY <1>7, <1>8

\* A client that opens a connection has been sent nothing.
LEMMA ReportInvOpens ==
  ASSUME ReportInv, NEW c \in Clients, ClientOpens(c)
  PROVE  ReportInv'
<1>1. opened' = opened \union {c} /\ opening' = Append(opening, c)
  BY DEF ClientOpens
<1>2. UNCHANGED <<checked, value, dirty, writing, reporting, last, newest, shown>>
  BY DEF ClientOpens
<1>3. opening' \in Seq(opened')
  BY <1>1, MoreOpened DEF ReportInv, ReportTypeOK
<1>4. ReportTypeOK'
  BY <1>1, <1>2, <1>3 DEF ReportInv, ReportTypeOK
<1>5. ShownAreOpened' /\ NewestHasLast'
  BY <1>1, <1>2 DEF ReportInv, ShownAreOpened, NewestHasLast
<1>6. NothingForgotten'
  BY <1>2, Zenon DEF ReportInv, NothingForgotten, Coming, Differs
<1> QED
  BY <1>4, <1>5, <1>6 DEF ReportInv

\* Every step keeps the invariant.
LEMMA ReportInvNext == ReportInv /\ [ReportNext]_reportVars => ReportInv'
<1> SUFFICES ASSUME ReportInv, [ReportNext]_reportVars
             PROVE  ReportInv'
  OBVIOUS
<1>1. ASSUME NEW w \in Writers, NEW v \in Values, Store(w, v)
      PROVE  ReportInv'
  <2>1. ReportTypeOK' /\ Coming' /\ UNCHANGED <<last, opened, opening, newest, shown>>
    BY <1>1 DEF ReportInv, ReportTypeOK, Store, Coming
  <2> QED
    BY <2>1, ReportInvComing
<1>2. ASSUME NEW w \in Writers, WriteSame(w)
      PROVE  ReportInv'
  <2>1. ReportTypeOK' /\ Coming' /\ UNCHANGED <<last, opened, opening, newest, shown>>
    BY <1>2 DEF ReportInv, ReportTypeOK, WriteSame, Coming
  <2> QED
    BY <2>1, ReportInvComing
<1>3. ASSUME NEW w \in Writers, SetFlag(w)
      PROVE  ReportInv'
  <2>1. ReportTypeOK' /\ Coming' /\ UNCHANGED <<last, opened, opening, newest, shown>>
    BY <1>3 DEF ReportInv, ReportTypeOK, SetFlag, Coming
  <2> QED
    BY <2>1, ReportInvComing
<1>4. CASE TakeFlag
  <2>1. ReportTypeOK' /\ Coming' /\ UNCHANGED <<last, opened, opening, newest, shown>>
    BY <1>4 DEF ReportInv, ReportTypeOK, TakeFlag, Coming
  <2> QED
    BY <2>1, ReportInvComing
<1>5. CASE ReportValue
  BY <1>5, ReportInvReport
<1>6. CASE SendFullState
  BY <1>6, ReportInvFull
<1>7. ASSUME NEW c \in Clients, ClientOpens(c)
      PROVE  ReportInv'
  BY <1>7, ReportInvOpens
<1>8. CASE UNCHANGED reportVars
  BY <1>8 DEF reportVars, ReportInv, ReportTypeOK, ShownAreOpened, NewestHasLast,
              NothingForgotten, Coming, Differs
<1> QED
  BY <1>1, <1>2, <1>3, <1>4, <1>5, <1>6, <1>7, <1>8 DEF ReportNext

\* The type invariant of the reporter.
THEOREM ReportTypes == ReportSpec => []ReportTypeOK
<1>1. ReportInv => ReportTypeOK
  BY DEF ReportInv
<1> QED
  BY <1>1, ReportInvInit, ReportInvNext, PTL DEF ReportSpec

\* No change of a variable is forgotten between its writers and the reporter: when nothing
\* is on its way, the clients have it, however writers, flag and reporter interleave.
THEOREM ChangesReported == ReportSpec => []NothingForgotten
<1>1. ReportInv => NothingForgotten
  BY DEF ReportInv
<1> QED
  BY <1>1, ReportInvInit, ReportInvNext, PTL DEF ReportSpec
-----------------------------------------------------------------------------
(* Recorder.                                                               *)

States == {"unborn", "runs", "ends", "zombie", "reaped"}

\* The types of the recorder's state.
RecTypeOK ==
  /\ rec \in Pids \cup {NoPid} /\ checking \in Pids \cup {NoPid}
  /\ reapers \subseteq Pids
  /\ child \in [Pids -> States]

RecInv == RecTypeOK /\ EachChildKnownOnce

\* Every step keeps the children known.
LEMMA RecKeeps == RecInv /\ [RecNext]_recVars => RecInv'
<1> SUFFICES ASSUME RecInv, [RecNext]_recVars PROVE RecInv'
  OBVIOUS
<1> USE NoPidAssumption DEF RecInv, RecTypeOK, EachChildKnownOnce, States
<1>1. CASE CheckRecord
  BY <1>1 DEF CheckRecord, StoreRecording
<1>2. CASE StopRecord
  BY <1>2 DEF StopRecord, StoreRecording
<1>3. ASSUME NEW p \in Pids, StartRecord(p) PROVE RecInv'
  BY <1>3 DEF StartRecord
<1>4. ASSUME NEW p \in Pids, Reap(p) PROVE RecInv'
  BY <1>4 DEF Reap
<1>5. ASSUME NEW p \in Pids, ChildEnds(p) PROVE RecInv'
  BY <1>5 DEF ChildEnds
<1>6. CASE UNCHANGED recVars
  BY <1>6 DEF recVars
<1> QED
  BY <1>1, <1>2, <1>3, <1>4, <1>5, <1>6 DEF RecNext

\* Every child the recorder has started and not reaped is known, once: bag_recorder.hpp
\* loses none and never signals a pid that is free.
THEOREM ChildrenKnownOnce == RecSpec => []EachChildKnownOnce
<1>1. RecInit => RecInv
  BY NoPidAssumption DEF RecInit, RecInv, RecTypeOK, EachChildKnownOnce, States
<1>2. RecInv => EachChildKnownOnce
  BY DEF RecInv
<1> QED
  BY <1>1, <1>2, RecKeeps, PTL DEF RecSpec

\* ctx.recording is TRUE exactly while rec_pid_ is a child's.
THEOREM RecordingToldTruly == RecSpec => []ToldWhetherRecording
<1>1. RecInit => ToldWhetherRecording
  BY Zenon DEF RecInit, ToldWhetherRecording
<1>2. RecInv /\ ToldWhetherRecording /\ [RecNext]_recVars => ToldWhetherRecording'
  <2> SUFFICES ASSUME RecInv, ToldWhetherRecording, [RecNext]_recVars
               PROVE  ToldWhetherRecording'
    OBVIOUS
  <2> USE DEF ToldWhetherRecording
  <2>1. CASE CheckRecord
    BY <2>1, NoPidAssumption, Zenon DEF CheckRecord, StoreRecording
  <2>2. CASE StopRecord
    BY <2>2, Zenon DEF StopRecord, StoreRecording
  <2>3. CASE UNCHANGED <<rec, recording>>
    BY <2>3, Zenon
  <2> QED
    BY <2>1, <2>2, <2>3, Zenon DEF RecNext, recVars, StartRecord, Reap, ChildEnds
<1>3. RecInit => RecInv
  BY NoPidAssumption DEF RecInit, RecInv, RecTypeOK, EachChildKnownOnce, States
<1> QED
  BY <1>1, <1>2, <1>3, RecKeeps, PTL DEF RecSpec

-----------------------------------------------------------------------------
(* NTRIP client.                                                           *)

\* Before the first start nothing is open.
NtripInv == OneSocket /\ (~ntripOn => thread = "rest" /\ ~connected)

\* No socket of ntrip_client.hpp is used after it was closed or lost while it is open.
THEOREM SocketsNeitherLostNorStale == NtripSpec => []OneSocket
<1>1. NtripInit => NtripInv
  BY DEF NtripInit, NtripInv, OneSocket
<1>2. NtripInv /\ [NtripNext]_ntripVars => NtripInv'
  <2> SUFFICES ASSUME NtripInv, [NtripNext]_ntripVars PROVE NtripInv'
    OBVIOUS
  <2> USE DEF NtripInv, OneSocket
  <2>1. CASE LinkBreaks \/ KernelGivesUp \/ GpsChanges \/ TurnsGood
    BY <2>1 DEF LinkBreaks, KernelGivesUp, GpsChanges, TurnsGood
  <2>2. CASE TickStart
    BY <2>2 DEF TickStart
  <2>3. CASE TickUpdate
    BY <2>3 DEF TickUpdate, Sent
  <2>4. CASE StepConnect
    BY <2>4 DEF StepConnect, Fail, CloseSocket
  <2>5. CASE StepRequest
    BY <2>5 DEF StepRequest, Fail, CloseSocket, Sent
  <2>6. CASE StepReply
    BY <2>6 DEF StepReply, Fail, CloseSocket
  <2>7. CASE StepReceive
    <3>1. UNCHANGED <<ntripOn, thread>> /\ thread = "rest" /\ connected
      BY <2>7 DEF StepReceive
    <3>2. CASE link \in {"fin", "reset"}
      <4>1. CloseSocket
        BY <2>7, <3>2 DEF StepReceive
      <4> QED
        BY <3>1, <4>1, Zenon DEF CloseSocket
    <3>3. CASE link \notin {"fin", "reset"}
      <4>1. UNCHANGED <<link, connected>>
        BY <2>7, <3>3 DEF StepReceive
      <4> QED
        BY <3>1, <4>1
    <3> QED
      BY <3>2, <3>3
  <2>8. CASE UNCHANGED ntripVars
    BY <2>8 DEF ntripVars
  <2> QED
    BY <2>1, <2>2, <2>3, <2>4, <2>5, <2>6, <2>7, <2>8 DEF NtripNext, NtripStep
<1>3. NtripInv => OneSocket
  BY DEF NtripInv
<1> QED
  BY <1>1, <1>2, <1>3, PTL DEF NtripSpec
=============================================================================
