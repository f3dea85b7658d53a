--------------------------- MODULE AutopilotProofs ---------------------------
(***************************************************************************)
(* Module Autopilot, for all modes and requests.                           *)
(***************************************************************************)
EXTENDS Autopilot, TLAPS

\* An event with the mode waits for the engine.
Queued(m) == \E i \in 1 .. Len(modeEvents) : modeEvents[i] = m

\* The engine has still to be told of the mode, should the autopilot enter it.
Heard(m) == Queued(m) \/ (m \notin told /\ (told # {} \/ ctxMode # m))

\* A request without an excuse: the engine will hear of its mode, and once the command
\* has been taken the autopilot is in it.
Followed(r) ==
  /\ Heard(asked[r])
  /\ answer[r] \in {"sent", "waiting"} => fcuMode = asked[r]

PendingFollowed == \A r \in Pending : r \in excuse \/ Followed(r)

AutoInv == AutoTypeOK /\ PendingFollowed /\ TimeoutExplained

\* The type invariant holds in the beginning and after every step.
LEMMA AutoTypesInit == AutoInit => AutoTypeOK
<1> SUFFICES ASSUME AutoInit PROVE AutoTypeOK
  OBVIOUS
<1>1. fcuArmed \in BOOLEAN
  BY Zenon DEF AutoInit
<1>2. fcuMode \in Modes /\ ctxMode \in Modes /\ changes \in 0 .. MaxChanges
  BY ModesAssumption DEF AutoInit
<1>3. told \in SUBSET Modes /\ modeEvents \in Seq(Modes) /\ excuse \in SUBSET Requests
  BY DEF AutoInit
<1>4. asked \in [Requests -> Modes]
  BY <1>2 DEF AutoInit
<1>5. answer \in [Requests -> {"none", "sending", "sent", "waiting", "ok", "late"}]
  BY DEF AutoInit
<1>6. risen \in SUBSET Checks /\ check \in [Checks -> {"idle", "posted", "switch", "run"}]
  BY DEF AutoInit
<1> QED
  BY <1>1, <1>2, <1>3, <1>4, <1>5, <1>6 DEF AutoTypeOK

\* Entering a mode and taking a command keep the types.
LEMMA EnterTypes ==
  ASSUME AutoTypeOK, NEW m \in Modes, Enter(m) \/ SetMode(m)
  PROVE  fcuMode' \in Modes /\ excuse' \in SUBSET Requests
BY DEF AutoTypeOK, Enter, SetMode, Pending

\* Every step of the autopilot and its callers keeps the types.
LEMMA AutoTypesNext == AutoTypeOK /\ [AutoNext]_autoVars => AutoTypeOK'
<1> SUFFICES ASSUME AutoTypeOK, [AutoNext]_autoVars
             PROVE  AutoTypeOK'
  OBVIOUS
<1> USE DEF AutoTypeOK, reqVars, checkVars
<1>1. CASE PilotChanges
  <2>1. fcuMode' \in Modes /\ excuse' \in SUBSET Requests
    <3>1. ASSUME NEW m \in Modes, Enter(m)
          PROVE  fcuMode' \in Modes /\ excuse' \in SUBSET Requests
      BY <3>1, EnterTypes
    <3>2. (\E m \in Modes : Enter(m)) \/ UNCHANGED <<fcuMode, excuse>>
      BY <1>1, Zenon DEF PilotChanges
    <3> QED
      BY <3>1, <3>2
  <2>2. fcuArmed' \in BOOLEAN
    BY <1>1, Zenon DEF PilotChanges
  <2>3. risen' \in SUBSET Checks
    <3>1. risen' = risen
          \/ risen' = risen \cup {t \in Checks : fcuArmed' /\ check[t] = "switch"}
      BY <1>1, Zenon DEF PilotChanges
    <3> QED
      BY <3>1
  <2>4. changes' \in 0 .. MaxChanges
    BY <1>1, ModesAssumption DEF PilotChanges
  <2>5. UNCHANGED <<ctxMode, told, modeEvents, asked, answer, check>>
    BY <1>1, Zenon DEF PilotChanges
  <2> QED
    BY <2>1, <2>2, <2>3, <2>4, <2>5
<1>2. ASSUME NEW m \in Modes, ServiceSetMode(m)
      PROVE  AutoTypeOK'
  <2>1. fcuMode' \in Modes /\ excuse' \in SUBSET Requests
    BY <1>2, EnterTypes DEF ServiceSetMode
  <2>2. changes' \in 0 .. MaxChanges
    BY <1>2, ModesAssumption DEF ServiceSetMode
  <2>3. UNCHANGED <<fcuArmed, ctxMode, told, modeEvents, asked, answer, checkVars>>
    BY <1>2, Zenon DEF ServiceSetMode
  <2> QED
    BY <2>1, <2>2, <2>3
<1>3. CASE TellMode
  BY <1>3 DEF TellMode
<1>4. CASE StoreMode
  BY <1>4 DEF StoreMode
<1>5. ASSUME NEW r \in Requests, NEW m \in Modes, AskMode(r, m)
      PROVE  AutoTypeOK'
  BY <1>5 DEF AskMode
<1>6. ASSUME NEW r \in Requests, SendMode(r)
      PROVE  AutoTypeOK'
  <2>1. fcuMode' \in Modes /\ excuse' \in SUBSET Requests
    BY <1>6, EnterTypes DEF SendMode
  <2> QED
    BY <1>6, <2>1 DEF SendMode
<1>7. ASSUME NEW r \in Requests, WaitForMode(r)
      PROVE  AutoTypeOK'
  BY <1>7 DEF WaitForMode
<1>8. ASSUME NEW r \in Requests, ModeTimeout(r)
      PROVE  AutoTypeOK'
  BY <1>8 DEF ModeTimeout
<1>9. CASE EngineEvent
  BY <1>9 DEF EngineEvent, OnModeEvent
<1>10. ASSUME NEW t \in Checks, AskPrearm(t)
       PROVE  AutoTypeOK'
  BY <1>10 DEF AskPrearm
<1>11. ASSUME NEW t \in Checks, CheckLooks(t)
       PROVE  AutoTypeOK'
  <2>1. check' = [check EXCEPT ![t] = "run"] \/ check' = [check EXCEPT ![t] = "switch"]
    BY <1>11, Zenon DEF CheckLooks, CheckGoes
  <2>2. UNCHANGED <<fcuMode, fcuArmed, changes, ctxMode, told, modeEvents, reqVars, risen>>
    BY <1>11, Zenon DEF CheckLooks, CheckGoes
  <2> QED
    BY <2>1, <2>2
<1>12. ASSUME NEW t \in Checks, CheckSwitches(t)
       PROVE  AutoTypeOK'
  <2>1. fcuMode' \in Modes /\ excuse' \in SUBSET Requests
    BY <1>12, EnterTypes, ModesAssumption DEF CheckSwitches
  <2> QED
    BY <1>12, <2>1 DEF CheckSwitches
<1>13. ASSUME NEW t \in Checks, CheckRuns(t)
       PROVE  AutoTypeOK'
  BY <1>13 DEF CheckRuns, CheckGoes
<1>16. CASE UNCHANGED autoVars
  BY <1>16 DEF autoVars
<1> QED
  BY <1>1, <1>2, <1>3, <1>4, <1>5, <1>6, <1>7, <1>8, <1>9, <1>10, <1>11, <1>12, <1>13,
     <1>16 DEF AutoNext

\* Telemetry, commands and requests that leave the queue and what is told alone.
LEMMA HeardKept ==
  ASSUME NEW m, Heard(m), UNCHANGED <<ctxMode, told, modeEvents>>
  PROVE  Heard(m)'
BY DEF Heard, Queued

\* A mode that is entered excuses the requests for any other.
LEMMA EnterFollowed ==
  ASSUME PendingFollowed, NEW m, Enter(m), UNCHANGED <<ctxMode, told, modeEvents, asked, answer>>
  PROVE  PendingFollowed'
<1> SUFFICES ASSUME NEW r \in Pending', r \notin excuse'
             PROVE  Followed(r)'
  BY DEF PendingFollowed
<1>1. r \in Pending /\ r \notin excuse /\ asked[r] = m
  BY DEF Pending, Enter
<1>2. Followed(r)
  BY <1>1 DEF PendingFollowed
<1>3. Heard(asked[r])'
  BY <1>2, HeardKept DEF Followed, Heard, Queued
<1> QED
  BY <1>1, <1>3 DEF Followed, Enter

\* A step that changes neither modes nor requests.
LEMMA QuietFollowed ==
  ASSUME PendingFollowed,
         UNCHANGED <<fcuMode, ctxMode, told, modeEvents, asked, answer, excuse>>
  PROVE  PendingFollowed'
BY DEF PendingFollowed, Pending, Followed, Heard, Queued

\* So does a command that is taken or refused.
LEMMA SetModeFollowed ==
  ASSUME PendingFollowed, NEW m, SetMode(m),
         UNCHANGED <<ctxMode, told, modeEvents, asked, answer>>
  PROVE  PendingFollowed'
BY EnterFollowed, QuietFollowed DEF SetMode

\* Telemetry: the mode is in the queue, or another one is on its way to ctx.mode.
LEMMA TellFollowed ==
  ASSUME AutoTypeOK, PendingFollowed, TellMode
  PROVE  PendingFollowed'
<1> SUFFICES ASSUME NEW r \in Pending', r \notin excuse'
             PROVE  Followed(r)'
  BY DEF PendingFollowed
<1> DEFINE n == Len(modeEvents)
<1>1. /\ told = {} /\ told' = {fcuMode}
      /\ modeEvents' = Append(modeEvents, fcuMode)
      /\ UNCHANGED <<fcuMode, ctxMode, asked, answer, excuse>>
  BY DEF TellMode, reqVars
<1>2. r \in Pending /\ r \notin excuse /\ Followed(r)
  BY <1>1 DEF Pending, PendingFollowed
<1>3. /\ n \in Nat /\ Len(modeEvents') = n + 1 /\ modeEvents'[n + 1] = fcuMode
      /\ \A i \in 1 .. n : modeEvents'[i] = modeEvents[i]
  BY <1>1 DEF AutoTypeOK
<1>4. Heard(asked[r])'
  <2>1. CASE Queued(asked[r])
    BY <2>1, <1>1, <1>3 DEF Queued, Heard
  <2>2. CASE asked[r] = fcuMode
    BY <2>2, <1>1, <1>3 DEF Queued, Heard
  <2>3. CASE asked[r] # fcuMode
    BY <2>3, <1>1 DEF Heard
  <2> QED
    BY <2>2, <2>3
<1> QED
  BY <1>1, <1>2, <1>4 DEF Followed

\* Storing another mode.
LEMMA StoreFollowed ==
  ASSUME PendingFollowed, StoreMode
  PROVE  PendingFollowed'
<1> SUFFICES ASSUME NEW r \in Pending', r \notin excuse'
             PROVE  Followed(r)'
  BY DEF PendingFollowed
<1>1. /\ ctxMode' \in told /\ told' = {}
      /\ UNCHANGED <<fcuMode, modeEvents, asked, answer, excuse>>
  BY DEF StoreMode, reqVars
<1>2. r \in Pending /\ r \notin excuse /\ Followed(r)
  BY <1>1 DEF Pending, PendingFollowed
<1>3. Heard(asked[r])'
  BY <1>1, <1>2 DEF Followed, Heard, Queued
<1> QED
  BY <1>1, <1>2, <1>3 DEF Followed

\* A new request waits for a mode that is neither in ctx.mode nor on its way there.
LEMMA AskFollowed ==
  ASSUME AutoTypeOK, PendingFollowed, NEW q \in Requests, NEW m \in Modes, AskMode(q, m)
  PROVE  PendingFollowed'
<1> SUFFICES ASSUME NEW r \in Pending', r \notin excuse'
             PROVE  Followed(r)'
  BY DEF PendingFollowed
<1>1. /\ answer[q] = "none" /\ asked' = [asked EXCEPT ![q] = m]
      /\ answer' = [answer EXCEPT ![q] = IF ctxMode = m THEN "ok" ELSE "sending"]
      /\ excuse' = IF m \in told THEN excuse \cup {q} ELSE excuse
      /\ UNCHANGED <<fcuMode, ctxMode, told, modeEvents>>
  BY DEF AskMode
<1>2. CASE r = q
  <2>1. answer'[q] = "sending" /\ asked'[q] = m /\ ctxMode # m /\ m \notin told
    BY <1>1, <1>2 DEF AutoTypeOK, Pending
  <2> QED
    BY <1>1, <1>2, <2>1 DEF Followed, Heard
<1>3. CASE r # q
  <2>1. r \in Pending /\ r \notin excuse /\ asked'[r] = asked[r] /\ answer'[r] = answer[r]
    BY <1>1, <1>3 DEF AutoTypeOK, Pending
  <2>2. Followed(r)
    BY <2>1 DEF PendingFollowed
  <2>3. Heard(asked[r])'
    BY <1>1, <2>1, <2>2 DEF Followed, Heard, Queued
  <2> QED
    BY <1>1, <2>1, <2>2, <2>3 DEF Followed
<1> QED
  BY <1>2, <1>3

\* A command that is taken puts the autopilot into the mode, one that is refused excuses.
LEMMA SendFollowed ==
  ASSUME AutoTypeOK, PendingFollowed, NEW q \in Requests, SendMode(q)
  PROVE  PendingFollowed'
<1> SUFFICES ASSUME NEW r \in Pending', r \notin excuse'
             PROVE  Followed(r)'
  BY DEF PendingFollowed
<1>1. /\ answer[q] = "sending" /\ answer' = [answer EXCEPT ![q] = "sent"]
      /\ UNCHANGED <<ctxMode, told, modeEvents, asked>>
      /\ Enter(asked[q]) \/ (fcuMode' = fcuMode /\ excuse' = excuse \cup {q})
  BY DEF SendMode
<1>2. r \in Pending
  BY <1>1 DEF AutoTypeOK, Pending
<1>3. r \notin excuse /\ (fcuMode' = asked[r] \/ (fcuMode' = fcuMode /\ r # q))
  BY <1>1, <1>2 DEF Enter
<1>4. Followed(r)
  BY <1>2, <1>3 DEF PendingFollowed
<1>5. Heard(asked[r])'
  BY <1>1, <1>4 DEF Followed, Heard, Queued
<1>6. answer'[r] \in {"sent", "waiting"} => fcuMode' = asked'[r]
  <2>1. CASE fcuMode' = asked[r]
    BY <2>1, <1>1
  <2>2. CASE fcuMode' = fcuMode /\ r # q
    BY <2>2, <1>1, <1>2, <1>4 DEF Followed, AutoTypeOK, Pending
  <2> QED
    BY <1>3, <2>1, <2>2
<1> QED
  BY <1>5, <1>6 DEF Followed

\* The command has been acknowledged and the request waits.
LEMMA WaitFollowed ==
  ASSUME AutoTypeOK, PendingFollowed, NEW q \in Requests, WaitForMode(q)
  PROVE  PendingFollowed'
<1> SUFFICES ASSUME NEW r \in Pending', r \notin excuse'
             PROVE  Followed(r)'
  BY DEF PendingFollowed
<1>1. /\ answer[q] = "sent" /\ answer' = [answer EXCEPT ![q] = "waiting"]
      /\ UNCHANGED <<fcuMode, ctxMode, told, modeEvents, asked, excuse>>
  BY DEF WaitForMode
<1>2. r \in Pending /\ Followed(r)
  BY <1>1 DEF AutoTypeOK, Pending, PendingFollowed
<1>3. Heard(asked[r])'
  BY <1>1, <1>2 DEF Followed, Heard, Queued
<1> QED
  BY <1>1, <1>2, <1>3 DEF Followed, AutoTypeOK, Pending

\* A request that has run into its timeout is pending no more.
LEMMA TimeoutFollowed ==
  ASSUME AutoTypeOK, PendingFollowed, NEW q \in Requests, ModeTimeout(q)
  PROVE  PendingFollowed'
<1> SUFFICES ASSUME NEW r \in Pending', r \notin excuse'
             PROVE  Followed(r)'
  BY DEF PendingFollowed
<1>1. /\ answer' = [answer EXCEPT ![q] = "late"]
      /\ UNCHANGED <<fcuMode, ctxMode, told, modeEvents, asked, excuse>>
  BY DEF ModeTimeout
<1>2. r \in Pending /\ r # q /\ Followed(r)
  BY <1>1 DEF AutoTypeOK, Pending, PendingFollowed
<1>3. Heard(asked[r])'
  BY <1>1, <1>2 DEF Followed, Heard, Queued
<1> QED
  BY <1>1, <1>2, <1>3 DEF Followed, AutoTypeOK

\* An event answers the requests for its mode; the others' events stay in the queue.
LEMMA EventFollowed ==
  ASSUME AutoTypeOK, PendingFollowed, EngineEvent
  PROVE  PendingFollowed'
<1> SUFFICES ASSUME NEW r \in Pending', r \notin excuse'
             PROVE  Followed(r)'
  BY DEF PendingFollowed
<1> DEFINE m == Head(modeEvents)
           n == Len(modeEvents)
<1>1. /\ EngineFree /\ modeEvents # << >> /\ modeEvents' = Tail(modeEvents)
      /\ answer' = [q \in Requests |-> IF answer[q] = "waiting" /\ asked[q] = m
                                       THEN "ok" ELSE answer[q]]
      /\ UNCHANGED <<fcuMode, ctxMode, told, asked, excuse>>
  BY DEF EngineEvent, OnModeEvent, AnsweredBy
<1>2. r \in Requests /\ answer'[r] = answer[r] /\ r \in Pending
  BY <1>1 DEF Pending
<1>3. answer[r] = "waiting" /\ asked[r] # m
  BY <1>1, <1>2 DEF Pending, EngineFree
<1>4. Followed(r)
  BY <1>1, <1>2 DEF PendingFollowed
<1>5. /\ n \in Nat /\ n # 0 /\ m = modeEvents[1] /\ Len(modeEvents') = n - 1
      /\ \A i \in 1 .. n - 1 : modeEvents'[i] = modeEvents[i + 1]
  BY <1>1 DEF AutoTypeOK
<1>6. Queued(asked[r]) => Queued(asked[r])'
  <2> SUFFICES ASSUME NEW i \in 1 .. n, modeEvents[i] = asked[r]
               PROVE  Queued(asked[r])'
    BY DEF Queued
  <2>1. i # 1
    BY <1>3, <1>5
  <2>2. i - 1 \in 1 .. n - 1 /\ modeEvents'[i - 1] = asked'[r]
    BY <1>1, <1>5, <2>1
  <2> QED
    BY <1>5, <2>2 DEF Queued
<1>7. Heard(asked[r])'
  BY <1>1, <1>4, <1>6 DEF Followed, Heard
<1> QED
  BY <1>1, <1>2, <1>4, <1>7 DEF Followed

\* Only a timeout makes a request late, and no excuse is withdrawn.
LEMMA LateKept ==
  ASSUME TimeoutExplained, excuse \subseteq excuse',
         \A r \in Requests : answer'[r] = "late" => answer[r] = "late"
  PROVE  TimeoutExplained'
BY DEF TimeoutExplained

\* When telemetry and the engine have settled, a request still waiting has an excuse.
LEMMA LateExcused ==
  ASSUME AutoTypeOK, PendingFollowed, TimeoutExplained, NEW q \in Requests, ModeTimeout(q)
  PROVE  TimeoutExplained'
<1>1. /\ answer[q] = "waiting" /\ modeEvents = << >> /\ told = {} /\ ctxMode = fcuMode
      /\ answer' = [answer EXCEPT ![q] = "late"] /\ excuse' = excuse
  BY DEF ModeTimeout
<1>2. q \in excuse
  <2> SUFFICES ASSUME q \notin excuse PROVE FALSE
    OBVIOUS
  <2>1. Followed(q)
    BY <1>1 DEF PendingFollowed, Pending
  <2>2. Heard(asked[q]) /\ fcuMode = asked[q]
    BY <1>1, <2>1 DEF Followed
  <2>3. Queued(asked[q])
    BY <1>1, <2>2 DEF Heard
  <2> QED
    BY <1>1, <2>3 DEF Queued
<1> QED
  BY <1>1, <1>2 DEF TimeoutExplained, AutoTypeOK

\* Every step keeps the invariant.
LEMMA AutoInvNext == AutoInv /\ [AutoNext]_autoVars => AutoInv'
<1> SUFFICES ASSUME AutoTypeOK, PendingFollowed, TimeoutExplained, [AutoNext]_autoVars
             PROVE  AutoInv'
  BY DEF AutoInv
<1> SUFFICES PendingFollowed' /\ TimeoutExplained'
  BY AutoTypesNext DEF AutoInv
<1>1. CASE PilotChanges
  <2>1. UNCHANGED <<ctxMode, told, modeEvents, asked, answer>>
    BY <1>1 DEF PilotChanges
  <2>2. (\E m \in Modes : Enter(m)) \/ UNCHANGED <<fcuMode, excuse>>
    BY <1>1, Zenon DEF PilotChanges
  <2>3. PendingFollowed'
    BY <2>1, <2>2, EnterFollowed, QuietFollowed
  <2>4. excuse \subseteq excuse'
    BY <2>2 DEF Enter
  <2> QED
    BY <2>1, <2>3, <2>4, LateKept
<1>2. ASSUME NEW m \in Modes, ServiceSetMode(m)
      PROVE  PendingFollowed' /\ TimeoutExplained'
  <2>1. SetMode(m) /\ UNCHANGED <<ctxMode, told, modeEvents, asked, answer>>
    BY <1>2 DEF ServiceSetMode
  <2>2. excuse \subseteq excuse'
    BY <2>1 DEF SetMode, Enter
  <2> QED
    BY <2>1, <2>2, SetModeFollowed, LateKept
<1>3. CASE TellMode
  <2>1. UNCHANGED <<answer, excuse>>
    BY <1>3 DEF TellMode, reqVars
  <2> QED
    BY <1>3, <2>1, TellFollowed, LateKept
<1>4. CASE StoreMode
  <2>1. UNCHANGED <<answer, excuse>>
    BY <1>4 DEF StoreMode, reqVars
  <2> QED
    BY <1>4, <2>1, StoreFollowed, LateKept
<1>5. ASSUME NEW r \in Requests, NEW m \in Modes, AskMode(r, m)
      PROVE  PendingFollowed' /\ TimeoutExplained'
  <2>1. excuse \subseteq excuse'
        /\ \A q \in Requests : answer'[q] = "late" => answer[q] = "late"
    BY <1>5 DEF AskMode, AutoTypeOK
  <2> QED
    BY <1>5, <2>1, AskFollowed, LateKept
<1>6. ASSUME NEW r \in Requests, SendMode(r)
      PROVE  PendingFollowed' /\ TimeoutExplained'
  <2>1. excuse \subseteq excuse'
        /\ \A q \in Requests : answer'[q] = "late" => answer[q] = "late"
    BY <1>6 DEF SendMode, Enter, AutoTypeOK
  <2> QED
    BY <1>6, <2>1, SendFollowed, LateKept
<1>7. ASSUME NEW r \in Requests, WaitForMode(r)
      PROVE  PendingFollowed' /\ TimeoutExplained'
  <2>1. excuse' = excuse
        /\ \A q \in Requests : answer'[q] = "late" => answer[q] = "late"
    BY <1>7 DEF WaitForMode, AutoTypeOK
  <2> QED
    BY <1>7, <2>1, WaitFollowed, LateKept
<1>8. ASSUME NEW r \in Requests, ModeTimeout(r)
      PROVE  PendingFollowed' /\ TimeoutExplained'
  BY <1>8, TimeoutFollowed, LateExcused
<1>9. CASE EngineEvent
  <2>1. excuse' = excuse
        /\ \A q \in Requests : answer'[q] = "late" => answer[q] = "late"
    BY <1>9 DEF EngineEvent, OnModeEvent
  <2> QED
    BY <1>9, <2>1, EventFollowed, LateKept
<1>10. ASSUME NEW t \in Checks, CheckSwitches(t)
       PROVE  PendingFollowed' /\ TimeoutExplained'
  <2>1. SetMode(Guided) /\ UNCHANGED <<ctxMode, told, modeEvents, asked, answer>>
    BY <1>10 DEF CheckSwitches
  <2>2. excuse \subseteq excuse'
    BY <2>1 DEF SetMode, Enter
  <2> QED
    BY <2>1, <2>2, SetModeFollowed, LateKept
<1>11. CASE \/ \E t \in Checks : AskPrearm(t) \/ CheckLooks(t) \/ CheckRuns(t)
            \/ UNCHANGED autoVars
  <2>1. UNCHANGED <<fcuMode, ctxMode, told, modeEvents, asked, answer, excuse>>
    BY <1>11 DEF AskPrearm, CheckLooks, CheckRuns, autoVars, reqVars
  <2> QED
    BY <2>1, QuietFollowed, LateKept
<1> QED
  BY <1>1, <1>2, <1>3, <1>4, <1>5, <1>6, <1>7, <1>8, <1>9, <1>10, <1>11 DEF AutoNext

\* A set_mode request that times out was refused, overtaken by somebody else's change of
\* mode, or made between the event of that mode and its storing: no event is missed.
THEOREM TimeoutsExplained == AutoSpec => []TimeoutExplained
<1>1. AutoInit => AutoInv
  <2>1. AutoInit => PendingFollowed /\ TimeoutExplained
    BY DEF AutoInit, PendingFollowed, Pending, TimeoutExplained
  <2> QED
    BY <2>1, AutoTypesInit DEF AutoInv
<1>2. AutoInv => TimeoutExplained
  BY DEF AutoInv
<1> QED
  BY <1>1, <1>2, AutoInvNext, PTL DEF AutoSpec

\* A task that is to switch the mode has found the vehicle disarmed: if it is armed now, it
\* was armed since.
WindowKnown ==
  /\ AutoTypeOK
  /\ fcuArmed => \A t \in Checks : check[t] = "switch" => t \in risen

\* The task of a prearm request switches the mode of an armed vehicle only when it was
\* armed between that task's look and its command.
THEOREM SwitchesInWindow == AutoSpec => SwitchedOnlyInWindow
<1>1. AutoInit => WindowKnown
  <2>1. AutoInit => ~fcuArmed
    BY Zenon DEF AutoInit
  <2> QED
    BY <2>1, AutoTypesInit DEF WindowKnown
<1>2. WindowKnown /\ [AutoNext]_autoVars => WindowKnown'
  <2> SUFFICES ASSUME WindowKnown, [AutoNext]_autoVars, fcuArmed', NEW t \in Checks,
                      check'[t] = "switch"
               PROVE  t \in risen'
    BY AutoTypesNext DEF WindowKnown
  <2>1. CASE PilotChanges
    <3>1. check' = check
      BY <2>1, Zenon DEF PilotChanges
    <3>2. UNCHANGED <<fcuArmed, risen>>
          \/ risen' = risen \cup {s \in Checks : fcuArmed' /\ check[s] = "switch"}
      BY <2>1, Zenon DEF PilotChanges
    <3> QED
      BY <3>1, <3>2 DEF WindowKnown
  <2>2. ASSUME NEW s \in Checks, CheckLooks(s)
        PROVE  t \in risen'
    <3>1. UNCHANGED <<fcuArmed, risen>> /\ check' = [check EXCEPT ![s] = "run"]
      BY <2>2, Zenon DEF CheckLooks, CheckGoes
    <3> QED
      BY <3>1 DEF WindowKnown, AutoTypeOK
  <2>3. ASSUME NEW s \in Checks, CheckSwitches(s)
        PROVE  t \in risen'
    <3>1. UNCHANGED fcuArmed /\ check' = [check EXCEPT ![s] = "run"] /\ risen' = risen \ {s}
      BY <2>3, Zenon DEF CheckSwitches
    <3> QED
      BY <3>1 DEF WindowKnown, AutoTypeOK
  <2>4. ASSUME NEW s \in Checks, AskPrearm(s)
        PROVE  t \in risen'
    <3>1. UNCHANGED <<fcuArmed, risen>> /\ check' = [check EXCEPT ![s] = "posted"]
      BY <2>4, Zenon DEF AskPrearm
    <3> QED
      BY <3>1 DEF WindowKnown, AutoTypeOK
  <2>5. ASSUME NEW s \in Checks, CheckRuns(s)
        PROVE  t \in risen'
    <3>1. UNCHANGED <<fcuArmed, risen>> /\ check' = [check EXCEPT ![s] = "idle"]
      BY <2>5, Zenon DEF CheckRuns, CheckGoes
    <3> QED
      BY <3>1 DEF WindowKnown, AutoTypeOK
  <2>6. CASE UNCHANGED <<check, risen, fcuArmed>>
    BY <2>6 DEF WindowKnown
  <2>7. \/ PilotChanges
        \/ \E s \in Checks : CheckLooks(s) \/ CheckSwitches(s) \/ AskPrearm(s) \/ CheckRuns(s)
        \/ UNCHANGED <<check, risen, fcuArmed>>
    BY DEF AutoNext, ServiceSetMode, TellMode, StoreMode, AskMode, SendMode, WaitForMode,
           ModeTimeout, EngineEvent, autoVars, checkVars
  <2> QED
    BY <2>1, <2>2, <2>3, <2>4, <2>5, <2>6, <2>7
<1>3. WindowKnown => \A t \in Checks : CheckSwitches(t) /\ fcuArmed => t \in risen
  BY DEF WindowKnown, CheckSwitches
<1> QED
  BY <1>1, <1>2, <1>3, PTL DEF AutoSpec, SwitchedOnlyInWindow
=============================================================================
