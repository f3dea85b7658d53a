------------------------------ MODULE Autopilot ------------------------------
(***************************************************************************)
(* The flight mode, told by telemetry and set by commands: the telemetry   *)
(* callback (features/mavlink/feature.hpp), the set_mode and prearm        *)
(* requests of the engine (features/control/event_listener.cpp), the mode  *)
(* service of the mavros bridge, and MavsdkDrone, which sends the commands *)
(* and looks at the telemetry of MAVSDK.  Telemetry callbacks, the engine, *)
(* the service and the task of a prearm request run in their own threads.  *)
(*                                                                         *)
(* The autopilot is external: it takes a command or refuses it, and its    *)
(* pilot may change mode and arm at any time.                              *)
(*                                                                         *)
(* Operators named XBut... are faulty variants of X.                       *)
(***************************************************************************)
EXTENDS Naturals, Sequences

CONSTANTS
  Modes,      \* flight modes, Guided (FlightMode::Offboard) among them
  Guided,
  Requests,   \* set_mode requests
  Checks,     \* prearm tasks, as many as run at once
  MaxChanges  \* bound: mode and arm changes by anyone but the requests

ASSUME ModesAssumption == Guided \in Modes /\ MaxChanges \in Nat

VARIABLES
  fcuMode,    \* the mode the autopilot is in, which MAVSDK's telemetry() returns
  fcuArmed,   \* armed or in the air
  changes,
  ctxMode,    \* ctx.mode
  told,       \* {}, or the mode dispatched by the callback and not stored yet
  modeEvents, \* FlightModeEvents in the engine's queue (their cur)
  asked,      \* the mode of each request
  answer,     \* "none", "sending", "sent", "waiting", "ok" or "late"
  excuse,     \* requests the autopilot did not follow, or whose event had gone by
  check,      \* where each task is: "idle", "posted", "switch", "run"
  risen       \* tasks that found the vehicle disarmed and are to switch its mode
              \* after it was armed (history)

reqVars == <<asked, answer, excuse>>
checkVars == <<check, risen>>
autoVars == <<fcuMode, fcuArmed, changes, ctxMode, told, modeEvents, reqVars, checkVars>>

AutoTypeOK ==
  /\ fcuMode \in Modes /\ ctxMode \in Modes /\ told \in SUBSET Modes
  /\ fcuArmed \in BOOLEAN /\ risen \in SUBSET Checks
  /\ changes \in 0 .. MaxChanges
  /\ modeEvents \in Seq(Modes)
  /\ asked \in [Requests -> Modes] /\ excuse \in SUBSET Requests
  /\ answer \in [Requests -> {"none", "sending", "sent", "waiting", "ok", "late"}]
  /\ check \in [Checks -> {"idle", "posted", "switch", "run"}]

AutoInit ==
  /\ fcuMode \in Modes /\ ctxMode = fcuMode
  /\ fcuArmed = FALSE /\ changes = 0
  /\ told = {} /\ modeEvents = << >>
  /\ asked = [r \in Requests |-> fcuMode]
  /\ answer = [r \in Requests |-> "none"]
  /\ excuse = {}
  /\ check = [t \in Checks |-> "idle"] /\ risen = {}

Pending == {r \in Requests : answer[r] \in {"sending", "sent", "waiting"}}
EngineFree == \A r \in Requests : answer[r] \notin {"sending", "sent"}

-----------------------------------------------------------------------------
(* The autopilot.                                                          *)

\* It enters mode m: whoever waits for another mode is excused.
Enter(m) ==
  /\ fcuMode' = m
  /\ excuse' = excuse \cup {r \in Pending : asked[r] # m}

\* A mode command is taken or refused; its callers below ignore the result.
SetMode(m) == Enter(m) \/ UNCHANGED <<fcuMode, excuse>>

PilotChanges ==
  /\ changes < MaxChanges /\ changes' = changes + 1
  /\ \/ \E m \in Modes : Enter(m) /\ UNCHANGED <<fcuArmed, risen>>
     \/ /\ fcuArmed' = ~fcuArmed
        /\ risen' = risen \cup {t \in Checks : fcuArmed' /\ check[t] = "switch"}
        /\ UNCHANGED <<fcuMode, excuse>>
  /\ UNCHANGED <<ctxMode, told, modeEvents, asked, answer, check>>

\* set_mode of the mavros bridge.
ServiceSetMode(m) ==
  /\ changes < MaxChanges /\ changes' = changes + 1
  /\ SetMode(m)
  /\ UNCHANGED <<fcuArmed, ctxMode, told, modeEvents, asked, answer, checkVars>>

-----------------------------------------------------------------------------
(* Telemetry: the event is dispatched before the mode is stored.           *)

TellMode ==
  /\ told = {} /\ fcuMode # ctxMode
  /\ modeEvents' = Append(modeEvents, fcuMode)
  /\ told' = {fcuMode}
  /\ UNCHANGED <<fcuMode, fcuArmed, changes, ctxMode, reqVars, checkVars>>

StoreMode ==
  /\ \E m \in told : ctxMode' = m
  /\ told' = {}
  /\ UNCHANGED <<fcuMode, fcuArmed, changes, modeEvents, reqVars, checkVars>>

-----------------------------------------------------------------------------
(* set_mode in the engine's thread, which is blocked until the autopilot   *)
(* has acknowledged the command; only then does the request wait.          *)

AskMode(r, m) ==
  /\ EngineFree /\ answer[r] = "none"
  /\ asked' = [asked EXCEPT ![r] = m]
  /\ answer' = [answer EXCEPT ![r] = IF ctxMode = m THEN "ok" ELSE "sending"]
  /\ excuse' = IF m \in told THEN excuse \cup {r} ELSE excuse
  /\ UNCHANGED <<fcuMode, fcuArmed, changes, ctxMode, told, modeEvents, checkVars>>

SendMode(r) ==
  /\ answer[r] = "sending"
  /\ \/ Enter(asked[r])
     \/ UNCHANGED fcuMode /\ excuse' = excuse \cup {r}
  /\ answer' = [answer EXCEPT ![r] = "sent"]
  /\ UNCHANGED <<fcuArmed, changes, ctxMode, told, modeEvents, asked, checkVars>>

WaitForMode(r) ==
  /\ answer[r] = "sent"
  /\ answer' = [answer EXCEPT ![r] = "waiting"]
  /\ UNCHANGED <<fcuMode, fcuArmed, changes, ctxMode, told, modeEvents, asked, excuse,
                 checkVars>>

AnsweredBy(r, m) == answer[r] = "waiting" /\ asked[r] = m

\* The first waiter consumes the event.
OnModeEventButOne(m) ==
  LET first == CHOOSE r \in Requests : AnsweredBy(r, m) \/ \A q \in Requests : ~AnsweredBy(q, m)
  IN  answer' = [answer EXCEPT ![first] = IF AnsweredBy(first, m) THEN "ok" ELSE @]

OnModeEvent(m) ==
  answer' = [r \in Requests |-> IF AnsweredBy(r, m) THEN "ok" ELSE answer[r]]

EngineEvent ==
  /\ EngineFree /\ modeEvents # << >>
  /\ OnModeEvent(Head(modeEvents))
  /\ modeEvents' = Tail(modeEvents)
  /\ UNCHANGED <<fcuMode, fcuArmed, changes, ctxMode, told, asked, excuse, checkVars>>

\* After 2000 ms; telemetry and the engine have settled by then.
ModeTimeout(r) ==
  /\ answer[r] = "waiting"
  /\ EngineFree /\ modeEvents = << >> /\ told = {} /\ ctxMode = fcuMode
  /\ answer' = [answer EXCEPT ![r] = "late"]
  /\ UNCHANGED <<fcuMode, fcuArmed, changes, ctxMode, told, modeEvents, asked, excuse,
                 checkVars>>

-----------------------------------------------------------------------------
(* prearm: run_prearm_checks in a task of its own.  The engine answers the *)
(* request by a status text, a healthy status or after 1000 ms, which      *)
(* changes nothing else and is left out; the task outlives that, so the    *)
(* tasks of several requests may overlap.                                  *)

\* ctx.sensor_health is stored nowhere, so every request posts its task.
AskPrearm(t) ==
  /\ EngineFree /\ check[t] = "idle"
  /\ check' = [check EXCEPT ![t] = "posted"]
  /\ UNCHANGED <<fcuMode, fcuArmed, changes, ctxMode, told, modeEvents, reqVars, risen>>

\* The task goes on as c.
CheckGoes(t, c) == check' = [check EXCEPT ![t] = c] /\ UNCHANGED risen

CheckLooksButAlways(t) ==
  /\ check[t] = "posted"
  /\ CheckGoes(t, "switch")
  /\ UNCHANGED <<fcuMode, fcuArmed, changes, ctxMode, told, modeEvents, reqVars>>

CheckLooks(t) ==
  /\ check[t] = "posted"
  /\ CheckGoes(t, IF fcuArmed THEN "run" ELSE "switch")
  /\ UNCHANGED <<fcuMode, fcuArmed, changes, ctxMode, told, modeEvents, reqVars>>

CheckSwitches(t) ==
  /\ check[t] = "switch"
  /\ SetMode(Guided)
  /\ check' = [check EXCEPT ![t] = "run"] /\ risen' = risen \ {t}
  /\ UNCHANGED <<fcuArmed, changes, ctxMode, told, modeEvents, asked, answer>>

\* After a switch it polls for the mode for two seconds and gives up when that never comes;
\* then it asks for the checks.  Neither changes anything else.
CheckRuns(t) ==
  /\ check[t] = "run"
  /\ CheckGoes(t, "idle")
  /\ UNCHANGED <<fcuMode, fcuArmed, changes, ctxMode, told, modeEvents, reqVars>>

AutoNext ==
  \/ PilotChanges \/ (\E m \in Modes : ServiceSetMode(m))
  \/ TellMode \/ StoreMode
  \/ \E r \in Requests :
       \/ \E m \in Modes : AskMode(r, m)
       \/ SendMode(r) \/ WaitForMode(r) \/ ModeTimeout(r)
  \/ EngineEvent
  \/ \E t \in Checks :
       \/ AskPrearm(t) \/ CheckLooks(t) \/ CheckSwitches(t) \/ CheckRuns(t)

AutoSpec == AutoInit /\ [][AutoNext]_autoVars

-----------------------------------------------------------------------------
(* Properties.                                                             *)

\* A set_mode request runs into its timeout for three reasons only: the autopilot refused
\* the command, somebody else changed the mode meanwhile, or the telemetry callback was
\* just between telling the engine of that very mode and storing it.  No event is missed
\* because the waiter comes after the command: the engine itself was blocked by it.
TimeoutExplained == \A r \in Requests : answer[r] = "late" => r \in excuse

\* The task of a prearm request switches the mode of an armed vehicle only when it was
\* armed after that task had looked, between two calls of run_prearm_checks
\* (mavsdk_drone.cpp:97 and 103); a vehicle that was in the air before is left alone,
\* whatever other tasks and requests do.
SwitchedOnlyInWindow ==
  [][\A t \in Checks : CheckSwitches(t) /\ fcuArmed => t \in risen]_autoVars

\* What the comment there (94-96) says: the mode is switched on the ground and disarmed
\* only.
PrearmLeavesFlying ==
  [][\A t \in Checks : CheckSwitches(t) /\ fcuArmed => UNCHANGED fcuMode]_autoVars
=============================================================================
