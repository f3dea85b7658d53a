-------------------------------- MODULE Tracker --------------------------------
(***************************************************************************)
(* ThreadedTracker and MoveBaseTracker (include/features/tracker), the     *)
(* thread runner they inherit (include/utils/thread_runner.hpp) and the    *)
(* speed-limit token of include/core/base_tracker.hpp as                   *)
(* AlgoEventListener uses it.                                              *)
(*                                                                         *)
(* Two threads: the engine thread (engine) gives commands, adds and        *)
(* removes speed limits and destroys the tracker; the control thread       *)
(* (loop) runs on_step.  on_step holds data_mutex_ only to take up the     *)
(* pending command and to say that a path is finished: the rest runs       *)
(* beside the engine thread.  So apply_current_waypoint, where it is       *)
(* called by the one thread under the lock and by the other without it, is *)
(* three steps: it reads the index and asks the callbacks, it writes the   *)
(* target, it publishes the goal.  Positions are left out: whether the     *)
(* vehicle has arrived is a free choice at every step.  A target is a      *)
(* record of the command it came from and the waypoint of its path, and is *)
(* written at once (in the code, number by number).                        *)
(*                                                                         *)
(* An operator named XBut... is operator X with a plausible bug in it.     *)
(***************************************************************************)
EXTENDS Integers

CONSTANTS
  MaxCmds,    \* bound: commands given in one behaviour (also their ids)
  MaxPath,    \* bound: waypoints in one send_pos_cmd
  MaxLimits,  \* bound: speed limits registered in one behaviour (cb_seq_)
  Timeout,    \* command_timeout_sec, in ticks
  UsesMoveBase \* MoveBaseTracker: waypoints are goals published to move_base

ASSUME MaxCmdsAssumption == MaxCmds \in Nat
ASSUME MaxPathAssumption == MaxPath \in Nat
ASSUME MaxLimitsAssumption == MaxLimits \in Nat
ASSUME TimeoutAssumption == Timeout \in Nat
ASSUME UsesMoveBaseAssumption == UsesMoveBase \in BOOLEAN

VARIABLES
  running,     \* is_running_
  terminating, \* is_terminating_
  loop,        \* where the control thread is
  engine,      \* where the engine thread is
  pending,     \* pending_cmd_ (id 0: its mode is NONE)
  mode,        \* current_mode_
  route,       \* target_waypoints_: the command it came with and its length
  idx,         \* current_wp_idx_
  finished,    \* pos_cmd_finished_
  cur,         \* the command last taken up by apply_pending_command
  aim,         \* what target_pose_enu_ and target_vel_ hold
  age,         \* now - last_command_time_, no further than Timeout + 1
  limited,     \* fb_vel_limit_xy_ is that of a speed limit
  limits,      \* speed_limit_cbs_: the registered ids
  seq,         \* cb_seq_
  token,       \* id in ctx.speed_limit_token, or -1
  seen,        \* on_step: did apply_current_waypoint find a limit
  out,         \* on_step: the target its command was computed from
  sent,        \* what runtime_ was last given
  goal,        \* the move_base goal published and not cancelled
  given,       \* commands given so far
  refreshed,   \* a refresh under way: the waypoint it has read
  found,       \* and whether a callback gave it a limit
  after,       \* what the engine thread does when it is complete
  strayed      \* what was given a waypoint no longer followed ("aim", "goal"),
               \* and "waypoint" when aim was given one already passed

cmdVars   == <<pending, given>>
followVars == <<mode, route, idx, finished, cur, age>>
limitVars == <<limits, seq, token>>
fieldVars == <<aim, limited, goal>>
threadVars == <<running, terminating, engine>>
refreshVars == <<refreshed, found, after>>
vars == <<running, terminating, loop, engine, pending, mode, route, idx, finished,
          cur, aim, age, limited, limits, seq, token, seen, out, sent, goal,
          given, refreshed, found, after, strayed>>

-----------------------------------------------------------------------------
Cmds == 1..MaxCmds

\* A target: waypoint wp of command id; wp = -1 for a velocity command.
Targets == [id : 0..MaxCmds, wp : -1..MaxPath]
Nothing == [id |-> 0, wp |-> -1]  \* Eigen's Zero, and no goal
Pending == [id : 0..MaxCmds, kind : {"POSITION", "VELOCITY"}, len : 0..MaxPath]
NoPending == [id |-> 0, kind |-> "VELOCITY", len |-> 0]

Flags ==
  /\ running \in BOOLEAN /\ terminating \in BOOLEAN /\ finished \in BOOLEAN
  /\ limited \in BOOLEAN /\ seen \in BOOLEAN /\ found \in BOOLEAN

Data ==
  /\ loop \in {"wait", "test", "apply", "step", "activate", "publish", "emit", "halt",
                "done"}
  /\ engine \in {"setup", "idle", "cancelled", "adding", "refreshing", "publishing",
                 "stopping", "destroying", "joining", "gone"}
  /\ pending \in Pending
  /\ mode \in {"NONE", "POSITION", "VELOCITY"}
  /\ route \in [id : 0..MaxCmds, len : 0..MaxPath]
  /\ idx \in 0..MaxPath
  /\ cur \in 0..MaxCmds
  /\ aim \in Targets /\ out \in Targets /\ sent \in Targets /\ goal \in Targets
  /\ age \in 0..(Timeout + 1)
  /\ limits \subseteq 0..(MaxLimits - 1)
  /\ seq \in 0..MaxLimits
  /\ token \in -1..(MaxLimits - 1)
  /\ given \in 0..MaxCmds
  /\ refreshed \in Targets /\ after \in {"idle", "adding"}
  /\ strayed \subseteq {"aim", "goal", "waypoint"}

TypeOK == Flags /\ Data

Init ==
  /\ running = FALSE /\ terminating = FALSE
  /\ loop = "wait" /\ engine = "setup"
  /\ pending = NoPending /\ mode = "NONE"
  /\ route = [id |-> 0, len |-> 0] /\ idx = 0
  /\ finished = TRUE /\ cur = 0
  /\ aim = Nothing /\ out = Nothing /\ sent = Nothing /\ goal = Nothing
  /\ age = 0 /\ limited = FALSE /\ seen = FALSE
  /\ limits = {} /\ seq = 0 /\ token = -1
  /\ given = 0 /\ strayed = {}
  /\ refreshed = Nothing /\ found = FALSE /\ after = "idle"

-----------------------------------------------------------------------------
(* What both threads do to the target fields.                              *)

Waypoint(r, i) == [id |-> r.id, wp |-> i]

\* on_waypoint_activated publishes the waypoint, for MoveBaseTracker.
Published(t) == IF UsesMoveBase THEN t ELSE goal

\* apply_current_waypoint for waypoint i of path r; lim: a callback gave a limit.
ApplyWaypoint(r, i, lim) ==
  /\ aim' = Waypoint(r, i)
  /\ limited' = lim
  /\ goal' = Published(Waypoint(r, i))

\* on_cancel_navigation does nothing for ThreadedTracker, where no goal exists.
Cancelled == Nothing

\* The engine thread holds data_mutex_ while it refreshes.
LockFree == engine \notin {"refreshing", "publishing"}

-----------------------------------------------------------------------------
(* The engine thread.                                                      *)

Start ==
  /\ engine = "setup" /\ engine' = "idle"
  /\ running' = TRUE
  /\ UNCHANGED <<terminating, loop, cmdVars, followVars, fieldVars, limitVars,
                 seen, out, sent, refreshVars, strayed>>

Submit(p) == pending' = p /\ given' = given + 1

SendPos(n) ==
  /\ engine = "idle" /\ given < MaxCmds
  /\ Submit([id |-> given + 1, kind |-> "POSITION", len |-> n])
  /\ UNCHANGED <<threadVars, loop, followVars, fieldVars, limitVars, seen, out,
                 sent, refreshVars, strayed>>

SendVel ==
  /\ engine = "idle" /\ given < MaxCmds
  /\ Submit([id |-> given + 1, kind |-> "VELOCITY", len |-> 0])
  /\ UNCHANGED <<threadVars, loop, followVars, fieldVars, limitVars, seen, out,
                 sent, refreshVars, strayed>>

\* send_zero_vel_cmd cancels outside the lock, then is a velocity command.
SendZeroCancel ==
  /\ engine = "idle" /\ given < MaxCmds
  /\ goal' = Cancelled /\ engine' = "cancelled"
  /\ UNCHANGED <<running, terminating, loop, cmdVars, followVars, aim, limited,
                 limitVars, seen, out, sent, refreshVars, strayed>>

SendZeroVel ==
  /\ engine = "cancelled" /\ engine' = "idle"
  /\ Submit([id |-> given + 1, kind |-> "VELOCITY", len |-> 0])
  /\ UNCHANGED <<running, terminating, loop, followVars, fieldVars, limitVars,
                 seen, out, sent, refreshVars, strayed>>

\* add_ and remove_speed_limit_cb apply the waypoint of the last path again,
\* whether it is still followed or not; then the engine thread goes on as e.
\* The index is read and the callbacks are asked first.
BeginRefresh(e) ==
  IF idx < route.len
  THEN /\ engine' = "refreshing" /\ after' = e
       /\ refreshed' = Waypoint(route, idx) /\ found' = (limits' # {})
  ELSE engine' = e /\ UNCHANGED refreshVars

\* Meanwhile the control thread may have advanced, or left the path.
Strays ==
  IF mode # "POSITION" THEN strayed \cup {"aim"}
  ELSE IF refreshed = Waypoint(route, idx) THEN strayed \ {"waypoint"}
  ELSE strayed \cup {"waypoint"}

Refresh ==
  /\ engine = "refreshing" /\ engine' = "publishing"
  /\ aim' = refreshed /\ limited' = found /\ strayed' = Strays
  /\ UNCHANGED <<running, terminating, loop, cmdVars, followVars, goal, limitVars,
                 seen, out, sent, refreshVars>>

\* The goal is filled from target_pose_enu_ itself, which the control thread
\* may have written in between.
PublishRefreshed ==
  /\ engine = "publishing" /\ engine' = after
  /\ \E t \in {refreshed, aim} : goal' = Published(t)
  /\ strayed' = IF mode = "POSITION" THEN strayed ELSE strayed \cup {"goal"}
  /\ UNCHANGED <<running, terminating, loop, cmdVars, followVars, aim, limited,
                 limitVars, seen, out, sent, refreshVars>>

RemoveLimitButEntryKept(id, e) ==
  IF id \in limits
  THEN UNCHANGED limits /\ BeginRefresh(e)
  ELSE engine' = e /\ UNCHANGED <<limits, refreshVars>>

RemoveLimit(id, e) ==
  IF id \in limits
  THEN limits' = limits \ {id} /\ BeginRefresh(e)
  ELSE engine' = e /\ UNCHANGED <<limits, refreshVars>>

\* SpeedLimitToken::release, by the next token moved onto it or by disabling.
ReleaseToken(e) == RemoveLimit(token, e) /\ token' = -1

\* EnableDetectEvent: the new token replaces the old one, which unregisters
\* itself, then the callback is added and its id kept.
EnableDetect ==
  /\ engine = "idle" /\ seq < MaxLimits
  /\ ReleaseToken("adding")
  /\ UNCHANGED <<running, terminating, loop, cmdVars, followVars, fieldVars, seq, seen,
                 out, sent, strayed>>

\* Only the engine thread reads the token's id, after the call.
AddLimit ==
  /\ engine = "adding"
  /\ limits' = limits \cup {seq} /\ seq' = seq + 1 /\ token' = seq
  /\ BeginRefresh("idle")
  /\ UNCHANGED <<running, terminating, loop, cmdVars, followVars, fieldVars, seen, out,
                 sent, strayed>>

DisableDetect ==
  /\ engine = "idle" /\ token # -1
  /\ ReleaseToken("idle")
  /\ UNCHANGED <<running, terminating, loop, cmdVars, followVars, fieldVars, seq, seen,
                 out, sent, strayed>>

DestroyButNoStop ==
  /\ engine \in {"setup", "idle"}
  /\ engine' = "destroying"
  /\ UNCHANGED <<running, terminating, loop, cmdVars, followVars, fieldVars,
                 limitVars, seen, out, sent, refreshVars, strayed>>

\* ~ThreadedTracker calls stop(), which returns at once when not running.
Destroy ==
  /\ engine \in {"setup", "idle"}
  /\ running' = FALSE
  /\ engine' = IF running THEN "stopping" ELSE "destroying"
  /\ UNCHANGED <<terminating, loop, cmdVars, followVars, fieldVars, limitVars,
                 seen, out, sent, refreshVars, strayed>>

OnStop ==
  /\ engine = "stopping" /\ engine' = "destroying"
  /\ goal' = Cancelled /\ sent' = Nothing
  /\ UNCHANGED <<running, terminating, loop, cmdVars, followVars, aim, limited,
                 limitVars, seen, out, refreshVars, strayed>>

\* ~IThreadRunner.
Terminate ==
  /\ engine = "destroying" /\ engine' = "joining"
  /\ terminating' = TRUE
  /\ UNCHANGED <<running, loop, cmdVars, followVars, fieldVars, limitVars, seen,
                 out, sent, refreshVars, strayed>>

Join ==
  /\ engine = "joining" /\ loop = "done" /\ engine' = "gone"
  /\ UNCHANGED <<running, terminating, loop, cmdVars, followVars, fieldVars,
                 limitVars, seen, out, sent, refreshVars, strayed>>

-----------------------------------------------------------------------------
(* The control thread: control_loop around on_step.                        *)

Wake ==
  /\ loop = "wait"
  /\ running \/ terminating
  /\ loop' = IF terminating THEN "done" ELSE "test"
  /\ UNCHANGED <<threadVars, cmdVars, followVars, fieldVars, limitVars, seen, out,
                 sent, refreshVars, strayed>>

Test ==
  /\ loop = "test"
  /\ loop' = IF running THEN "apply" ELSE IF terminating THEN "done" ELSE "wait"
  /\ UNCHANGED <<threadVars, cmdVars, followVars, fieldVars, limitVars, seen, out,
                 sent, refreshVars, strayed>>

TakePositionButIndexKept ==
  /\ finished' = FALSE /\ strayed' = {}
  /\ route' = [id |-> pending.id, len |-> pending.len] /\ idx' = idx
  /\ ApplyWaypoint(route', idx, limits # {})

TakePosition ==
  /\ finished' = FALSE /\ strayed' = {}
  /\ route' = [id |-> pending.id, len |-> pending.len] /\ idx' = 0
  /\ ApplyWaypoint(route', 0, limits # {})

TakeVelocityButNoCancel ==
  /\ finished' = TRUE /\ strayed' = strayed \ {"aim", "waypoint"}
  /\ aim' = [id |-> pending.id, wp |-> -1]
  /\ UNCHANGED <<route, idx, limited, goal>>

\* Leaving POSITION cancels the navigation; the path and its index stay.
TakeVelocity ==
  /\ finished' = TRUE /\ strayed' = strayed \ {"aim", "waypoint"}
  /\ aim' = [id |-> pending.id, wp |-> -1]
  /\ goal' = IF mode = "POSITION" THEN Cancelled ELSE goal
  /\ UNCHANGED <<route, idx, limited>>

\* The locked block of on_step: apply_pending_command.
ApplyPendingButNotCleared ==
  /\ loop = "apply" /\ LockFree /\ pending.id # 0
  /\ mode' = pending.kind /\ cur' = pending.id /\ age' = 0
  /\ IF pending.kind = "POSITION" THEN TakePosition ELSE TakeVelocity
  /\ loop' = "step"
  /\ UNCHANGED <<threadVars, cmdVars, limitVars, seen, out, sent, refreshVars>>

ApplyPending ==
  /\ loop = "apply" /\ LockFree /\ pending.id # 0
  /\ mode' = pending.kind /\ cur' = pending.id /\ age' = 0
  /\ IF pending.kind = "POSITION" THEN TakePosition ELSE TakeVelocity
  /\ pending' = NoPending
  /\ loop' = "step"
  /\ UNCHANGED <<threadVars, given, limitVars, seen, out, sent, refreshVars>>

NothingPending ==
  /\ loop = "apply" /\ LockFree /\ pending.id = 0
  /\ loop' = IF mode = "NONE" THEN "test" ELSE "step"
  /\ UNCHANGED <<threadVars, cmdVars, followVars, fieldVars, limitVars, seen, out,
                 sent, refreshVars, strayed>>

\* Arrived, but not at the last waypoint: the index is advanced and
\* apply_current_waypoint asks the callbacks, without the lock.
Advance ==
  /\ loop = "step" /\ mode = "POSITION" /\ idx + 1 < route.len
  /\ idx' = idx + 1 /\ seen' = (limits # {})
  /\ loop' = "activate"
  /\ UNCHANGED <<threadVars, cmdVars, mode, route, finished, cur, age, fieldVars,
                 limitVars, out, sent, refreshVars, strayed>>

Activate ==
  /\ loop = "activate" /\ loop' = "publish"
  /\ aim' = Waypoint(route, idx) /\ limited' = seen
  /\ strayed' = strayed \ {"waypoint"}
  /\ UNCHANGED <<threadVars, cmdVars, followVars, goal, limitVars, seen, out, sent,
                 refreshVars>>

\* The goal is filled while the engine thread may write the target.
PublishWaypoint ==
  /\ loop = "publish" /\ loop' = "emit"
  /\ \E t \in {Waypoint(route, idx), aim} : goal' = Published(t)
  /\ out' = aim
  /\ UNCHANGED <<threadVars, cmdVars, followVars, aim, limited, limitVars, seen, sent,
                 refreshVars, strayed>>

Halt == mode' = "NONE" /\ sent' = Nothing /\ loop' = "test"

ArriveAtEndButNotFinished ==
  /\ loop = "step" /\ mode = "POSITION" /\ idx + 1 >= route.len /\ LockFree
  /\ loop' = "halt"
  /\ UNCHANGED <<threadVars, cmdVars, followVars, fieldVars, limitVars, seen, out, sent,
                 refreshVars, strayed>>

\* Arrived at the last waypoint: that is said under the lock.
ArriveAtEnd ==
  /\ loop = "step" /\ mode = "POSITION" /\ idx + 1 >= route.len /\ LockFree
  /\ finished' = TRUE /\ loop' = "halt"
  /\ UNCHANGED <<threadVars, cmdVars, mode, route, idx, cur, age, fieldVars, limitVars,
                 seen, out, sent, refreshVars, strayed>>

HaltAtEnd ==
  /\ loop = "halt"
  /\ Halt /\ goal' = Cancelled
  /\ UNCHANGED <<threadVars, cmdVars, route, idx, finished, cur, age, aim, limited,
                 limitVars, seen, out, refreshVars, strayed>>

StepPosition ==
  /\ loop = "step" /\ mode = "POSITION"
  /\ out' = aim /\ loop' = "emit"
  /\ UNCHANGED <<threadVars, cmdVars, followVars, fieldVars, limitVars, seen, sent,
                 refreshVars, strayed>>

StepVelocityButNoTimeout ==
  /\ loop = "step" /\ mode = "VELOCITY"
  /\ out' = aim /\ loop' = "emit"
  /\ UNCHANGED <<threadVars, cmdVars, followVars, fieldVars, limitVars, seen, sent,
                 refreshVars, strayed>>

StepVelocity ==
  /\ loop = "step" /\ mode = "VELOCITY" /\ age <= Timeout
  /\ out' = aim /\ loop' = "emit"
  /\ UNCHANGED <<threadVars, cmdVars, followVars, fieldVars, limitVars, seen, sent,
                 refreshVars, strayed>>

CommandTimeout ==
  /\ loop = "step" /\ mode = "VELOCITY" /\ age > Timeout
  /\ Halt
  /\ UNCHANGED <<threadVars, cmdVars, route, idx, finished, cur, age, fieldVars,
                 limitVars, seen, out, refreshVars, strayed>>

\* cmd_vel; MoveBaseTracker leaves the driving of a path to move_base.
Emit ==
  /\ loop = "emit" /\ loop' = "test"
  /\ sent' = IF UsesMoveBase /\ mode = "POSITION" THEN sent ELSE out
  /\ UNCHANGED <<threadVars, cmdVars, followVars, fieldVars, limitVars, seen, out,
                 refreshVars, strayed>>

Tick ==
  /\ age <= Timeout /\ mode = "VELOCITY"
  /\ age' = age + 1
  /\ UNCHANGED <<threadVars, loop, cmdVars, mode, route, idx, finished, cur,
                 fieldVars, limitVars, seen, out, sent, refreshVars, strayed>>

-----------------------------------------------------------------------------
Engine == \/ Start \/ (\E n \in 1..MaxPath : SendPos(n)) \/ SendVel
          \/ SendZeroCancel \/ SendZeroVel \/ EnableDetect \/ AddLimit
          \/ Refresh \/ PublishRefreshed \/ DisableDetect \/ Destroy \/ OnStop \/ Terminate \/ Join

Loop == \/ Wake \/ Test \/ ApplyPending \/ NothingPending \/ Advance \/ Activate
        \/ PublishWaypoint \/ ArriveAtEnd \/ HaltAtEnd \/ StepPosition \/ StepVelocity \/ CommandTimeout \/ Emit

Next == Engine \/ Loop \/ Tick

\* The control thread and time go on; an operation the engine thread has begun
\* is completed.  Nobody is obliged to begin one.
Fairness == /\ WF_vars(Loop) /\ WF_vars(Tick)
            /\ WF_vars(SendZeroVel \/ AddLimit \/ Refresh \/ PublishRefreshed \/ OnStop \/ Terminate \/ Join)

Spec == Init /\ [][Next]_vars /\ Fairness

-----------------------------------------------------------------------------
(* Properties.                                                             *)

\* on_step steers for the command it took up last, and on a path for a waypoint
\* already reached or the one its index names, whatever the engine thread does
\* meanwhile.  It is the one its index names unless a refresh read the index
\* before on_step advanced it and wrote the target afterwards (tracker.hpp:441
\* and 489, beside 328); only a waypoint refreshed after its path was left
\* (tracker.hpp:259, 271) is of another command.
FollowsCommand ==
  /\ mode # "NONE" /\ "aim" \notin strayed => aim.id = cur
  /\ mode # "NONE" /\ "aim" \notin strayed /\ loop = "emit" => out.id = cur
  /\ mode = "POSITION" => route.id = cur /\ idx < route.len /\ aim.wp <= idx
  /\ mode = "POSITION" /\ loop # "activate" /\ "waypoint" \notin strayed
       => aim = Waypoint(route, idx)

\* Detection switched on any number of times holds one speed limit, switched
\* off none: the token unregisters the callback it replaces
\* (base_tracker.hpp:132-150, event_listener.cpp:50-55).
LimitRegistered ==
  limits = IF token = -1 THEN {} ELSE {token}

\* A vehicle that no longer follows a path has no move_base goal left, though
\* the engine thread cancels it outside the lock (tracker.hpp:208-212) while
\* the control thread may be publishing the next waypoint.
GoalWithdrawn ==
  mode # "POSITION" /\ "goal" \notin strayed => goal = Nothing

LC == INSTANCE LatestCommand WITH taken <- cur, busy <- mode # "NONE",
                                  reached <- finished

\* The two threads together keep the promise of LatestCommand: commands are
\* taken up newest first, none twice, and a tracker that follows nothing says
\* that its position was reached.
FollowsLatest == LC!Spec

\* A velocity command that nobody renews stops the vehicle
\* (command_timeout_sec, tracker.hpp:352-360).
VelocityEnds ==
  mode = "VELOCITY" ~> sent = Nothing \/ mode = "POSITION" \/ terminating

\* Whatever the control thread is doing, the destructor's join returns
\* (thread_runner.hpp:35-45 after tracker.hpp:125).
JoinReturns == engine = "joining" ~> engine = "gone"

\* The invariant of the proofs.
Bookkeeping ==
  /\ pending.id # 0 => pending.id = given /\ cur < given
  /\ cur <= given
  /\ pending.kind = "POSITION" => pending.len > 0
  /\ mode = "POSITION" => strayed \subseteq {"waypoint"}
  /\ mode = "NONE" => loop \notin {"step", "emit"}
  /\ loop \in {"activate", "publish", "halt"} => mode = "POSITION"
  /\ engine = "cancelled" => given < MaxCmds
  /\ engine = "adding" \/ (~LockFree /\ after = "adding") => seq < MaxLimits /\ token = -1
  /\ token < seq
  /\ ~LockFree => refreshed.id = route.id /\ refreshed.wp <= idx

FinishedUnlessPosition == finished <=> (mode # "POSITION" \/ loop = "halt")

TrackerInv ==
  /\ TypeOK
  /\ FollowsCommand /\ LimitRegistered /\ GoalWithdrawn
  /\ FinishedUnlessPosition /\ Bookkeeping
=============================================================================
