----------------------------- MODULE TrackerProofs -----------------------------
(***************************************************************************)
(* Proofs about Tracker: TrackerInv is inductive, and every step of the    *)
(* two threads is a step or a stutter of LatestCommand.                    *)
(***************************************************************************)
EXTENDS Tracker, TLAPS

USE DEF vars, cmdVars, followVars, limitVars, fieldVars, threadVars, refreshVars, LockFree

\* The assumptions on the constants, together.
LEMMA Constants ==
  /\ MaxCmds \in Nat /\ MaxPath \in Nat /\ MaxLimits \in Nat /\ Timeout \in Nat
  /\ UsesMoveBase \in BOOLEAN
BY MaxCmdsAssumption, MaxPathAssumption, MaxLimitsAssumption, TimeoutAssumption,
   UsesMoveBaseAssumption

\* Every initial state satisfies the invariant.
LEMMA InitInv == Init => TrackerInv
<1> SUFFICES ASSUME Init PROVE TrackerInv
  OBVIOUS
<1>1. Nothing \in Targets /\ NoPending \in Pending
  BY Constants DEF Nothing, Targets, NoPending, Pending
<1>2. /\ route \in [id : 0..MaxCmds, len : 0..MaxPath]
      /\ token \in -1..(MaxLimits - 1) /\ age \in 0..(Timeout + 1)
  BY Constants DEF Init
<1>3. Data
  BY <1>1, <1>2, Constants DEF Init, Data
<1>4. Flags /\ FinishedUnlessPosition
  BY Zenon DEF Init, Flags, FinishedUnlessPosition
<1> QED BY <1>3, <1>4 DEF Init, TrackerInv, TypeOK, FollowsCommand, LimitRegistered,
        GoalWithdrawn, Bookkeeping, NoPending, Nothing

\* A waypoint of the path is a target; so are a velocity and the absence of one.
LEMMA TargetType ==
  /\ Nothing \in Targets
  /\ \A r \in [id : 0..MaxCmds, len : 0..MaxPath], i \in 0..MaxPath :
       Waypoint(r, i) \in Targets
  /\ \A p \in Pending : [id |-> p.id, wp |-> -1] \in Targets
BY Constants DEF Targets, Nothing, Waypoint, Pending

\* The commands the engine thread submits have the type of pending_cmd_.
LEMMA PendingType ==
  /\ NoPending \in Pending
  /\ \A c \in 0..MaxCmds, n \in 0..MaxPath :
       /\ [id |-> c, kind |-> "POSITION", len |-> n] \in Pending
       /\ [id |-> c, kind |-> "VELOCITY", len |-> 0] \in Pending
  /\ \A p \in Pending :
       /\ p.id \in 0..MaxCmds /\ p.len \in 0..MaxPath
       /\ p.kind \in {"POSITION", "VELOCITY"}
       /\ [id |-> p.id, len |-> p.len] \in [id : 0..MaxCmds, len : 0..MaxPath]
BY Constants DEF NoPending, Pending

\* A refresh begins with the waypoint the index names, and ends as it was told to.
LEMMA BeginKeeps ==
  ASSUME Data, NEW e \in {"idle", "adding"}, BeginRefresh(e),
         UNCHANGED <<route, idx>>
  PROVE  /\ refreshed' \in Targets /\ after' \in {"idle", "adding"}
         /\ engine' = e \/ (engine' = "refreshing" /\ after' = e)
         /\ ~LockFree' => refreshed'.id = route'.id /\ refreshed'.wp <= idx'
<1>1. CASE idx < route.len
  <2>1. /\ engine' = "refreshing" /\ after' = e /\ refreshed' = Waypoint(route, idx)
    BY <1>1, Zenon DEF BeginRefresh
  <2>2. Waypoint(route, idx) \in Targets
    BY TargetType DEF Data
  <2>3. refreshed'.id = route.id /\ refreshed'.wp = idx
    BY <2>1 DEF Waypoint
  <2> QED
    BY <2>1, <2>2, <2>3 DEF Data
<1>2. CASE ~(idx < route.len)
  <2>1. engine' = e /\ UNCHANGED <<refreshed, after>>
    BY <1>2, Zenon DEF BeginRefresh
  <2> QED
    BY <2>1 DEF Data
<1> QED BY <1>1, <1>2

\* So does the removal of a limit; nothing is refreshed when there is none.
LEMMA RemoveKeeps ==
  ASSUME Data, NEW id, NEW e \in {"idle", "adding"}, RemoveLimit(id, e),
         UNCHANGED <<route, idx>>
  PROVE  /\ limits' = limits \ {id}
         /\ refreshed' \in Targets /\ after' \in {"idle", "adding"}
         /\ engine' = e \/ (engine' = "refreshing" /\ after' = e)
         /\ ~LockFree' => refreshed'.id = route'.id /\ refreshed'.wp <= idx'
<1>1. CASE id \in limits
  BY <1>1, BeginKeeps, Zenon DEF RemoveLimit
<1>2. CASE id \notin limits
  <2>1. engine' = e /\ UNCHANGED <<limits, refreshed, after>>
    BY <1>2, Zenon DEF RemoveLimit
  <2>2. limits' = limits \ {id}
    BY <1>2, <2>1, Zenon
  <2> QED BY <2>1, <2>2 DEF Data
<1> QED BY <1>1, <1>2

\* What a refresh writes, in the three situations it may find.
LEMMA StraysCases ==
  \/ mode # "POSITION" /\ Strays = strayed \cup {"aim"}
  \/ mode = "POSITION" /\ refreshed = Waypoint(route, idx) /\ Strays = strayed \ {"waypoint"}
  \/ mode = "POSITION" /\ Strays = strayed \cup {"waypoint"}
BY Zenon DEF Strays

\* The operations of the engine thread keep the invariant.
LEMMA EngineInv == ASSUME TrackerInv, Engine PROVE TrackerInv'
<1> USE DEF TrackerInv, TypeOK
<1>1. CASE Start
  <2>1. Flags' /\ FinishedUnlessPosition'
    BY <1>1, Zenon DEF Start, Flags, FinishedUnlessPosition
  <2>2. Data'
    BY <1>1, Constants DEF Start, Data
  <2>3. FollowsCommand' /\ GoalWithdrawn'
    BY <1>1, Constants DEF Start, FollowsCommand, GoalWithdrawn, Bookkeeping,
        Waypoint, Nothing, Cancelled, Data
  <2>4. LimitRegistered' /\ Bookkeeping'
    BY <1>1, Constants DEF Start, LimitRegistered, Bookkeeping, NoPending, Data
  <2> QED BY <2>1, <2>2, <2>3, <2>4
<1>2. CASE \E n \in 1..MaxPath : SendPos(n)
  <2> PICK n \in 1..MaxPath : SendPos(n)
    BY <1>2
  <2> n \in 0..MaxPath /\ n > 0
    BY Constants
  <2>1. Flags' /\ FinishedUnlessPosition'
    BY Zenon DEF SendPos, Submit, Flags, FinishedUnlessPosition
  <2>2. given < MaxCmds
    BY Zenon DEF SendPos, Bookkeeping
  <2>3. given + 1 \in 0..MaxCmds
    BY <2>2, Constants DEF Data
  <2>4. pending' \in Pending
    BY <2>3, PendingType, Constants DEF SendPos, Submit
  <2>5. Data'
    BY <2>3, <2>4 DEF SendPos, Submit, Data
  <2>6. FollowsCommand' /\ GoalWithdrawn' /\ LimitRegistered' /\ Bookkeeping'
    BY <2>2, Constants DEF SendPos, Submit, FollowsCommand, GoalWithdrawn,
       LimitRegistered, Bookkeeping, Waypoint, Data
  <2> QED BY <2>1, <2>5, <2>6
<1>3. CASE SendVel
  <2>1. Flags' /\ FinishedUnlessPosition'
    BY <1>3, Zenon DEF SendVel, Submit, Flags, FinishedUnlessPosition
  <2>2. given < MaxCmds
    BY <1>3, Zenon DEF SendVel, Bookkeeping
  <2>3. given + 1 \in 0..MaxCmds
    BY <2>2, Constants DEF Data
  <2>4. pending' \in Pending
    BY <1>3, <2>3, PendingType, Constants DEF SendVel, Submit
  <2>5. Data'
    BY <1>3, <2>3, <2>4 DEF SendVel, Submit, Data
  <2>6. FollowsCommand' /\ GoalWithdrawn' /\ LimitRegistered' /\ Bookkeeping'
    BY <1>3, <2>2, Constants DEF SendVel, Submit, FollowsCommand, GoalWithdrawn,
       LimitRegistered, Bookkeeping, Waypoint, Data
  <2> QED BY <2>1, <2>5, <2>6
<1>4. CASE SendZeroCancel
  <2>1. Flags' /\ FinishedUnlessPosition'
    BY <1>4, Zenon DEF SendZeroCancel, Flags, FinishedUnlessPosition
  <2>2. Data'
    BY <1>4, TargetType, Constants DEF SendZeroCancel, Cancelled, Data
  <2>3. FollowsCommand' /\ GoalWithdrawn'
    BY <1>4, Constants DEF SendZeroCancel, FollowsCommand, GoalWithdrawn,
        Bookkeeping, Waypoint, Nothing, Cancelled, Data
  <2>4. LimitRegistered' /\ Bookkeeping'
    BY <1>4, Constants DEF SendZeroCancel, Cancelled, LimitRegistered,
        Bookkeeping, NoPending, Data
  <2> QED BY <2>1, <2>2, <2>3, <2>4
<1>5. CASE SendZeroVel
  <2>1. Flags' /\ FinishedUnlessPosition'
    BY <1>5, Zenon DEF SendZeroVel, Submit, Flags, FinishedUnlessPosition
  <2>2. given < MaxCmds
    BY <1>5, Zenon DEF SendZeroVel, Bookkeeping
  <2>3. given + 1 \in 0..MaxCmds
    BY <2>2, Constants DEF Data
  <2>4. pending' \in Pending
    BY <1>5, <2>3, PendingType, Constants DEF SendZeroVel, Submit
  <2>5. Data'
    BY <1>5, <2>3, <2>4 DEF SendZeroVel, Submit, Data
  <2>6. FollowsCommand' /\ GoalWithdrawn' /\ LimitRegistered' /\ Bookkeeping'
    BY <1>5, <2>2, Constants DEF SendZeroVel, Submit, FollowsCommand, GoalWithdrawn,
       LimitRegistered, Bookkeeping, Waypoint, Data
  <2> QED BY <2>1, <2>5, <2>6
<1>6. CASE EnableDetect
  <2>1. Flags' /\ FinishedUnlessPosition'
    BY <1>6, Zenon DEF EnableDetect, ReleaseToken, RemoveLimit, BeginRefresh, Flags, FinishedUnlessPosition
  <2>2. /\ seq < MaxLimits /\ token' = -1 /\ seq' = seq /\ RemoveLimit(token, "adding")
        /\ UNCHANGED <<running, terminating, loop, cmdVars, followVars, fieldVars, out, sent,
                       strayed>>
    BY <1>6, Zenon DEF EnableDetect, ReleaseToken, Bookkeeping
  <2>3. /\ refreshed' \in Targets /\ after' \in {"idle", "adding"}
        /\ engine' = "adding" \/ (engine' = "refreshing" /\ after' = "adding")
        /\ ~LockFree' => refreshed'.id = route'.id /\ refreshed'.wp <= idx'
    BY <1>6, <2>2, RemoveKeeps, Zenon DEF EnableDetect, ReleaseToken
  <2>8. limits' = limits \ {token}
    BY <2>2, RemoveKeeps, Zenon
  <2>4. Data'
    BY <2>2, <2>3, <2>8, Constants DEF Data, LimitRegistered
  <2>5. FollowsCommand' /\ GoalWithdrawn'
    BY <2>2, Zenon DEF FollowsCommand, GoalWithdrawn, Waypoint
  <2>6. LimitRegistered'
    BY <2>2, <2>8 DEF LimitRegistered
  <2>7. Bookkeeping'
    BY <2>2, <2>3, Constants DEF Bookkeeping, Data
  <2> QED BY <2>1, <2>4, <2>5, <2>6, <2>7
<1>7. CASE AddLimit
  <2>1. Flags' /\ FinishedUnlessPosition'
    BY <1>7, Zenon DEF AddLimit, RemoveLimit, BeginRefresh, Flags, FinishedUnlessPosition
  <2>2. /\ limits' = limits \cup {seq} /\ token' = seq /\ token = -1 /\ seq < MaxLimits /\ seq' = seq + 1
        /\ UNCHANGED <<running, terminating, loop, cmdVars, followVars, fieldVars, out, sent,
                       strayed>>
    BY <1>7, Zenon DEF AddLimit, Bookkeeping
  <2>3. /\ refreshed' \in Targets /\ after' \in {"idle", "adding"}
        /\ engine' = "idle" \/ (engine' = "refreshing" /\ after' = "idle")
        /\ ~LockFree' => refreshed'.id = route'.id /\ refreshed'.wp <= idx'
    BY <1>7, <2>2, BeginKeeps, Zenon DEF AddLimit
  <2>4. Data'
    BY <2>2, <2>3, Constants DEF Data, LimitRegistered
  <2>5. FollowsCommand' /\ GoalWithdrawn'
    BY <2>2, Zenon DEF FollowsCommand, GoalWithdrawn, Waypoint
  <2>6. LimitRegistered'
    BY <2>2 DEF LimitRegistered, Data
  <2>7. Bookkeeping'
    BY <2>2, <2>3, Constants DEF Bookkeeping, Data
  <2> QED BY <2>1, <2>4, <2>5, <2>6, <2>7
<1>8. CASE DisableDetect
  <2>1. Flags' /\ FinishedUnlessPosition'
    BY <1>8, Zenon DEF DisableDetect, ReleaseToken, RemoveLimit, BeginRefresh, Flags, FinishedUnlessPosition
  <2>2. /\ token' = -1 /\ seq' = seq /\ RemoveLimit(token, "idle")
        /\ UNCHANGED <<running, terminating, loop, cmdVars, followVars, fieldVars, out, sent,
                       strayed>>
    BY <1>8, Zenon DEF DisableDetect, ReleaseToken, Bookkeeping
  <2>3. /\ refreshed' \in Targets /\ after' \in {"idle", "adding"}
        /\ engine' = "idle" \/ (engine' = "refreshing" /\ after' = "idle")
        /\ ~LockFree' => refreshed'.id = route'.id /\ refreshed'.wp <= idx'
    BY <1>8, <2>2, RemoveKeeps, Zenon DEF DisableDetect, ReleaseToken
  <2>8. limits' = limits \ {token}
    BY <2>2, RemoveKeeps, Zenon
  <2>4. Data'
    BY <2>2, <2>3, <2>8, Constants DEF Data, LimitRegistered
  <2>5. FollowsCommand' /\ GoalWithdrawn'
    BY <2>2, Zenon DEF FollowsCommand, GoalWithdrawn, Waypoint
  <2>6. LimitRegistered'
    BY <2>2, <2>8 DEF LimitRegistered
  <2>7. Bookkeeping'
    BY <2>2, <2>3, Constants DEF Bookkeeping, Data
  <2> QED BY <2>1, <2>4, <2>5, <2>6, <2>7
<1>9. CASE Destroy
  <2>1. Flags' /\ FinishedUnlessPosition'
    BY <1>9, Zenon DEF Destroy, Flags, FinishedUnlessPosition
  <2>2. Data'
    BY <1>9, Constants DEF Destroy, Data
  <2>3. FollowsCommand' /\ GoalWithdrawn'
    BY <1>9, Constants DEF Destroy, FollowsCommand, GoalWithdrawn, Bookkeeping,
        Waypoint, Nothing, Cancelled, Data
  <2>4. LimitRegistered' /\ Bookkeeping'
    BY <1>9, Constants DEF Destroy, LimitRegistered, Bookkeeping, NoPending, Data
  <2> QED BY <2>1, <2>2, <2>3, <2>4
<1>10. CASE OnStop
  <2>1. Flags' /\ FinishedUnlessPosition'
    BY <1>10, Zenon DEF OnStop, Flags, FinishedUnlessPosition
  <2>2. Data'
    BY <1>10, TargetType, Constants DEF OnStop, Cancelled, Data
  <2>3. FollowsCommand' /\ GoalWithdrawn'
    BY <1>10, Constants DEF OnStop, FollowsCommand, GoalWithdrawn, Bookkeeping,
        Waypoint, Nothing, Cancelled, Data
  <2>4. LimitRegistered' /\ Bookkeeping'
    BY <1>10, Constants DEF OnStop, Cancelled, LimitRegistered, Bookkeeping,
        NoPending, Data
  <2> QED BY <2>1, <2>2, <2>3, <2>4
<1>11. CASE Terminate
  <2>1. Flags' /\ FinishedUnlessPosition'
    BY <1>11, Zenon DEF Terminate, Flags, FinishedUnlessPosition
  <2>2. Data'
    BY <1>11, Constants DEF Terminate, Data
  <2>3. FollowsCommand' /\ GoalWithdrawn'
    BY <1>11, Constants DEF Terminate, FollowsCommand, GoalWithdrawn, Bookkeeping,
        Waypoint, Nothing, Cancelled, Data
  <2>4. LimitRegistered' /\ Bookkeeping'
    BY <1>11, Constants DEF Terminate, LimitRegistered, Bookkeeping, NoPending,
        Data
  <2> QED BY <2>1, <2>2, <2>3, <2>4
<1>12. CASE Join
  <2>1. Flags' /\ FinishedUnlessPosition'
    BY <1>12, Zenon DEF Join, Flags, FinishedUnlessPosition
  <2>2. Data'
    BY <1>12, Constants DEF Join, Data
  <2>3. FollowsCommand' /\ GoalWithdrawn'
    BY <1>12, Constants DEF Join, FollowsCommand, GoalWithdrawn, Bookkeeping,
        Waypoint, Nothing, Cancelled, Data
  <2>4. LimitRegistered' /\ Bookkeeping'
    BY <1>12, Constants DEF Join, LimitRegistered, Bookkeeping, NoPending, Data
  <2> QED BY <2>1, <2>2, <2>3, <2>4
<1>13. CASE Refresh
  <2>1. Flags' /\ FinishedUnlessPosition'
    BY <1>13, Zenon DEF Refresh, Flags, FinishedUnlessPosition
  <2>2. /\ engine = "refreshing" /\ engine' = "publishing"
        /\ aim' = refreshed /\ strayed' = Strays
        /\ UNCHANGED <<loop, cmdVars, followVars, goal, limitVars, out, sent, refreshed, after>>
    BY <1>13, Zenon DEF Refresh
  <2>3. strayed' \subseteq {"aim", "goal", "waypoint"}
    BY <2>2, StraysCases DEF Data
  <2>4. Data'
    BY <2>2, <2>3 DEF Data
  <2>5. FollowsCommand'
    BY <2>2, StraysCases DEF FollowsCommand, Bookkeeping, Waypoint
  <2>6. GoalWithdrawn'
    BY <2>2, StraysCases DEF GoalWithdrawn
  <2>7. mode' = "POSITION" => strayed' \subseteq {"waypoint"}
    BY <2>2, StraysCases DEF Bookkeeping
  <2>8. LimitRegistered' /\ Bookkeeping'
    BY <2>2, <2>7 DEF LimitRegistered, Bookkeeping
  <2> QED BY <2>1, <2>4, <2>5, <2>6, <2>8
<1>14. CASE PublishRefreshed
  <2>1. Flags' /\ FinishedUnlessPosition'
    BY <1>14, Zenon DEF PublishRefreshed, Flags, FinishedUnlessPosition
  <2>2. /\ engine = "publishing" /\ engine' = after
        /\ strayed' = IF mode = "POSITION" THEN strayed ELSE strayed \cup {"goal"}
        /\ UNCHANGED <<loop, cmdVars, followVars, aim, limitVars, out, sent, refreshed, after>>
    BY <1>14, Zenon DEF PublishRefreshed
  <2>3. goal' \in Targets
    BY <1>14, Zenon DEF PublishRefreshed, Published, Data
  <2>4. Data'
    BY <2>2, <2>3 DEF Data
  <2>5. FollowsCommand'
    BY <2>2 DEF FollowsCommand, Bookkeeping, Waypoint
  <2>6. GoalWithdrawn' /\ LimitRegistered'
    BY <2>2 DEF GoalWithdrawn, LimitRegistered
  <2>7. Bookkeeping'
    BY <2>2 DEF Bookkeeping, Data
  <2> QED BY <2>1, <2>4, <2>5, <2>6, <2>7
<1> QED BY <1>1, <1>2, <1>3, <1>4, <1>5, <1>6, <1>7, <1>8, <1>9, <1>10, <1>11, <1>12,
        <1>13, <1>14 DEF Engine

\* The steps of the control thread keep the invariant.
LEMMA LoopInv == ASSUME TrackerInv, Loop PROVE TrackerInv'
<1> USE DEF TrackerInv, TypeOK
<1>1. CASE Wake
  <2>1. Flags' /\ FinishedUnlessPosition'
    BY <1>1, Zenon DEF Wake, Flags, FinishedUnlessPosition
  <2>2. Data'
    BY <1>1, Constants DEF Wake, Data
  <2>3. FollowsCommand' /\ GoalWithdrawn'
    BY <1>1, Constants DEF Wake, FollowsCommand, GoalWithdrawn, Bookkeeping,
        Waypoint, Nothing, Cancelled, Data
  <2>4. LimitRegistered' /\ Bookkeeping'
    BY <1>1, Constants DEF Wake, LimitRegistered, Bookkeeping, NoPending, Data
  <2> QED BY <2>1, <2>2, <2>3, <2>4
<1>2. CASE Test
  <2>1. Flags' /\ FinishedUnlessPosition'
    BY <1>2, Zenon DEF Test, Flags, FinishedUnlessPosition
  <2>2. Data'
    BY <1>2, Constants DEF Test, Data
  <2>3. FollowsCommand' /\ GoalWithdrawn'
    BY <1>2, Constants DEF Test, FollowsCommand, GoalWithdrawn, Bookkeeping,
        Waypoint, Nothing, Cancelled, Data
  <2>4. LimitRegistered' /\ Bookkeeping'
    BY <1>2, Constants DEF Test, LimitRegistered, Bookkeeping, NoPending, Data
  <2> QED BY <2>1, <2>2, <2>3, <2>4
<1>3. CASE ApplyPending /\ pending.kind = "POSITION"
  <2>1. Flags' /\ FinishedUnlessPosition'
    BY <1>3, Zenon DEF ApplyPending, TakePosition, ApplyWaypoint, Published,
        Flags, FinishedUnlessPosition
  <2>2. Data'
    BY <1>3, TargetType, PendingType, Constants DEF ApplyPending, TakePosition,
        ApplyWaypoint, Published, Data
  <2>3. FollowsCommand' /\ GoalWithdrawn'
    BY <1>3, Constants DEF ApplyPending, TakePosition, ApplyWaypoint, Published,
        FollowsCommand, GoalWithdrawn, Bookkeeping, Waypoint, Nothing, Cancelled,
        Data
  <2>4. LimitRegistered' /\ Bookkeeping'
    BY <1>3, Constants DEF ApplyPending, TakePosition, ApplyWaypoint, Published,
        LimitRegistered, Bookkeeping, NoPending, Data
  <2> QED BY <2>1, <2>2, <2>3, <2>4
<1>4. CASE ApplyPending /\ pending.kind # "POSITION"
  <2>1. Flags' /\ FinishedUnlessPosition'
    BY <1>4, Zenon DEF ApplyPending, TakeVelocity, Flags, FinishedUnlessPosition
  <2>2. /\ mode' = "VELOCITY" /\ cur' = pending.id /\ age' = 0 /\ loop' = "step"
        /\ aim' = [id |-> pending.id, wp |-> -1] /\ pending' = NoPending
        /\ goal' = IF mode = "POSITION" THEN Nothing ELSE goal
        /\ strayed' = strayed \ {"aim", "waypoint"} /\ pending.id # 0
        /\ UNCHANGED <<threadVars, given, limitVars, out, sent, route, idx, refreshVars>>
    BY <1>4, PendingType, Zenon DEF ApplyPending, TakeVelocity, Cancelled, Data
  <2>3. Data'
    BY <2>2, TargetType, PendingType, Constants DEF Data
  <2>4. FollowsCommand' /\ GoalWithdrawn'
    BY <2>2, Constants DEF FollowsCommand, GoalWithdrawn, Bookkeeping, Nothing, Data
  <2>5. LimitRegistered' /\ Bookkeeping'
    BY <2>2, Constants DEF LimitRegistered, Bookkeeping, NoPending, Data
  <2> QED BY <2>1, <2>3, <2>4, <2>5
<1>5. CASE NothingPending
  <2>1. Flags' /\ FinishedUnlessPosition'
    BY <1>5, Zenon DEF NothingPending, Flags, FinishedUnlessPosition
  <2>2. Data'
    BY <1>5, Constants DEF NothingPending, Data
  <2>3. FollowsCommand' /\ GoalWithdrawn'
    BY <1>5, Constants DEF NothingPending, FollowsCommand, GoalWithdrawn,
        Bookkeeping, Waypoint, Nothing, Cancelled, Data
  <2>4. LimitRegistered' /\ Bookkeeping'
    BY <1>5, Constants DEF NothingPending, LimitRegistered, Bookkeeping,
        NoPending, Data
  <2> QED BY <2>1, <2>2, <2>3, <2>4
<1>6. CASE Advance
  <2>1. Flags' /\ FinishedUnlessPosition'
    BY <1>6, Zenon DEF Advance, Flags, FinishedUnlessPosition
  <2>2. Data'
    BY <1>6, Constants DEF Advance, Data
  <2>5. aim.wp \in Int /\ refreshed.wp \in Int /\ idx \in Nat
    BY Constants DEF Data, Targets
  <2>3. FollowsCommand' /\ GoalWithdrawn'
    BY <1>6, <2>5, Constants DEF Advance, FollowsCommand, GoalWithdrawn, Bookkeeping,
        Waypoint, Nothing, Cancelled, Data
  <2>4. LimitRegistered' /\ Bookkeeping'
    BY <1>6, <2>5, Constants DEF Advance, LimitRegistered, Bookkeeping, NoPending, Data
  <2> QED BY <2>1, <2>2, <2>3, <2>4
<1>7. CASE Activate
  <2>1. Flags' /\ FinishedUnlessPosition'
    BY <1>7, Zenon DEF Activate, Flags, FinishedUnlessPosition, Bookkeeping
  <2>2. Data'
    BY <1>7, TargetType, Constants DEF Activate, Cancelled, Data
  <2>3. FollowsCommand' /\ GoalWithdrawn'
    BY <1>7, Constants DEF Activate, FollowsCommand, GoalWithdrawn, Bookkeeping,
        Waypoint, Nothing, Cancelled, Data
  <2>4. LimitRegistered' /\ Bookkeeping'
    BY <1>7, Constants DEF Activate, LimitRegistered, Bookkeeping, NoPending,
        Cancelled, Data
  <2> QED BY <2>1, <2>2, <2>3, <2>4
<1>8. CASE ArriveAtEnd
  <2>1. Flags' /\ FinishedUnlessPosition'
    BY <1>8, Zenon DEF ArriveAtEnd, Flags, FinishedUnlessPosition, Bookkeeping
  <2>2. Data'
    BY <1>8, TargetType, Constants DEF ArriveAtEnd, Cancelled, Data
  <2>3. FollowsCommand' /\ GoalWithdrawn'
    BY <1>8, Constants DEF ArriveAtEnd, FollowsCommand, GoalWithdrawn, Bookkeeping,
        Waypoint, Nothing, Cancelled, Data
  <2>4. LimitRegistered' /\ Bookkeeping'
    BY <1>8, Constants DEF ArriveAtEnd, LimitRegistered, Bookkeeping, NoPending,
        Cancelled, Data
  <2> QED BY <2>1, <2>2, <2>3, <2>4
<1>9. CASE StepPosition
  <2>1. Flags' /\ FinishedUnlessPosition'
    BY <1>9, Zenon DEF StepPosition, Flags, FinishedUnlessPosition
  <2>2. Data'
    BY <1>9, Constants DEF StepPosition, Data
  <2>3. FollowsCommand' /\ GoalWithdrawn'
    BY <1>9, Constants DEF StepPosition, FollowsCommand, GoalWithdrawn,
        Bookkeeping, Waypoint, Nothing, Cancelled, Data
  <2>4. LimitRegistered' /\ Bookkeeping'
    BY <1>9, Constants DEF StepPosition, LimitRegistered, Bookkeeping, NoPending,
        Data
  <2> QED BY <2>1, <2>2, <2>3, <2>4
<1>10. CASE StepVelocity
  <2>1. Flags' /\ FinishedUnlessPosition'
    BY <1>10, Zenon DEF StepVelocity, Flags, FinishedUnlessPosition
  <2>2. Data'
    BY <1>10, Constants DEF StepVelocity, Data
  <2>3. FollowsCommand' /\ GoalWithdrawn'
    BY <1>10, Constants DEF StepVelocity, FollowsCommand, GoalWithdrawn,
        Bookkeeping, Waypoint, Nothing, Cancelled, Data
  <2>4. LimitRegistered' /\ Bookkeeping'
    BY <1>10, Constants DEF StepVelocity, LimitRegistered, Bookkeeping, NoPending,
        Data
  <2> QED BY <2>1, <2>2, <2>3, <2>4
<1>11. CASE CommandTimeout
  <2>1. Flags' /\ FinishedUnlessPosition'
    BY <1>11, Zenon DEF CommandTimeout, Halt, Flags, FinishedUnlessPosition
  <2>2. Data'
    BY <1>11, TargetType, Constants DEF CommandTimeout, Halt, Data
  <2>3. FollowsCommand' /\ GoalWithdrawn'
    BY <1>11, Constants DEF CommandTimeout, Halt, FollowsCommand, GoalWithdrawn,
        Bookkeeping, Waypoint, Nothing, Cancelled, Data
  <2>4. LimitRegistered' /\ Bookkeeping'
    BY <1>11, Constants DEF CommandTimeout, Halt, LimitRegistered, Bookkeeping,
        NoPending, Data
  <2> QED BY <2>1, <2>2, <2>3, <2>4
<1>12. CASE Emit
  <2>1. Flags' /\ FinishedUnlessPosition'
    BY <1>12, Zenon DEF Emit, Flags, FinishedUnlessPosition
  <2>2. Data'
    BY <1>12, Constants DEF Emit, Data
  <2>3. FollowsCommand' /\ GoalWithdrawn'
    BY <1>12, Constants DEF Emit, FollowsCommand, GoalWithdrawn, Bookkeeping,
        Waypoint, Nothing, Cancelled, Data
  <2>4. LimitRegistered' /\ Bookkeeping'
    BY <1>12, Constants DEF Emit, LimitRegistered, Bookkeeping, NoPending, Data
  <2> QED BY <2>1, <2>2, <2>3, <2>4
<1>13. CASE PublishWaypoint
  <2>1. Flags' /\ FinishedUnlessPosition'
    BY <1>13, Zenon DEF PublishWaypoint, Published, Flags, FinishedUnlessPosition, Bookkeeping
  <2>2. Data'
    BY <1>13, TargetType, Constants DEF PublishWaypoint, Published, Cancelled, Data
  <2>3. FollowsCommand' /\ GoalWithdrawn'
    BY <1>13, Constants DEF PublishWaypoint, Published, FollowsCommand, GoalWithdrawn, Bookkeeping,
        Waypoint, Nothing, Cancelled, Data
  <2>4. LimitRegistered' /\ Bookkeeping'
    BY <1>13, Constants DEF PublishWaypoint, Published, LimitRegistered, Bookkeeping, NoPending,
        Cancelled, Data
  <2> QED BY <2>1, <2>2, <2>3, <2>4
<1>14. CASE HaltAtEnd
  <2>1. Flags' /\ FinishedUnlessPosition'
    BY <1>14, Zenon DEF HaltAtEnd, Halt, Flags, FinishedUnlessPosition, Bookkeeping
  <2>2. Data'
    BY <1>14, TargetType, Constants DEF HaltAtEnd, Halt, Cancelled, Data
  <2>3. FollowsCommand' /\ GoalWithdrawn'
    BY <1>14, Constants DEF HaltAtEnd, Halt, FollowsCommand, GoalWithdrawn, Bookkeeping,
        Waypoint, Nothing, Cancelled, Data
  <2>4. LimitRegistered' /\ Bookkeeping'
    BY <1>14, Constants DEF HaltAtEnd, Halt, LimitRegistered, Bookkeeping, NoPending,
        Cancelled, Data
  <2> QED BY <2>1, <2>2, <2>3, <2>4
<1> QED BY <1>1, <1>2, <1>3, <1>4, <1>5, <1>6, <1>7, <1>8, <1>9, <1>10, <1>11, <1>12,
        <1>13, <1>14 DEF Loop

\* So does time, and a stutter.
LEMMA NextInv == TrackerInv /\ [Next]_vars => TrackerInv'
<1> SUFFICES ASSUME TrackerInv, [Next]_vars PROVE TrackerInv'
  OBVIOUS
<1>1. CASE Engine
  BY <1>1, EngineInv
<1>2. CASE Loop
  BY <1>2, LoopInv
<1>3. CASE Tick
  <2>1. Flags' /\ FinishedUnlessPosition'
    BY <1>3, Zenon DEF Tick, TrackerInv, TypeOK, Flags, FinishedUnlessPosition
  <2>2. Data'
    BY <1>3, Constants DEF Tick, TrackerInv, TypeOK, Data
  <2>3. FollowsCommand' /\ GoalWithdrawn' /\ LimitRegistered' /\ Bookkeeping'
    BY <1>3, Zenon DEF Tick, TrackerInv, FollowsCommand, LimitRegistered,
       GoalWithdrawn, Bookkeeping, Waypoint
  <2> QED BY <2>1, <2>2, <2>3 DEF TrackerInv, TypeOK
<1>4. CASE UNCHANGED vars
  <2>1. Flags'
    BY <1>4, Zenon DEF TrackerInv, TypeOK, Flags
  <2>2. Data'
    BY <1>4 DEF TrackerInv, TypeOK, Data
  <2>3. FollowsCommand' /\ LimitRegistered' /\ GoalWithdrawn'
    BY <1>4, Zenon DEF TrackerInv, FollowsCommand, LimitRegistered, GoalWithdrawn,
       Waypoint
  <2>4. FinishedUnlessPosition' /\ Bookkeeping'
    BY <1>4, Zenon DEF TrackerInv, FinishedUnlessPosition, Bookkeeping
  <2> QED BY <2>1, <2>2, <2>3, <2>4 DEF TrackerInv, TypeOK
<1> QED BY <1>1, <1>2, <1>3, <1>4 DEF Next

\* TrackerInv holds in every state of the two threads.
THEOREM TrackerInvariant == Spec => []TrackerInv
BY InitInv, NextInv, PTL DEF Spec

\* The control thread steers for the command it took up last, on a path for a waypoint it
\* has reached or is on its way to; after a refresh that read the index too early, and
\* only then, it may be one already passed.
THEOREM FollowsCommandAlways == Spec => []FollowsCommand
<1>1. TrackerInv => FollowsCommand
  BY DEF TrackerInv
<1> QED BY <1>1, TrackerInvariant, PTL

\* Detection holds one speed limit while it is on and none while it is off.
THEOREM LimitRegisteredAlways == Spec => []LimitRegistered
<1>1. TrackerInv => LimitRegistered
  BY DEF TrackerInv
<1> QED BY <1>1, TrackerInvariant, PTL

\* No move_base goal outlives the path it belongs to.
THEOREM GoalWithdrawnAlways == Spec => []GoalWithdrawn
<1>1. TrackerInv => GoalWithdrawn
  BY DEF TrackerInv
<1> QED BY <1>1, TrackerInvariant, PTL

\* Initial states of Tracker are initial states of LatestCommand.
LEMMA RefineInit == Init => LC!Init
BY DEF Init, LC!Init

\* A step of either thread is Give, Take, End or a stutter of LatestCommand.
LEMMA RefineNext == TrackerInv /\ [Next]_vars => [LC!Next]_LC!lcVars
<1> SUFFICES ASSUME TrackerInv, [Next]_vars PROVE [LC!Next]_LC!lcVars
  OBVIOUS
<1> USE DEF LC!Next, LC!lcVars
<1>1. CASE \E n \in 1..MaxPath : SendPos(n)
  BY <1>1 DEF SendPos, Submit, LC!Give
<1>2. CASE SendVel \/ SendZeroVel
  BY <1>2 DEF SendVel, SendZeroVel, Submit, LC!Give
<1>3. CASE ApplyPending
  <2>1. cur < given /\ cur' = given /\ given' = given
    BY <1>3, Zenon DEF ApplyPending, TrackerInv, Bookkeeping
  <2>2. mode' # "NONE" /\ finished' \in BOOLEAN
    BY <1>3, PendingType, Zenon DEF ApplyPending, TakePosition, TakeVelocity,
       TrackerInv, TypeOK, Data
  <2> QED BY <2>1, <2>2, Zenon DEF LC!Take
<1>4. CASE ArriveAtEnd
  BY <1>4 DEF ArriveAtEnd, LC!Reach
<1>9. CASE HaltAtEnd
  <2>1. mode # "NONE" /\ finished = TRUE
    BY <1>9, Zenon DEF HaltAtEnd, TrackerInv, TypeOK, Flags, FinishedUnlessPosition, Bookkeeping
  <2> QED BY <1>9, <2>1, Zenon DEF HaltAtEnd, Halt, LC!End
<1>5. CASE CommandTimeout
  BY <1>5, Zenon DEF CommandTimeout, Halt, LC!End, TrackerInv, TypeOK, Flags,
     FinishedUnlessPosition
<1>6. CASE Start \/ SendZeroCancel \/ EnableDetect \/ AddLimit \/ DisableDetect
           \/ Refresh \/ PublishRefreshed \/ Destroy \/ OnStop \/ Terminate \/ Join
  BY <1>6 DEF Start, SendZeroCancel, EnableDetect, AddLimit, DisableDetect, ReleaseToken, Refresh,
     PublishRefreshed, Destroy, OnStop, Terminate, Join
<1>7. CASE Wake \/ Test \/ NothingPending \/ Advance \/ Activate \/ PublishWaypoint \/ StepPosition
           \/ StepVelocity \/ Emit \/ Tick
  BY <1>7 DEF Wake, Test, NothingPending, Advance, Activate, PublishWaypoint, StepPosition,
     StepVelocity, Emit, Tick
<1>8. CASE UNCHANGED vars
  BY <1>8
<1> QED BY <1>1, <1>2, <1>3, <1>4, <1>5, <1>6, <1>7, <1>8, <1>9 DEF Next, Engine, Loop

\* Tracker implements LatestCommand.
THEOREM TrackerImplementsLatest == Spec => FollowsLatest
BY RefineInit, RefineNext, TrackerInvariant, PTL DEF Spec, FollowsLatest, LC!Spec
=============================================================================
