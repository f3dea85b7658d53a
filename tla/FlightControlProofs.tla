------------------------- MODULE FlightControlProofs -------------------------
(***************************************************************************)
(* FlightInv is an inductive invariant of the flight state machine, for    *)
(* every number of commands, waypoints and waiting events.  The invariant  *)
(* is split into what the Enter operators establish (VehicleOK, IdsOK) and *)
(* what the plan keeps (QueueOK, Behind); RunPlanAt is treated once, and   *)
(* each handler is then one of a few kinds of step.                        *)
(***************************************************************************)
EXTENDS MissionLog, SequenceTheorems, TLAPS

VehicleTypes ==
  /\ leaf \in Leaves /\ mission \in Missions \cup {NoMission}
  /\ cmd \in Position \cup Velocity \cup {"None"}
  /\ doPland \in BOOLEAN /\ plandOn \in BOOLEAN
  /\ home \in Cmds \cup {0} /\ takeoffPt \in {"none", "this", "earlier"}

VehicleOK == /\ VehicleTypes /\ MissionShape
             /\ IndexInRange /\ NoStalePosition /\ PlandOnlyWhileLanding
             /\ HomeBelongsToFlight

IdsOK(h, m, n) == h <= n /\ (m # NoMission => m.id <= n)

Fallbacks == {"None", "Hover", "Land", "LandPland"}
Answers   == [Cmds -> {"none", "pending", "ok", "rejected"}]

QueueOK(q, f, h, a, n) ==
  /\ q \in Seq(Entries) /\ f \in Fallbacks /\ a \in Answers /\ n \in 0..MaxCmds
  /\ q # <<>> => f # "None"
  /\ \A i \in DOMAIN q : q[i].id <= n
  /\ \A c \in Cmds : c > n => a[c] = "none"
  /\ \A i, j \in DOMAIN q : i < j /\ q[i].step = "Mission" => q[j].step = "MoveHover"
  /\ \A i \in DOMAIN q : q[i].step = "Mission" => h <= q[i].id
  /\ \A i \in DOMAIN q :
       q[i].step = "Takeoff" /\ q[i].id # 0 =>
         /\ a[q[i].id] = "pending"
         /\ \A j \in DOMAIN q : q[j].id = q[i].id => i = j

\* What may wait behind the live mission m.
Behind(m, q, f) ==
  m # NoMission => f # "None" /\ \A i \in DOMAIN q : q[i].step = "MoveHover"

PlanOK == /\ QueueOK(queue, fallback, home, answer, cmds)
          /\ Behind(mission, queue, fallback)

CtxTypes == /\ fcuHome \in BOOLEAN /\ odom \in BOOLEAN /\ arm \in BOOLEAN
            /\ thr \in BOOLEAN /\ cool \in BOOLEAN
            /\ events \in Seq({"armed", "disarmed", "prearm"})

\* FlightInv is the conjunction of these parts.
LEMMA InvParts ==
  FlightInv <=> VehicleOK /\ IdsOK(home, mission, cmds) /\ PlanOK /\ CtxTypes
<1>1. FlightInv => VehicleOK /\ IdsOK(home, mission, cmds) /\ PlanOK /\ CtxTypes
  BY DEF FlightInv, TypeOK, VehicleOK, VehicleTypes, IdsOK, IdsInOrder, PlanOK,
         QueueOK, Behind, PlanShape, CtxTypes, Fallbacks, Answers,
         QueuedTakeoffUnanswered, InWaypoint
<1>2. VehicleOK /\ IdsOK(home, mission, cmds) /\ PlanOK /\ CtxTypes => FlightInv
  BY DEF FlightInv, TypeOK, VehicleOK, VehicleTypes, IdsOK, IdsInOrder, PlanOK,
         QueueOK, Behind, PlanShape, CtxTypes, Fallbacks, Answers,
         QueuedTakeoffUnanswered, InWaypoint
<1> QED
  BY <1>1, <1>2

\* Leaving every state: what the operators that enter a top-level state establish.
Leaving ==
  \/ EnterHover \/ EnterInit \/ EnterArm \/ EnterGround \/ EnterTakeoff
  \/ EnterLand(FALSE) \/ EnterLand(TRUE)
  \/ Enter("Move", "Point") /\ UNCHANGED <<home, takeoffPt>>

\* A step that leaves every state enters a top-level one consistently (on_exit, on_enter).
LEMMA LeavingOK ==
  ASSUME VehicleOK, Leaving
  PROVE  VehicleOK' /\ mission' = NoMission /\ home' \in {home, 0}
<1> USE NoMissionAssumption
<1>1. /\ mission' = NoMission /\ home' \in {home, 0}
      /\ leaf' \in {"Hover", "Init", "Arm", "Ground", "Takeoff", "Land", "Move"}
      /\ leaf' \in {"Init", "Ground"} => home' = 0
      /\ takeoffPt' \in {"none", "this", "earlier"}
  BY DEF Leaving, EnterHover, EnterInit, EnterArm, EnterGround, EnterTakeoff,
         EnterLand, Enter, VehicleOK, VehicleTypes
<1>2. /\ cmd' \in Position \cup Velocity \cup {"None"}
      /\ leaf' \in {"Hover", "Land"} => cmd' = "Zero"
      /\ leaf' = "Move" => cmd' = "Point"
  BY DEF Leaving, EnterHover, EnterInit, EnterArm, EnterGround, EnterTakeoff,
         EnterLand, Enter, VehicleOK, VehicleTypes, CmdLeft, Position, Velocity
<1>3. PlandLeft = FALSE
  BY DEF VehicleOK, VehicleTypes, PlandOnlyWhileLanding, PlandLeft
<1>4. /\ doPland' \in BOOLEAN /\ plandOn' \in BOOLEAN
      /\ plandOn' <=> (leaf' = "Land" /\ doPland')
  BY <1>3 DEF Leaving, EnterHover, EnterInit, EnterArm, EnterGround,
         EnterTakeoff, EnterLand, Enter
<1>5. VehicleTypes'
  BY <1>1, <1>2, <1>4 DEF VehicleTypes, VehicleOK, Leaves, Ground, Side
<1>6. /\ MissionShape' /\ IndexInRange' /\ NoStalePosition'
      /\ PlandOnlyWhileLanding' /\ HomeBelongsToFlight'
  BY <1>1, <1>2, <1>4 DEF MissionShape, IndexInRange, NoStalePosition,
     PlandOnlyWhileLanding, HomeBelongsToFlight, InWaypoint, Position, Side
<1> QED
  BY <1>1, <1>5, <1>6 DEF VehicleOK

\* The way out of a failed command leaves every state.
LEMMA HoverOrGroundLeaves == EnterHoverOrGround => Leaving
  BY DEF EnterHoverOrGround, Leaving

\* Staying below the same parent: the mission keeps its data or its next waypoint.
CanStay(l, c, m) ==
  /\ c \in Position \cup Velocity \cup {"None"}
  /\ l \in Leaves
  /\ l \in Ground => l = leaf
  /\ l \notin Ground => leaf \notin Ground
  /\ mission = NoMission => m = NoMission /\ l \notin {"Lifting", "Execute"}
  /\ mission # NoMission => /\ m \in Missions /\ m.idx < m.len
                            /\ m.id = mission.id /\ m.own = mission.own
                            /\ l \in Side \cup {"Lifting", "Execute"}
  /\ l \in {"Hover", "Land", "Follow"} => c \notin Position
  /\ l \in {"Move", "Turn"} => c # "Path"

\* A step below the same parent keeps the vehicle consistent when CanStay allows it.
LEMMA StayingOK ==
  ASSUME VehicleOK, NEW l, NEW c, NEW m, WithinAt(l, c, m), CanStay(l, c, m)
  PROVE  VehicleOK' /\ mission' = m /\ home' = home
<1> USE NoMissionAssumption
<1>1. /\ leaf' = l /\ cmd' = c /\ mission' = m
      /\ UNCHANGED <<doPland, plandOn, home, takeoffPt>>
  BY DEF WithinAt
<1>2. VehicleTypes'
  BY <1>1 DEF VehicleTypes, VehicleOK, CanStay
<1>3. MissionShape' /\ IndexInRange' /\ NoStalePosition'
  BY <1>1 DEF CanStay, MissionShape, IndexInRange, NoStalePosition, InWaypoint, Position
<1>4. PlandOnlyWhileLanding'
  BY <1>1 DEF CanStay, VehicleOK, VehicleTypes, PlandOnlyWhileLanding, Ground, Leaves
<1>5. HomeBelongsToFlight'
  BY <1>1 DEF CanStay, VehicleOK, HomeBelongsToFlight, InWaypoint, Ground, Leaves
<1> QED
  BY <1>1, <1>2, <1>3, <1>4, <1>5 DEF VehicleOK

\* Staying exactly where the vehicle is is always possible.
LEMMA StayHere ==
  ASSUME VehicleOK
  PROVE  CanStay(leaf, cmd, mission)
BY DEF CanStay, VehicleOK, VehicleTypes, MissionShape, NoStalePosition,
       IndexInRange, InWaypoint, Side, Ground, Leaves

-----------------------------------------------------------------------------
(* One entry of the plan, and the plan itself.                             *)

\* Entering a mission from a plan entry no older than the one that recorded home.
LEMMA MissionEntered ==
  ASSUME VehicleOK, NEW e \in Entries, e.step = "Mission", EnterMission(e),
         home <= e.id
  PROVE  /\ VehicleOK' /\ mission' # NoMission /\ mission'.id = e.id
         /\ home' \in {home, e.id}
<1> USE NoMissionAssumption
<1>1. /\ e.id \in Cmds /\ e.own \in BOOLEAN /\ e.len \in Nat /\ e.ret \in Return
      /\ e.len > 0
  BY DEF Entries, EnterMission, HomeOf
<1>2. /\ mission' \in Missions /\ mission'.id = e.id /\ mission'.own = e.own
      /\ mission'.idx = 0 /\ mission'.len = e.len
  <2>1. PICK d \in SUBSET (0..e.len - 1) :
           mission' = [id |-> e.id, own |-> e.own, len |-> e.len, idx |-> 0,
                       dwell |-> d \cup {e.len - 1}, ret |-> e.ret]
    BY DEF EnterMission, HomeOf
  <2>2. d \cup {e.len - 1} \in SUBSET Nat
    <3>1. e.len - 1 \in Nat /\ 0..e.len - 1 \subseteq Nat
      BY <1>1
    <3> QED
      BY <3>1
  <2> QED
    BY <1>1, <2>1, <2>2 DEF Missions
<1>3. leaf' = "Lifting" /\ cmd' = CmdLeft /\ UNCHANGED takeoffPt
  BY DEF EnterMission, HomeOf
<1>4. cmd' \in Position \cup Velocity \cup {"None"}
  BY <1>3 DEF CmdLeft, VehicleOK, VehicleTypes, Velocity
<1>5. doPland' = FALSE /\ plandOn' = FALSE
  BY DEF EnterMission, HomeOf, VehicleOK, VehicleTypes, PlandOnlyWhileLanding, PlandLeft
<1>6. /\ home' \in {home, e.id} /\ home' \in Cmds \cup {0}
      /\ e.own => home' # 0 /\ home' <= e.id
  BY <1>1 DEF EnterMission, HomeOf, VehicleOK, VehicleTypes, Cmds
<1>7. VehicleTypes'
  BY <1>2, <1>3, <1>4, <1>5, <1>6 DEF VehicleTypes, VehicleOK, Leaves
<1>8. /\ MissionShape' /\ IndexInRange' /\ NoStalePosition'
      /\ PlandOnlyWhileLanding'
  BY <1>1, <1>2, <1>3, <1>5 DEF MissionShape, IndexInRange, NoStalePosition,
     PlandOnlyWhileLanding, InWaypoint
<1>9. HomeBelongsToFlight'
  BY <1>1, <1>2, <1>3, <1>6 DEF HomeBelongsToFlight, InWaypoint
<1> QED
  BY <1>2, <1>6, <1>7, <1>8, <1>9 DEF VehicleOK

\* Taking the head off the plan.
LEMMA TailOK ==
  ASSUME NEW q, NEW f, NEW h, NEW a, NEW n, QueueOK(q, f, h, a, n), q # <<>>
  PROVE  /\ Head(q) \in Entries /\ Head(q).id <= n
         /\ Tail(q) \in Seq(Entries)
         /\ QueueOK(Tail(q), f, h, a, n)
         /\ Head(q).step = "Mission" =>
              h <= Head(q).id /\ \A i \in DOMAIN Tail(q) : Tail(q)[i].step = "MoveHover"
         /\ Head(q).step = "Takeoff" /\ Head(q).id # 0 =>
              /\ a[Head(q).id] = "pending"
              /\ \A i \in DOMAIN Tail(q) : Tail(q)[i].id # Head(q).id
<1>1. q \in Seq(Entries)
  BY DEF QueueOK
<1>2. /\ Head(q) = q[1] /\ 1 \in DOMAIN q /\ Head(q) \in Entries
      /\ Tail(q) \in Seq(Entries)
      /\ \A i \in DOMAIN Tail(q) :
           i + 1 \in DOMAIN q /\ Tail(q)[i] = q[i + 1] /\ i \in Nat \ {0}
  BY <1>1
<1>3. QueueOK(Tail(q), f, h, a, n)
  <2>1. /\ Tail(q) \in Seq(Entries) /\ f \in Fallbacks /\ a \in Answers /\ n \in 0..MaxCmds
        /\ Tail(q) # <<>> => f # "None"
        /\ \A c \in Cmds : c > n => a[c] = "none"
    BY <1>2 DEF QueueOK
  <2>2. /\ \A i \in DOMAIN Tail(q) : Tail(q)[i].id <= n
        /\ \A i \in DOMAIN Tail(q) : Tail(q)[i].step = "Mission" => h <= Tail(q)[i].id
    BY <1>2 DEF QueueOK
  <2>3. \A i, j \in DOMAIN Tail(q) :
          i < j /\ Tail(q)[i].step = "Mission" => Tail(q)[j].step = "MoveHover"
    <3> TAKE i, j \in DOMAIN Tail(q)
    <3> HAVE i < j /\ Tail(q)[i].step = "Mission"
    <3>1. i + 1 < j + 1
      BY <1>2
    <3> QED
      BY <1>2, <3>1 DEF QueueOK
  <2>4. \A i \in DOMAIN Tail(q) :
          Tail(q)[i].step = "Takeoff" /\ Tail(q)[i].id # 0 =>
            /\ a[Tail(q)[i].id] = "pending"
            /\ \A j \in DOMAIN Tail(q) : Tail(q)[j].id = Tail(q)[i].id => i = j
    <3> TAKE i \in DOMAIN Tail(q)
    <3> HAVE Tail(q)[i].step = "Takeoff" /\ Tail(q)[i].id # 0
    <3>1. a[Tail(q)[i].id] = "pending"
      BY <1>2 DEF QueueOK
    <3>2. ASSUME NEW j \in DOMAIN Tail(q), Tail(q)[j].id = Tail(q)[i].id
          PROVE  i = j
      <4>1. i + 1 = j + 1
        BY <1>2, <3>2 DEF QueueOK
      <4> QED
        BY <1>2, <4>1
    <3> QED
      BY <3>1, <3>2
  <2> QED
    BY <2>1, <2>2, <2>3, <2>4 DEF QueueOK
<1>4. Head(q).step = "Mission" =>
        h <= Head(q).id /\ \A i \in DOMAIN Tail(q) : Tail(q)[i].step = "MoveHover"
  <2>1. ASSUME NEW i \in DOMAIN Tail(q)
        PROVE  1 < i + 1
    BY <1>2
  <2> QED
    BY <1>2, <2>1 DEF QueueOK
<1>5. Head(q).step = "Takeoff" /\ Head(q).id # 0 =>
        /\ a[Head(q).id] = "pending"
        /\ \A i \in DOMAIN Tail(q) : Tail(q)[i].id # Head(q).id
  <2>1. ASSUME NEW i \in DOMAIN Tail(q)
        PROVE  1 # i + 1
    BY <1>2
  <2> QED
    BY <1>2, <2>1 DEF QueueOK
<1>6. Head(q).id <= n
  BY <1>2 DEF QueueOK
<1> QED
  BY <1>2, <1>3, <1>4, <1>5, <1>6

\* The ids that entries carry.
LEMMA EntryIds ==
  ASSUME NEW q, q \in Seq(Entries), NEW i \in DOMAIN q
  PROVE  /\ q[i].id \in Cmds \cup {0}
         /\ q[i].step = "Mission" => q[i].id \in Cmds
<1>1. q[i] \in Entries
  OBVIOUS
<1>2. /\ \A e \in Entries : e.id \in Cmds \cup {0}
      /\ \A e \in Entries : e.step = "Mission" => e.id \in Cmds
  BY DEF Entries
<1> QED
  BY <1>1, <1>2

\* Forgetting mission_home, and answering a request that no entry carries, keep
\* the plan as it must be.
LEMMA HomeForgotten ==
  ASSUME NEW q, NEW f, NEW h, NEW a, NEW n, QueueOK(q, f, h, a, n),
         NEW k, k \in {h, 0}
  PROVE  QueueOK(q, f, k, a, n)
<1>1. \A i \in DOMAIN q : q[i].step = "Mission" => q[i].id \in Cmds
  <2>1. q \in Seq(Entries)
    BY DEF QueueOK
  <2> QED
    BY <2>1, EntryIds
<1>2. \A i \in DOMAIN q : q[i].step = "Mission" => k <= q[i].id
  BY <1>1 DEF QueueOK, Cmds
<1> QED
  BY <1>2 DEF QueueOK

\* Answering a request that waits in no entry (any more) keeps the plan consistent.
LEMMA Settled ==
  ASSUME NEW q, NEW f, NEW h, NEW a, NEW n, NEW id, NEW r, NEW b,
         QueueOK(q, f, h, a, n), id <= n, r \in {"pending", "ok", "rejected"},
         b = (IF id \in Cmds THEN [a EXCEPT ![id] = r] ELSE a),
         id # 0 => \A i \in DOMAIN q : q[i].id # id
  PROVE  QueueOK(q, f, h, b, n)
<1>1. CASE id \notin Cmds
  BY <1>1
<1>2. CASE id \in Cmds
  <2>1. a \in Answers /\ b = [a EXCEPT ![id] = r]
    BY <1>2 DEF QueueOK
  <2>2. b \in Answers
    BY <1>2, <2>1 DEF Answers
  <2>3. \A c \in Cmds : c > n => b[c] = "none"
    BY <1>2, <2>1 DEF QueueOK, Cmds, Answers
  <2>4. id # 0 /\ \A c \in Cmds : c # id => b[c] = a[c]
    BY <1>2, <2>1 DEF Answers, Cmds
  <2>5. \A i \in DOMAIN q : q[i].id \in Cmds \cup {0}
    <3>1. q \in Seq(Entries)
      BY DEF QueueOK
    <3> QED
      BY <3>1, EntryIds
  <2>6. \A i \in DOMAIN q : q[i].id # 0 => b[q[i].id] = a[q[i].id]
    BY <2>4, <2>5
  <2> QED
    BY <2>2, <2>3, <2>6 DEF QueueOK
<1> QED
  BY <1>1, <1>2

\* Running the plan q with fallback f, when the live mission has got to m.
LEMMA RunPlanOK ==
  ASSUME VehicleOK, NEW q, NEW m, NEW f, NEW n,
         IdsOK(home, mission, n), QueueOK(q, f, home, answer, n), RunPlanAt(q, m),
         q = <<>> => f = fallback,
         mission # NoMission => f # "None",
         mission = NoMission => m = NoMission,
         mission # NoMission /\ q # <<>> /\ Head(q).step = "MoveWaypoint" =>
           m = mission /\ Tail(q) = <<>>
  PROVE  /\ VehicleOK' /\ IdsOK(home', mission', n)
         /\ QueueOK(queue', f, home', answer', n)
         /\ Behind(mission', queue', f)
<1> USE NoMissionAssumption
<1>a. /\ home \in Cmds \cup {0} /\ n \in 0..MaxCmds
      /\ mission # NoMission => mission \in Missions
      /\ InWaypoint <=> mission # NoMission
  BY DEF VehicleOK, VehicleTypes, QueueOK, InWaypoint
<1>b. ASSUME Leaving, queue' = q \/ (q # <<>> /\ queue' = Tail(q)),
             UNCHANGED answer
      PROVE  /\ VehicleOK' /\ IdsOK(home', mission', n)
             /\ QueueOK(queue', f, home', answer', n)
             /\ Behind(mission', queue', f)
  <2>1. VehicleOK' /\ mission' = NoMission /\ home' \in {home, 0}
    BY <1>b, LeavingOK
  <2>2. IdsOK(home', mission', n)
    BY <1>a, <2>1 DEF IdsOK
  <2>3. QueueOK(queue', f, home, answer, n)
    BY <1>b, TailOK
  <2>4. QueueOK(queue', f, home', answer, n)
    BY <2>1, <2>3, HomeForgotten
  <2> QED
    BY <1>b, <2>1, <2>2, <2>4 DEF Behind
<1>1. CASE q = <<>> /\ RunFallback(m) /\ queue' = q
  <2>1. CASE fallback = "None"
    <3>1. mission = NoMission /\ m = NoMission /\ WithinAt(leaf, cmd, m)
      BY <1>1, <2>1 DEF RunFallback
    <3>2. VehicleOK' /\ mission' = m /\ home' = home
      BY <3>1, StayHere, StayingOK
    <3> QED
      BY <1>1, <1>a, <3>1, <3>2 DEF IdsOK, Behind, RunFallback
  <2>2. CASE fallback # "None"
    <3>1. Leaving /\ UNCHANGED answer
      BY <1>1, <2>2 DEF RunFallback, Leaving
    <3> QED
      BY <1>1, <1>b, <3>1
  <2> QED
    BY <2>1, <2>2
<1>2. CASE q # <<>> /\ ~arm /\ EnterArm /\ queue' = q /\ UNCHANGED answer
  BY <1>2, <1>b DEF Leaving
<1>3. CASE q # <<>> /\ arm /\ RunEntry(Head(q), m) /\ queue' = Tail(q)
  <2> DEFINE e == Head(q)
  <2>1. /\ e \in Entries /\ e.id <= n
        /\ QueueOK(Tail(q), f, home, answer, n)
        /\ e.step = "Mission" =>
             home <= e.id /\ \A i \in DOMAIN Tail(q) : Tail(q)[i].step = "MoveHover"
        /\ e.step = "Takeoff" /\ e.id # 0 =>
             \A i \in DOMAIN Tail(q) : Tail(q)[i].id # e.id
    BY <1>3, TailOK
  <2> HIDE DEF e
  <2>2. CASE e.step = "Takeoff" /\ RunTakeoff(e)
    <3>1. PICK r \in {"ok", "rejected"} : Leaving /\ Settle(e.id, r)
      BY <2>2, HoverOrGroundLeaves DEF RunTakeoff, Leaving
    <3>2. VehicleOK' /\ mission' = NoMission /\ home' \in {home, 0}
      BY <3>1, LeavingOK
    <3>3. QueueOK(Tail(q), f, home', answer, n)
      BY <2>1, <3>2, HomeForgotten
    <3>4. QueueOK(Tail(q), f, home', answer', n)
      <4>1. answer' = IF e.id \in Cmds THEN [answer EXCEPT ![e.id] = r] ELSE answer
        BY <3>1 DEF Settle
      <4>2. e.id # 0 => \A i \in DOMAIN Tail(q) : Tail(q)[i].id # e.id
        BY <2>1, <2>2
      <4> QED
        BY <2>1, <3>3, <4>1, <4>2, Settled
    <3>5. IdsOK(home', mission', n)
      BY <1>a, <3>2 DEF IdsOK
    <3> QED
      BY <1>3, <3>2, <3>4, <3>5 DEF Behind
  <2>3. CASE e.step = "Mission" /\ RunMission(e)
    <3>1. CASE EnterHover
      BY <1>3, <1>b, <2>3, <3>1 DEF RunMission, Leaving
    <3>2. CASE EnterMission(e)
      <4>1. /\ VehicleOK' /\ mission' # NoMission /\ mission'.id = e.id
            /\ home' \in {home, e.id}
        BY <2>1, <2>3, <3>2, MissionEntered
      <4>2. IdsOK(home', mission', n)
        BY <2>1, <4>1 DEF IdsOK
      <4>3. QueueOK(Tail(q), f, home', answer, n)
        BY <2>1, <2>3 DEF QueueOK
      <4>4. UNCHANGED answer
        BY <2>3 DEF RunMission
      <4>5. f # "None"
        BY <1>3 DEF QueueOK
      <4> QED
        BY <1>3, <2>1, <2>3, <4>1, <4>2, <4>3, <4>4, <4>5 DEF Behind
    <3> QED
      BY <2>3, <3>1, <3>2 DEF RunMission
  <2>4. CASE e.step \in {"MoveHover", "MoveWaypoint"} /\ RunMove(e, m)
    <3>1. UNCHANGED answer
      BY <2>4 DEF RunMove
    <3>2. CASE Enter("Move", "Point") /\ UNCHANGED <<home, takeoffPt>>
      BY <1>3, <1>b, <3>1, <3>2 DEF Leaving
    <3>3. CASE e.step = "MoveWaypoint" /\ InWaypoint /\ WithinAt("Move", "Point", m)
      <4>1. m = mission /\ Tail(q) = <<>> /\ mission # NoMission
        BY <1>a, <1>3, <3>3 DEF e
      <4>2. leaf \notin Ground /\ mission.idx < mission.len
        BY <4>1 DEF VehicleOK, MissionShape, InWaypoint, IndexInRange, Ground, Side
      <4>3. VehicleOK' /\ mission' = m /\ home' = home
        BY <1>a, <3>3, <4>1, <4>2, StayingOK
           DEF CanStay, Position, Velocity, Side, Leaves, Ground
      <4> QED
        BY <1>3, <2>1, <3>1, <4>1, <4>3 DEF Behind
    <3>4. CASE e.step = "MoveWaypoint" /\ ~InWaypoint /\ WithinAt(leaf, cmd, m)
      <4>1. mission = NoMission /\ m = NoMission
        BY <1>a, <3>4
      <4>3. VehicleOK' /\ mission' = m /\ home' = home
        BY <3>4, <4>1, StayHere, StayingOK
      <4> QED
        BY <1>3, <2>1, <3>1, <4>1, <4>3 DEF Behind, IdsOK
    <3>5. CASE e.step = "MoveHover" /\ InHover /\ WithinAt("Move", "Point", m)
      <4>1. mission = NoMission /\ m = NoMission /\ leaf \notin Ground
        BY <1>a, <3>5 DEF InHover, VehicleOK, MissionShape, InWaypoint, Side, Ground
      <4>2. VehicleOK' /\ mission' = m /\ home' = home
        BY <3>5, <4>1, StayingOK DEF CanStay, Position, Velocity, Side, Leaves, Ground
      <4> QED
        BY <1>3, <2>1, <3>1, <4>1, <4>2 DEF Behind, IdsOK
    <3> QED
      BY <2>4, <3>2, <3>3, <3>4, <3>5 DEF RunMove
  <2> QED
    BY <1>3, <2>2, <2>3, <2>4 DEF RunEntry, e
<1> QED
  BY <1>1, <1>2, <1>3 DEF RunPlanAt

-----------------------------------------------------------------------------
(* The kinds of step the handlers take.                                    *)

EngineOK == VehicleOK /\ IdsOK(home, mission, cmds) /\ PlanOK

\* The same facts hold when a further command is numbered.
LEMMA NextNumber ==
  ASSUME NEW q, NEW f, NEW h, NEW a, NEW n, NEW m, NEW k,
         k \in {n, n + 1}, k \in 0..MaxCmds, m \in Missions \cup {NoMission}, h \in Nat,
         QueueOK(q, f, h, a, n), IdsOK(h, m, n)
  PROVE  QueueOK(q, f, h, a, k) /\ IdsOK(h, m, k)
<1> USE NoMissionAssumption
<1>1. n \in 0..MaxCmds /\ q \in Seq(Entries)
  BY DEF QueueOK
<1>2. IdsOK(h, m, k)
  BY <1>1 DEF IdsOK, Missions, Cmds
<1>3. \A i \in DOMAIN q : q[i].id \in Nat
  BY <1>1, EntryIds DEF Cmds
<1>4. \A i \in DOMAIN q : q[i].id <= k
  BY <1>1, <1>3 DEF QueueOK
<1>5. \A c \in Cmds : c > k => a[c] = "none"
  BY <1>1 DEF QueueOK, Cmds
<1> QED
  BY <1>2, <1>4, <1>5 DEF QueueOK

\* A handler that leaves every state and does not touch the plan.
LEMMA LeavingKeeps ==
  ASSUME EngineOK, Leaving, UNCHANGED <<queue, fallback, answer>>,
         cmds' \in {cmds, cmds + 1}, cmds' \in 0..MaxCmds
  PROVE  EngineOK'
<1>1. VehicleOK' /\ mission' = NoMission /\ home' \in {home, 0}
  BY LeavingOK DEF EngineOK
<1>2. home \in Nat /\ mission \in Missions \cup {NoMission}
  BY DEF EngineOK, VehicleOK, VehicleTypes, Cmds
<1>3. /\ QueueOK(queue, fallback, home, answer, cmds')
      /\ IdsOK(home, mission, cmds')
  BY <1>2, NextNumber DEF EngineOK, PlanOK
<1>4. QueueOK(queue, fallback, home', answer, cmds')
  BY <1>1, <1>3, HomeForgotten
<1>5. IdsOK(home', mission', cmds')
  BY <1>1, <1>3 DEF IdsOK
<1> QED
  BY <1>1, <1>4, <1>5 DEF EngineOK, PlanOK, Behind

\* A handler that stays below the same parent and does not touch the plan.
LEMMA StayingKeeps ==
  ASSUME EngineOK, NEW l, NEW c, NEW m, WithinAt(l, c, m), CanStay(l, c, m),
         UNCHANGED <<queue, fallback, answer>>,
         cmds' \in {cmds, cmds + 1}, cmds' \in 0..MaxCmds
  PROVE  EngineOK'
<1> USE NoMissionAssumption
<1>1. VehicleOK' /\ mission' = m /\ home' = home
  BY StayingOK DEF EngineOK
<1>2. home \in Nat /\ mission \in Missions \cup {NoMission}
  BY DEF EngineOK, VehicleOK, VehicleTypes, Cmds
<1>3. /\ QueueOK(queue, fallback, home, answer, cmds')
      /\ IdsOK(home, mission, cmds')
  BY <1>2, NextNumber DEF EngineOK, PlanOK
<1>4. IdsOK(home', mission', cmds')
  BY <1>1, <1>2, <1>3 DEF IdsOK, CanStay
<1>5. Behind(mission', queue', fallback')
  BY <1>1, <1>2 DEF Behind, EngineOK, PlanOK, CanStay
<1> QED
  BY <1>1, <1>3, <1>4, <1>5 DEF EngineOK, PlanOK

\* A handler that starts or goes on with the plan as it is.
LEMMA PlanKeeps ==
  ASSUME EngineOK, NEW m, RunPlanAt(queue, m), UNCHANGED <<fallback, cmds>>,
         mission = NoMission => m = NoMission
  PROVE  EngineOK'
<1> USE NoMissionAssumption
<1>1. mission # NoMission => /\ fallback # "None"
                             /\ queue # <<>> => Head(queue).step # "MoveWaypoint"
  <2>1. ASSUME mission # NoMission
        PROVE  /\ fallback # "None"
               /\ \A i \in DOMAIN queue : queue[i].step = "MoveHover"
    BY <2>1 DEF EngineOK, PlanOK, Behind
  <2>2. queue \in Seq(Entries)
    BY DEF EngineOK, PlanOK, QueueOK
  <2>3. queue # <<>> => 1 \in DOMAIN queue /\ Head(queue) = queue[1]
    BY <2>2
  <2> QED
    BY <2>1, <2>3
<1>2. /\ VehicleOK' /\ IdsOK(home', mission', cmds)
      /\ QueueOK(queue', fallback, home', answer', cmds)
      /\ Behind(mission', queue', fallback)
  BY <1>1, RunPlanOK DEF EngineOK, PlanOK
<1> QED
  BY <1>2 DEF EngineOK, PlanOK

\* Back from a side trip to the parent it was made from.
LEMMA BackCanStay ==
  ASSUME VehicleOK, leaf \in Side
  PROVE  CanStay(IF InWaypoint THEN "Lifting" ELSE "Hover", CmdLeft, mission)
BY DEF CanStay, VehicleOK, VehicleTypes, NoStalePosition, IndexInRange, InWaypoint,
       InPosVel, CmdLeft, Side, Ground, Leaves, Position, Velocity

\* The step back to the parent after a side trip (get_next_state) keeps the invariant.
LEMMA BackKeeps ==
  ASSUME EngineOK, leaf \in Side, BackToParent,
         UNCHANGED <<queue, fallback, answer, cmds>>
  PROVE  EngineOK'
<1>1. cmds \in 0..MaxCmds
  BY DEF EngineOK, PlanOK, QueueOK
<1> QED
  BY <1>1, BackCanStay, StayingKeeps DEF BackToParent, Within, EngineOK

\* Appending a target given in Hover or below a mission.
LEMMA AppendOK ==
  ASSUME NEW q, NEW f, NEW g, NEW h, NEW a, NEW n, NEW e,
         QueueOK(q, f, h, a, n), g \in Fallbacks \ {"None"}, 
         e \in Entries, e.step \in {"MoveHover", "MoveWaypoint"}, e.id = 0,
         e.step = "MoveWaypoint" => \A i \in DOMAIN q : q[i].step = "MoveHover"
  PROVE  QueueOK(Append(q, e), g, h, a, n)
<1> DEFINE s == Append(q, e)
<1>1. q \in Seq(Entries) /\ n \in 0..MaxCmds
  BY DEF QueueOK
<1>2. /\ s \in Seq(Entries)
      /\ DOMAIN s = 1..Len(q) + 1 /\ DOMAIN q = 1..Len(q) /\ Len(q) \in Nat
      /\ \A i \in DOMAIN q : s[i] = q[i]
      /\ s[Len(q) + 1] = e
  BY <1>1
<1>3. \A i \in DOMAIN s : i \in DOMAIN q \/ (i = Len(q) + 1 /\ s[i] = e)
  BY <1>2
<1> HIDE DEF s
<1>4. /\ s \in Seq(Entries) /\ g \in Fallbacks /\ a \in Answers /\ n \in 0..MaxCmds
      /\ g # "None"
      /\ \A c \in Cmds : c > n => a[c] = "none"
  BY <1>2 DEF QueueOK
<1>5. /\ \A i \in DOMAIN s : s[i].id <= n
      /\ \A i \in DOMAIN s : s[i].step = "Mission" => h <= s[i].id
  BY <1>1, <1>2, <1>3 DEF QueueOK
<1>6. \A i, j \in DOMAIN s : i < j /\ s[i].step = "Mission" => s[j].step = "MoveHover"
  BY <1>2, <1>3 DEF QueueOK
<1>7. \A i \in DOMAIN s :
        s[i].step = "Takeoff" /\ s[i].id # 0 =>
          /\ a[s[i].id] = "pending"
          /\ \A j \in DOMAIN s : s[j].id = s[i].id => i = j
  BY <1>2, <1>3 DEF QueueOK
<1> QED
  BY <1>4, <1>5, <1>6, <1>7 DEF QueueOK, s

-----------------------------------------------------------------------------
(* The handlers.                                                           *)

\* A new command gets the next number.
LEMMA NewCmdNumber ==
  ASSUME EngineOK, NewCmd
  PROVE  /\ cmds' = cmds + 1 /\ Id = cmds + 1 /\ cmds' \in 0..MaxCmds /\ Id \in Cmds
         /\ cmds \in Nat /\ home \in Nat /\ home <= cmds
         /\ mission \in Missions \cup {NoMission}
         /\ answer \in Answers /\ answer[Id] = "none"
         /\ QueueOK(queue, fallback, home, answer, cmds')
         /\ IdsOK(home, mission, cmds')
<1>1. /\ cmds \in 0..MaxCmds /\ cmds < MaxCmds /\ cmds' = cmds + 1
      /\ home \in Nat /\ home <= cmds
      /\ mission \in Missions \cup {NoMission} /\ answer \in Answers
  BY DEF NewCmd, EngineOK, PlanOK, QueueOK, VehicleOK, VehicleTypes, Cmds, IdsOK
<1>2. cmds' \in 0..MaxCmds /\ Id \in Cmds /\ Id = cmds + 1 /\ Id > cmds
  BY <1>1, MaxCmdsAssumption DEF Id, Cmds
<1>3. answer[Id] = "none"
  BY <1>2 DEF EngineOK, PlanOK, QueueOK
<1>4. QueueOK(queue, fallback, home, answer, cmds') /\ IdsOK(home, mission, cmds')
  BY <1>1, <1>2, NextNumber DEF EngineOK, PlanOK
<1> QED
  BY <1>1, <1>2, <1>3, <1>4

\* on_event(TakeoffEvent) keeps the invariant.
LEMMA TakeoffCmdKeeps ==
  ASSUME EngineOK, TakeoffCmd
  PROVE  EngineOK'
<1> DEFINE e == Entry("Takeoff", Id, FALSE, 0, "no")
<1>1. /\ cmds' = cmds + 1 /\ Id = cmds + 1 /\ cmds' \in 0..MaxCmds /\ Id \in Cmds
      /\ cmds \in Nat /\ home \in Nat /\ home <= cmds
      /\ answer \in Answers /\ answer[Id] = "none"
      /\ \A c \in Cmds : c > cmds' => answer[c] = "none"
  BY NewCmdNumber DEF TakeoffCmd, QueueOK
<1>2. e \in Entries /\ e.step = "Takeoff" /\ e.id = Id
  BY <1>1 DEF Entry, Entries
<1>3. PICK r \in {"pending", "ok", "rejected"} :
        /\ Leaving /\ answer' = [answer EXCEPT ![Id] = r] /\ fallback' = "Hover"
        /\ (r = "pending" /\ queue' = <<e>>) \/ queue' = <<>>
  <2>1. CASE EnterArm /\ queue' = <<e>> /\ answer' = [answer EXCEPT ![Id] = "pending"]
    BY <2>1 DEF TakeoffCmd, Leaving
  <2>2. CASE RunTakeoff(e) /\ queue' = <<>>
    BY <1>1, <1>2, <2>2, HoverOrGroundLeaves DEF TakeoffCmd, RunTakeoff, Settle, Leaving
  <2> QED
    BY <2>1, <2>2 DEF TakeoffCmd
<1> HIDE DEF e
<1>4. VehicleOK' /\ mission' = NoMission /\ home' \in {home, 0}
  BY <1>3, LeavingOK DEF EngineOK
<1>5. answer' \in Answers /\ answer'[Id] = r /\ \A c \in Cmds : c > cmds' => answer'[c] = "none"
  BY <1>1, <1>3 DEF Answers
<1>6. QueueOK(queue', fallback', home', answer', cmds')
  <2>1. CASE queue' = <<>>
    BY <1>1, <1>3, <1>5, <2>1 DEF QueueOK, Fallbacks
  <2>2. CASE r = "pending" /\ queue' = <<e>>
    <3>1. queue' \in Seq(Entries) /\ DOMAIN queue' = {1} /\ queue'[1] = e
      BY <1>2, <2>2
    <3> QED
      BY <1>1, <1>2, <1>3, <1>5, <2>2, <3>1 DEF QueueOK, Fallbacks
  <2> QED
    BY <1>3, <2>1, <2>2
<1>7. IdsOK(home', mission', cmds')
  BY <1>1, <1>4 DEF IdsOK
<1> QED
  BY <1>4, <1>6, <1>7 DEF EngineOK, PlanOK, Behind

\* on_event(SetWaypointEvent) keeps the invariant, on the ground and in the air.
LEMMA SetWaypointKeeps ==
  ASSUME EngineOK, NEW given \in Nat, NEW finish \in {"HOVER", "RETURN", "LAND"},
         NEW pland \in BOOLEAN, SetWaypoint(given, finish, pland)
  PROVE  EngineOK'
<1> DEFINE ret == ReturnPoint(finish)
           own == given > 0
           len == Kept(given) + (IF finish = "RETURN" THEN 1 ELSE 0)
           wp  == Entry("Mission", Id, own, len, ret)
           climb == Entry("Takeoff", 0, FALSE, 0, "no")
<1>1. /\ cmds' = cmds + 1 /\ Id = cmds + 1 /\ cmds' \in 0..MaxCmds /\ Id \in Cmds
      /\ cmds \in Nat /\ home \in Nat /\ home <= cmds
      /\ mission \in Missions \cup {NoMission}
      /\ QueueOK(queue, fallback, home, answer, cmds')
      /\ IdsOK(home, mission, cmds')
  BY NewCmdNumber DEF SetWaypoint, AfterMission, Landing
<1>2. ret \in Return
  BY DEF ReturnPoint, Return, EngineOK, VehicleOK, VehicleTypes
<1>3. /\ wp \in Entries /\ wp.step = "Mission" /\ wp.id = Id
      /\ climb \in Entries /\ climb.step = "Takeoff" /\ climb.id = 0
  <2>1. len \in Nat
    BY DEF Kept
  <2> QED
    BY <1>1, <1>2, <2>1 DEF Entry, Entries
<1>4. CASE /\ UNCHANGED <<queue, fallback, answer>>
           /\ EnterLand(pland) \/ (leaf = "Land" /\ Within(leaf, cmd))
  <2>1. CASE EnterLand(pland)
    BY <1>1, <1>4, <2>1, LeavingKeeps DEF Leaving
  <2>2. CASE leaf = "Land" /\ Within(leaf, cmd)
    BY <1>1, <1>4, <2>2, StayHere, StayingKeeps DEF Within, EngineOK
  <2> QED
    BY <1>4, <2>1, <2>2
<1> HIDE DEF wp, climb
<1>5. ASSUME NEW q, q = <<climb, wp>> \/ q = <<wp>>, RunPlan(q),
             fallback' \in Fallbacks \ {"None"}
      PROVE  EngineOK'
  <2>1. /\ q \in Seq(Entries) /\ q # <<>> /\ Head(q).step \in {"Takeoff", "Mission"}
        /\ \/ DOMAIN q = {1, 2} /\ q[1] = climb /\ q[2] = wp
           \/ DOMAIN q = {1} /\ q[1] = wp
    <3>1. CASE q = <<climb, wp>>
      <4>1. q \in Seq(Entries) /\ Len(q) = 2 /\ q[1] = climb /\ q[2] = wp
        BY <1>3, <3>1
      <4>2. q # <<>> /\ DOMAIN q = 1..2 /\ Head(q) = climb
        BY <3>1, <4>1
      <4> QED
        BY <1>3, <4>1, <4>2
    <3>2. CASE q = <<wp>>
      <4>1. q \in Seq(Entries) /\ Len(q) = 1 /\ q[1] = wp
        BY <1>3, <3>2
      <4>2. q # <<>> /\ DOMAIN q = 1..1 /\ Head(q) = wp
        BY <3>2, <4>1
      <4> QED
        BY <1>3, <4>1, <4>2
    <3> QED
      BY <1>5, <3>1, <3>2
  <2>2. QueueOK(q, fallback', home, answer, cmds')
    <3>1. \A i \in DOMAIN q : q[i].id \in {0, Id} /\ q[i].step \in {"Takeoff", "Mission"}
      BY <1>3, <2>1
    <3>2. \A i \in DOMAIN q : q[i].step = "Takeoff" => q[i].id = 0
      BY <1>3, <2>1
    <3>3. \A i \in DOMAIN q : q[i].step = "Mission" => q[i].id = Id
      BY <1>3, <2>1
    <3>4. \A i, j \in DOMAIN q : i < j => q[i].step # "Mission"
      BY <1>3, <2>1
    <3> QED
      BY <1>1, <1>5, <2>1, <3>1, <3>2, <3>3, <3>4 DEF QueueOK
  <2>3. mission = NoMission => mission = NoMission
    OBVIOUS
  <2>4. /\ VehicleOK' /\ IdsOK(home', mission', cmds')
        /\ QueueOK(queue', fallback', home', answer', cmds')
        /\ Behind(mission', queue', fallback')
    BY <1>1, <1>5, <2>1, <2>2, RunPlanOK DEF EngineOK, RunPlan
  <2> QED
    BY <2>4 DEF EngineOK, PlanOK
<1>6. ASSUME fallback' = IF finish = "HOVER" THEN "Hover"
                         ELSE IF pland THEN "LandPland" ELSE "Land"
      PROVE  fallback' \in Fallbacks \ {"None"}
  BY <1>6 DEF Fallbacks
<1>7. CASE RunPlan(<<climb, wp>>) /\ fallback' \in Fallbacks \ {"None"}
  BY <1>5, <1>7
<1>8. CASE RunPlan(<<wp>>) /\ fallback' \in Fallbacks \ {"None"}
  BY <1>5, <1>8
<1> QED
  BY <1>4, <1>6, <1>7, <1>8 DEF SetWaypoint, AfterMission, Landing, wp, climb

\* on_event(SetPosVelEvent) keeps the invariant, in each of its three branches.
LEMMA SetPosVelKeeps ==
  ASSUME EngineOK, SetPosVel
  PROVE  EngineOK'
<1> USE NoMissionAssumption
<1>1. /\ cmds' = cmds + 1 /\ cmds' \in 0..MaxCmds
      /\ mission \in Missions \cup {NoMission}
      /\ QueueOK(queue, fallback, home, answer, cmds')
      /\ IdsOK(home, mission, cmds')
  BY NewCmdNumber DEF SetPosVel
<1>2. CASE InPosVel /\ Within("Move", "Point") /\ UNCHANGED <<queue, fallback, answer>>
  <2>1. CanStay("Move", "Point", mission)
    BY <1>2 DEF CanStay, InPosVel, EngineOK, VehicleOK, VehicleTypes, IndexInRange,
       InWaypoint, Side, Ground, Leaves, Position, Velocity
  <2> QED
    BY <1>1, <1>2, <2>1, StayingKeeps DEF Within
<1>3. CASE leaf = "Turn" /\ Within(leaf, cmd) /\ UNCHANGED <<queue, fallback, answer>>
  BY <1>1, <1>3, StayHere, StayingKeeps DEF Within, EngineOK
<1>4. ASSUME NEW e, e.step \in {"MoveHover", "MoveWaypoint"}, e \in Entries, e.id = 0,
             e.step = "MoveWaypoint" <=> InWaypoint,
             fallback' \in Fallbacks \ {"None"},
             RunPlan(Append(queue, e))
      PROVE  EngineOK'
  <2>1. queue \in Seq(Entries)
    BY DEF EngineOK, PlanOK, QueueOK
  <2>2. InWaypoint => \A i \in DOMAIN queue : queue[i].step = "MoveHover"
    BY DEF EngineOK, PlanOK, Behind, InWaypoint
  <2>3. QueueOK(Append(queue, e), fallback', home, answer, cmds')
    BY <1>1, <1>4, <2>2, AppendOK
  <2>4. /\ Append(queue, e) # <<>>
        /\ queue = <<>> => Head(Append(queue, e)) = e /\ Tail(Append(queue, e)) = <<>>
        /\ queue # <<>> => Head(Append(queue, e)) = queue[1] /\ 1 \in DOMAIN queue
    <3>1. Append(queue, e) # <<>>
      BY <1>4, <2>1
    <3>2. queue # <<>> => Head(queue) = queue[1] /\ 1 \in DOMAIN queue
      BY <2>1
    <3> QED
      BY <2>1, <3>1, <3>2, HeadTailAppend
  <2>5. mission # NoMission /\ Head(Append(queue, e)).step = "MoveWaypoint" =>
          Tail(Append(queue, e)) = <<>>
    BY <2>2, <2>4 DEF InWaypoint
  <2>6. /\ VehicleOK' /\ IdsOK(home', mission', cmds')
        /\ QueueOK(queue', fallback', home', answer', cmds')
        /\ Behind(mission', queue', fallback')
    BY <1>1, <1>4, <2>3, <2>4, <2>5, RunPlanOK DEF EngineOK, RunPlan
  <2> QED
    BY <2>6 DEF EngineOK, PlanOK
<1>5. CASE /\ InWaypoint /\ UNCHANGED fallback
           /\ RunPlan(Append(queue, Entry("MoveWaypoint", 0, FALSE, 0, "no")))
  <2>1. fallback' \in Fallbacks \ {"None"}
    BY <1>5 DEF EngineOK, PlanOK, QueueOK, Behind, InWaypoint
  <2> DEFINE e == Entry("MoveWaypoint", 0, FALSE, 0, "no")
  <2>2. e \in Entries /\ e.step = "MoveWaypoint" /\ e.id = 0
    BY DEF Entry, Entries
  <2>3. RunPlan(Append(queue, e)) /\ InWaypoint
    BY <1>5
  <2> HIDE DEF e
  <2> QED
    BY <1>4, <2>1, <2>2, <2>3
<1>6. CASE /\ ~InPosVel /\ InHover /\ fallback' = "Hover"
           /\ RunPlan(Append(queue, Entry("MoveHover", 0, FALSE, 0, "no")))
  <2>1. ~InWaypoint
    BY <1>6 DEF InHover, InWaypoint, EngineOK, VehicleOK, MissionShape, Side
  <2> DEFINE e == Entry("MoveHover", 0, FALSE, 0, "no")
  <2>2. e \in Entries /\ e.step = "MoveHover" /\ e.id = 0
    BY DEF Entry, Entries
  <2>3. RunPlan(Append(queue, e)) /\ fallback' \in Fallbacks \ {"None"}
    BY <1>6 DEF Fallbacks
  <2> HIDE DEF e
  <2> QED
    BY <1>4, <2>1, <2>2, <2>3
<1> QED
  BY <1>2, <1>3, <1>5, <1>6 DEF SetPosVel

\* LandEvent, LoiterEvent and RestartEvent keep the invariant.
LEMMA OtherCommandsKeep ==
  ASSUME EngineOK, \/ \E pland \in BOOLEAN : LandCmd(pland)
                   \/ Loiter \/ Restart
  PROVE  EngineOK'
<1>1. ASSUME NEW pland \in BOOLEAN, LandCmd(pland)
      PROVE  EngineOK'
  <2>1. Leaving /\ cmds' = cmds + 1 /\ cmds' \in 0..MaxCmds
    BY <1>1, NewCmdNumber DEF LandCmd, Leaving
  <2> QED
    BY <1>1, <2>1, LeavingKeeps DEF LandCmd
<1>2. CASE Loiter
  <2>1. cmds' = cmds + 1 /\ cmds' \in 0..MaxCmds
    BY <1>2, NewCmdNumber DEF Loiter
  <2>2. CASE InHover /\ Within("Hover", CmdLeft)
    <3>1. CanStay("Hover", CmdLeft, mission)
      BY <2>2 DEF CanStay, EngineOK, VehicleOK, VehicleTypes, NoStalePosition,
         MissionShape, InHover, InWaypoint, InPosVel, CmdLeft, Side, Ground, Leaves,
         Position, Velocity
    <3> QED
      BY <1>2, <2>1, <2>2, <3>1, StayingKeeps DEF Loiter, Within
  <2>3. CASE EnterHover
    BY <1>2, <2>1, <2>3, LeavingKeeps DEF Loiter, Leaving
  <2> QED
    BY <1>2, <2>2, <2>3 DEF Loiter
<1>3. CASE Restart
  <2>1. Leaving /\ cmds' = cmds + 1 /\ cmds' \in 0..MaxCmds
    BY <1>3, NewCmdNumber DEF Restart, Leaving
  <2> QED
    BY <1>3, <2>1, LeavingKeeps DEF Restart
<1> QED
  BY <1>1, <1>2, <1>3

\* Every operator command keeps the invariant.
LEMMA CommandKeeps ==
  ASSUME EngineOK, Command
  PROVE  EngineOK'
<1>1. ASSUME NEW given \in 0..MaxGiven, NEW finish \in {"HOVER", "RETURN", "LAND"},
             NEW pland \in BOOLEAN, SetWaypoint(given, finish, pland)
      PROVE  EngineOK'
  <2>1. given \in Nat
    BY MaxGivenAssumption
  <2> QED
    BY <1>1, <2>1, SetWaypointKeeps
<1> QED
  BY <1>1, TakeoffCmdKeeps, SetPosVelKeeps, OtherCommandsKeep DEF Command

\* Every on_tick keeps the invariant.
LEMMA TickKeeps ==
  ASSUME EngineOK, Tick
  PROVE  EngineOK'
<1> USE NoMissionAssumption
<1>a. cmds \in 0..MaxCmds
  BY DEF EngineOK, PlanOK, QueueOK
<1>1. CASE \/ ListenerTick \/ InitTick \/ GroundTick \/ ArmTimeout
           \/ TakeoffStalled \/ LandTick
  <2>1. Leaving /\ UNCHANGED <<queue, fallback, answer, cmds>>
    BY <1>1, HoverOrGroundLeaves DEF ListenerTick, InitTick, GroundTick, ArmTimeout,
       TakeoffStalled, LandTick, Leaving, UnchangedPlan, ctxVars
  <2> QED
    BY <1>a, <2>1, LeavingKeeps
<1>2. CASE TakeoffDone
  BY <1>2, PlanKeeps DEF TakeoffDone, RunPlan, ctxVars
<1>3. CASE LiftingTick
  <2>1. \E l \in {"Lifting", "Execute"}, c \in {"Climb", "Path"} :
          WithinAt(l, c, mission) /\ CanStay(l, c, mission)
    BY <1>3 DEF LiftingTick, Within, CanStay, EngineOK, VehicleOK, VehicleTypes,
       MissionShape, IndexInRange, InWaypoint, Side, Ground, Leaves, Position, Velocity
  <2> QED
    BY <1>3, <1>a, <2>1, StayingKeeps DEF LiftingTick, UnchangedPlan, ctxVars
<1>4. CASE WaypointArrive
  <2>1. mission \in Missions /\ mission # NoMission
    BY <1>4 DEF WaypointArrive, RouteDone, EngineOK, VehicleOK, VehicleTypes, MissionShape,
       InWaypoint
  <2>2. CASE RunPlanAt(queue, [mission EXCEPT !.idx = mission.idx + 1])
    BY <1>4, <2>1, <2>2, PlanKeeps DEF WaypointArrive, RouteDone, ctxVars
  <2>3. CASE /\ mission.idx + 1 < mission.len
             /\ mission' = [mission EXCEPT !.idx = mission.idx + 1]
             /\ \/ leaf' = "Lifting" /\ UNCHANGED cmd
                \/ leaf' = "Execute" /\ cmd' = "Path"
             /\ UNCHANGED <<queue, doPland, plandOn, home, takeoffPt, answer>>
    <3>1. /\ mission' \in Missions /\ mission'.idx < mission'.len
          /\ mission'.id = mission.id /\ mission'.own = mission.own
      <4>1. /\ mission.idx + 1 \in Nat
            /\ mission'.idx = mission.idx + 1 /\ mission'.len = mission.len
            /\ mission'.id = mission.id /\ mission'.own = mission.own
        BY <2>1, <2>3 DEF Missions
      <4>2. mission' \in Missions
        BY <2>1, <2>3, <4>1 DEF Missions
      <4> QED
        BY <2>3, <4>1, <4>2
    <3>2. WithinAt(leaf', cmd', mission') /\ CanStay(leaf', cmd', mission')
      BY <1>4, <2>1, <2>3, <3>1 DEF WaypointArrive, RouteDone, WithinAt, CanStay, EngineOK,
         VehicleOK, VehicleTypes, Side, Ground, Leaves, Position, Velocity
    <3>3. UNCHANGED <<queue, fallback, answer, cmds>>
      BY <1>4, <2>3 DEF WaypointArrive, RouteDone, ctxVars
    <3> QED
      BY <1>a, <3>2, <3>3, StayingKeeps
  <2>4. mission.idx \in Nat /\ mission.len \in Nat
    BY <2>1 DEF Missions
  <2> QED
    BY <1>4, <2>2, <2>3, <2>4 DEF WaypointArrive, RouteDone
<1>5. CASE MoveArrive \/ TurnTick \/ PosVelTimeout
  <2>1. leaf \in Side /\ UNCHANGED <<queue, fallback, answer, cmds>>
    BY <1>5 DEF MoveArrive, TurnTick, PosVelTimeout, InPosVel, Side, UnchangedPlan,
       ctxVars
  <2>2. CASE BackToParent
    BY <2>1, <2>2, BackKeeps
  <2>3. ASSUME NEW c \in {cmd, "Yaw"}, leaf \in {"Move", "Turn"}, Within("Turn", c)
        PROVE  EngineOK'
    <3>1. CanStay("Turn", c, mission)
      BY <2>3 DEF CanStay, EngineOK, VehicleOK, VehicleTypes, NoStalePosition,
         IndexInRange, InWaypoint, Side, Ground, Leaves, Velocity, Position
    <3> QED
      BY <1>a, <2>1, <2>3, <3>1, StayingKeeps DEF Within
  <2> QED
    BY <1>5, <2>2, <2>3 DEF MoveArrive, TurnTick, PosVelTimeout
<1> QED
  BY <1>1, <1>2, <1>3, <1>4, <1>5 DEF Tick

\* Detections, telemetry, deliveries and the tracker keep the invariant.
LEMMA EnvironmentKeeps ==
  ASSUME EngineOK, Environment
  PROVE  EngineOK'
<1> USE NoMissionAssumption
<1>a. cmds \in 0..MaxCmds
  BY DEF EngineOK, PlanOK, QueueOK
<1>1. CASE StopFollow
  <2>1. leaf \in Side /\ BackToParent /\ UNCHANGED <<queue, fallback, answer, cmds>>
    BY <1>1 DEF StopFollow, Side
  <2> QED
    BY <2>1, BackKeeps
<1>2. CASE Detect
  <2>1. UNCHANGED <<queue, fallback, answer, cmds>>
    BY <1>2 DEF Detect, ctxVars
  <2>2. CASE EnterArm
    BY <1>a, <2>1, <2>2, LeavingKeeps DEF Leaving
  <2>3. ASSUME NEW c \in {"Chase", "Zero"}, Within("Follow", c),
               leaf = "Follow" \/ InHover \/ InWaypoint
        PROVE  EngineOK'
    <3>1. CanStay("Follow", c, mission)
      BY <2>3 DEF CanStay, EngineOK, VehicleOK, VehicleTypes, MissionShape,
         IndexInRange, InHover, InWaypoint, Side, Ground, Leaves, Velocity, Position
    <3> QED
      BY <1>a, <2>1, <2>3, <3>1, StayingKeeps DEF Within
  <2> QED
    BY <1>2, <2>2, <2>3 DEF Detect
<1>3. CASE Deliver
  <2>1. CASE RunPlan(queue) /\ UNCHANGED fallback
    BY <1>3, <2>1, PlanKeeps DEF Deliver, TakesArmEvents, RunPlan
  <2>2. CASE EnterHoverOrGround /\ UnchangedPlan
    BY <1>3, <1>a, <2>2, HoverOrGroundLeaves, LeavingKeeps
       DEF Deliver, TakesArmEvents, UnchangedPlan
  <2>3. CASE UNCHANGED engineVars
    <3>1. WithinAt(leaf, cmd, mission) /\ UNCHANGED <<queue, fallback, answer, cmds>>
      BY <1>3, <2>3 DEF Deliver, TakesArmEvents, engineVars, WithinAt
    <3> QED
      BY <1>a, <3>1, StayHere, StayingKeeps DEF EngineOK
  <2> QED
    BY <1>3, <2>1, <2>2, <2>3 DEF Deliver, TakesArmEvents
<1>4. CASE TrackerIdle
  <2>1. WithinAt(leaf, "None", mission) /\ UNCHANGED <<queue, fallback, answer, cmds>>
    BY <1>4 DEF TrackerIdle, WithinAt, ctxVars
  <2>2. CanStay(leaf, "None", mission)
    BY StayHere DEF EngineOK, CanStay, Position
  <2> QED
    BY <1>a, <2>1, <2>2, StayingKeeps
<1>5. CASE \/ ArmTelemetry \/ PrearmText \/ ThrottleTelemetry \/ OdomTelemetry
           \/ HomeTelemetry \/ CooldownOver
  <2>1. WithinAt(leaf, cmd, mission) /\ UNCHANGED <<queue, fallback, answer, cmds>>
    BY <1>5 DEF ArmTelemetry, PrearmText, ThrottleTelemetry, OdomTelemetry,
       HomeTelemetry, CooldownOver, engineVars, WithinAt
  <2> QED
    BY <1>a, <2>1, StayHere, StayingKeeps DEF EngineOK
<1> QED
  BY <1>1, <1>2, <1>3, <1>4, <1>5 DEF Environment

\* Every step keeps the types of the context.
LEMMA ContextKeeps ==
  ASSUME CtxTypes, Next
  PROVE  CtxTypes'
<1> USE DEF CtxTypes, ctxVars, UnchangedCtx
<1>1. CASE Command
  <2>1. CASE Restart
    BY <2>1 DEF Restart
  <2>2. ASSUME NEW given, NEW finish, NEW pland, SetWaypoint(given, finish, pland)
        PROVE  UnchangedCtx
    BY <2>2 DEF SetWaypoint, AfterMission, Landing
  <2>3. ASSUME NEW pland, LandCmd(pland)
        PROVE  UnchangedCtx
    BY <2>3 DEF LandCmd
  <2>4. CASE TakeoffCmd \/ SetPosVel \/ Loiter
    BY <2>4 DEF TakeoffCmd, SetPosVel, Loiter
  <2>5. CASE UnchangedCtx
    BY <2>5
  <2> QED
    BY <1>1, <2>1, <2>2, <2>3, <2>4, <2>5 DEF Command
<1>2. CASE Tick
  BY <1>2 DEF Tick, ListenerTick, InitTick, GroundTick, ArmTimeout, TakeoffDone,
     TakeoffStalled, LiftingTick, WaypointArrive, RouteDone, MoveArrive, TurnTick,
     PosVelTimeout, LandTick
<1>3. CASE Environment
  <2>1. CASE StopFollow \/ Detect \/ ThrottleTelemetry \/ OdomTelemetry
             \/ HomeTelemetry \/ CooldownOver \/ TrackerIdle
    BY <2>1 DEF StopFollow, Detect, ThrottleTelemetry, OdomTelemetry,
       HomeTelemetry, CooldownOver, TrackerIdle
  <2>2. CASE ArmTelemetry \/ PrearmText
    <3>1. PICK e \in {"armed", "disarmed", "prearm"} : events' = Append(events, e)
      BY <2>2 DEF ArmTelemetry, PrearmText
    <3>2. events' \in Seq({"armed", "disarmed", "prearm"})
      BY <3>1
    <3> QED
      BY <2>2, <3>2 DEF ArmTelemetry, PrearmText
  <2>3. CASE Deliver
    <3>1. events # <<>> /\ events' = Tail(events)
      BY <2>3 DEF Deliver, TakesArmEvents
    <3>2. events' \in Seq({"armed", "disarmed", "prearm"})
      BY <3>1
    <3> QED
      BY <2>3, <3>2 DEF Deliver, TakesArmEvents
  <2> QED
    BY <1>3, <2>1, <2>2, <2>3 DEF Environment
<1> QED
  BY <1>1, <1>2, <1>3 DEF Next

-----------------------------------------------------------------------------
(* The theorems.                                                           *)

\* FlightInv holds in every reachable state: the code's states, plan and context
\* stay consistent whatever commands, ticks and telemetry are interleaved.
THEOREM FlightInvariant == Spec => []FlightInv
<1>1. Init => FlightInv
  <2> SUFFICES ASSUME Init
               PROVE  FlightInv
    OBVIOUS
  <2>1. queue \in Seq(Entries) /\ DOMAIN queue = {} /\ events \in Seq({"armed", "disarmed", "prearm"})
    BY DEF Init
  <2>2. answer \in [Cmds -> {"none", "pending", "ok", "rejected"}] /\ cmds \in 0..MaxCmds
    BY MaxCmdsAssumption DEF Init
  <2>3. TypeOK
    BY <2>1, <2>2 DEF Init, TypeOK, Leaves, Ground, Position, Velocity
  <2>4. /\ MissionShape /\ IndexInRange /\ NoStalePosition
        /\ PlandOnlyWhileLanding /\ HomeBelongsToFlight
    BY DEF Init, MissionShape, IndexInRange, NoStalePosition, PlandOnlyWhileLanding,
       HomeBelongsToFlight, InWaypoint
  <2>5. IdsInOrder /\ PlanShape /\ QueuedTakeoffUnanswered
    BY <2>1 DEF Init, IdsInOrder, PlanShape, QueuedTakeoffUnanswered, InWaypoint
  <2> QED
    BY <2>3, <2>4, <2>5 DEF FlightInv
<1>2. FlightInv /\ [Next]_vars => FlightInv'
  <2> SUFFICES ASSUME FlightInv, [Next]_vars
               PROVE  FlightInv'
    OBVIOUS
  <2>1. EngineOK /\ CtxTypes
    BY InvParts DEF EngineOK
  <2>2. CASE Next
    <3>1. EngineOK'
      BY <2>1, <2>2, CommandKeeps, TickKeeps, EnvironmentKeeps DEF Next
    <3>2. CtxTypes'
      BY <2>1, <2>2, ContextKeeps
    <3> QED
      BY <3>1, <3>2 DEF EngineOK, FlightInv, TypeOK, VehicleOK, VehicleTypes, IdsOK,
         IdsInOrder, PlanOK, QueueOK, Behind, PlanShape, CtxTypes, Fallbacks, Answers,
         QueuedTakeoffUnanswered, InWaypoint
  <2>3. CASE UNCHANGED vars
    BY <2>3 DEF vars, engineVars, ctxVars, FlightInv, TypeOK, MissionShape,
       IdsInOrder, PlanShape, IndexInRange, NoStalePosition, PlandOnlyWhileLanding,
       HomeBelongsToFlight, QueuedTakeoffUnanswered, InWaypoint
  <2> QED
    BY <2>2, <2>3
<1> QED
  BY <1>1, <1>2, PTL DEF Spec

\* No type of the state is ever left.
THEOREM TypeCorrect == Spec => []TypeOK
<1>1. FlightInv => TypeOK
  BY DEF FlightInv
<1> QED
  BY <1>1, FlightInvariant, PTL

\* The current waypoint of a live mission always exists.
THEOREM MissionIndexInRange == Spec => []IndexInRange
<1>1. FlightInv => IndexInRange
  BY DEF FlightInv
<1> QED
  BY <1>1, FlightInvariant, PTL

\* Whatever waits behind a live mission leaves it.
THEOREM PlanAlwaysLeavesMission == Spec => []PlanLeavesMission
<1>1. FlightInv => PlanLeavesMission
  BY DEF FlightInv, PlanShape, PlanLeavesMission
<1> QED
  BY <1>1, FlightInvariant, PTL

\* No position command survives into Hover, Land or Follow, nor a path into a side trip.
THEOREM PositionNeverStale == Spec => []NoStalePosition
<1>1. FlightInv => NoStalePosition
  BY DEF FlightInv
<1> QED
  BY <1>1, FlightInvariant, PTL

\* The precision landing module is on exactly while its landing is active.
THEOREM PlandFollowsLanding == Spec => []PlandOnlyWhileLanding
<1>1. FlightInv => PlandOnlyWhileLanding
  BY DEF FlightInv
<1> QED
  BY <1>1, FlightInvariant, PTL

\* mission_home always belongs to the present flight.
THEOREM HomeOfThisFlight == Spec => []HomeBelongsToFlight
<1>1. FlightInv => HomeBelongsToFlight
  BY DEF FlightInv
<1> QED
  BY <1>1, FlightInvariant, PTL

\* A takeoff that waits in the plan has not been answered: every request in the queue can
\* still be settled by the state it will construct.
THEOREM QueuedRequestsUnanswered == Spec => []QueuedTakeoffUnanswered
<1>1. FlightInv => QueuedTakeoffUnanswered
  BY DEF FlightInv
<1> QED
  BY <1>1, FlightInvariant, PTL

-----------------------------------------------------------------------------
(* Action properties.                                                      *)

\* An entry that waits already, or one that this step's command brings.
Known(e) ==
  \/ \E i \in DOMAIN queue : e = queue[i]
  \/ e.id = cmds + 1 /\ cmds' = cmds + 1

\* What a step does to the mission.
Keeps    == \E l, c : WithinAt(l, c, mission)
Advances == /\ leaf = "Execute" /\ InWaypoint
            /\ \E l, c : WithinAt(l, c, [mission EXCEPT !.idx = mission.idx + 1])
Starts   == \E e : /\ EnterMission(e) /\ e.step = "Mission" /\ Known(e)
                   /\ InWaypoint => e.id # mission.id

\* A plan leaves every state, keeps the mission, or starts the next one.
LEMMA PlanKinds ==
  ASSUME NEW q, NEW m, RunPlanAt(q, m),
         mission # NoMission => fallback # "None" /\ (q # <<>> => m = mission \/ Head(q).step # "MoveWaypoint"),
         mission = NoMission => m = NoMission,
         VehicleOK
  PROVE  \/ Leaving \/ Keeps
         \/ q # <<>> /\ Head(q).step = "Mission" /\ EnterMission(Head(q))
<1>1. CASE q = <<>> /\ RunFallback(m)
  BY <1>1 DEF RunFallback, Leaving, Keeps
<1>2. CASE q # <<>> /\ EnterArm
  BY <1>2 DEF Leaving
<1>3. CASE q # <<>> /\ RunEntry(Head(q), m)
  <2>1. CASE RunTakeoff(Head(q))
    BY <2>1, HoverOrGroundLeaves DEF RunTakeoff, Leaving
  <2>2. CASE Head(q).step = "Mission" /\ RunMission(Head(q))
    BY <1>3, <2>2 DEF RunMission, Leaving
  <2>3. CASE RunMove(Head(q), m)
    <3>1. InHover => mission = NoMission
      BY DEF InHover, InWaypoint, VehicleOK, MissionShape, Side
    <3> QED
      BY <1>3, <2>3, <3>1 DEF RunMove, Leaving, Keeps, InWaypoint
  <2> QED
    BY <1>3, <2>1, <2>2, <2>3 DEF RunEntry
<1> QED
  BY <1>1, <1>2, <1>3 DEF RunPlanAt

\* So does every step, or it arrives at a waypoint.
LEMMA StepKinds ==
  ASSUME EngineOK, [Next]_vars
  PROVE  Leaving \/ Keeps \/ Advances \/ Starts
<1> USE NoMissionAssumption
<1>a. /\ VehicleOK /\ queue \in Seq(Entries) /\ cmds \in Nat
      /\ mission \in Missions \cup {NoMission}
      /\ InWaypoint => /\ fallback # "None" /\ mission.id <= cmds
                       /\ queue # <<>> => Head(queue).step = "MoveHover"
  <2>1. /\ VehicleOK /\ queue \in Seq(Entries) /\ cmds \in Nat
        /\ mission \in Missions \cup {NoMission}
        /\ InWaypoint => /\ fallback # "None" /\ mission.id <= cmds
                         /\ \A i \in DOMAIN queue : queue[i].step = "MoveHover"
    BY DEF EngineOK, PlanOK, QueueOK, Behind, IdsOK, VehicleOK, VehicleTypes, InWaypoint
  <2>2. queue # <<>> => 1 \in DOMAIN queue /\ Head(queue) = queue[1]
    BY <2>1
  <2> QED
    BY <2>1, <2>2
<1>b. ASSUME RunPlan(queue)
      PROVE  Leaving \/ Keeps \/ Starts
  <2>1. \/ Leaving \/ Keeps
        \/ queue # <<>> /\ Head(queue).step = "Mission" /\ EnterMission(Head(queue))
    BY <1>a, <1>b, PlanKinds DEF RunPlan, InWaypoint
  <2>2. queue # <<>> => Known(Head(queue))
    BY <1>a DEF Known
  <2> QED
    BY <1>a, <2>1, <2>2 DEF Starts
<1>1. CASE Command
  <2>1. CASE TakeoffCmd
    BY <2>1, HoverOrGroundLeaves DEF TakeoffCmd, RunTakeoff, Leaving
  <2>2. CASE SetPosVel
    <3>1. CASE Within("Move", "Point") \/ Within(leaf, cmd)
      BY <3>1 DEF Within, Keeps
    <3>2. ASSUME NEW e, RunPlan(Append(queue, e)), e.step # "Mission"
          PROVE  Leaving \/ Keeps \/ Starts
      <4>1. /\ Append(queue, e) # <<>>
            /\ \/ queue = <<>> /\ Head(Append(queue, e)) = e
               \/ queue # <<>> /\ Head(Append(queue, e)) = Head(queue)
        <5>1. Append(queue, e) # <<>>
          BY <1>a
        <5> QED
          BY <1>a, <5>1, HeadTailAppend
      <4>2. \/ Leaving \/ Keeps
            \/ /\ Head(Append(queue, e)).step = "Mission"
               /\ EnterMission(Head(Append(queue, e)))
        BY <1>a, <3>2, PlanKinds DEF RunPlan, InWaypoint
      <4>3. queue # <<>> => Known(Head(queue))
        BY <1>a DEF Known
      <4> QED
        BY <1>a, <3>2, <4>1, <4>2, <4>3 DEF Starts
    <3>3. /\ Entry("MoveWaypoint", 0, FALSE, 0, "no").step # "Mission"
          /\ Entry("MoveHover", 0, FALSE, 0, "no").step # "Mission"
      BY DEF Entry
    <3> QED
      BY <2>2, <3>1, <3>2, <3>3 DEF SetPosVel
  <2>3. ASSUME NEW given, NEW finish, NEW pland \in BOOLEAN,
               SetWaypoint(given, finish, pland)
        PROVE  Leaving \/ Keeps \/ Starts
    <3>1. CASE EnterLand(pland)
      BY <3>1 DEF Leaving
    <3>2. CASE Within(leaf, cmd)
      BY <3>2 DEF Within, Keeps
    <3>3. ASSUME NEW q, RunPlan(q),
                 q # <<>> /\ (Head(q).step = "Mission" => Head(q).id = cmds + 1)
          PROVE  Leaving \/ Keeps \/ Starts
      <4>1. \/ Leaving \/ Keeps
            \/ Head(q).step = "Mission" /\ EnterMission(Head(q))
        BY <1>a, <3>3, PlanKinds DEF RunPlan, InWaypoint
      <4>2. InWaypoint => mission.id # cmds + 1
        <5>1. InWaypoint => mission.id \in Nat
          BY <1>a DEF InWaypoint, Missions, Cmds
        <5> QED
          BY <1>a, <5>1
      <4> QED
        BY <2>3, <3>3, <4>1, <4>2 DEF Starts, Known, SetWaypoint, NewCmd
    <3>4. ASSUME NEW climb, NEW wp
          PROVE  /\ <<climb, wp>> # <<>> /\ Head(<<climb, wp>>) = climb
                 /\ <<wp>> # <<>> /\ Head(<<wp>>) = wp
      OBVIOUS
    <3> DEFINE climb == Entry("Takeoff", 0, FALSE, 0, "no")
               wp == Entry("Mission", Id, given > 0,
                           Kept(given) + (IF finish = "RETURN" THEN 1 ELSE 0),
                           ReturnPoint(finish))
    <3>5. climb.step = "Takeoff" /\ wp.step = "Mission" /\ wp.id = cmds + 1
      BY DEF Entry, Id
    <3>6. \/ RunPlan(<<climb, wp>>) \/ RunPlan(<<wp>>)
          \/ EnterLand(pland) \/ Within(leaf, cmd)
      BY <2>3 DEF SetWaypoint, AfterMission, Landing
    <3> HIDE DEF climb, wp
    <3>7. CASE RunPlan(<<climb, wp>>)
      BY <3>3, <3>4, <3>5, <3>7
    <3>8. CASE RunPlan(<<wp>>)
      BY <3>3, <3>4, <3>5, <3>8
    <3> QED
      BY <3>1, <3>2, <3>6, <3>7, <3>8
  <2>4. ASSUME NEW pland \in BOOLEAN, LandCmd(pland)
        PROVE  Leaving
    BY <2>4 DEF LandCmd, Leaving
  <2>5. CASE Loiter \/ Restart
    BY <2>5 DEF Loiter, Restart, Leaving, Within, Keeps
  <2> QED
    BY <1>1, <2>1, <2>2, <2>3, <2>4, <2>5 DEF Command
<1>2. CASE Tick
  <2>1. CASE \/ ListenerTick \/ InitTick \/ GroundTick \/ ArmTimeout
             \/ TakeoffStalled \/ LandTick
    BY <2>1, HoverOrGroundLeaves DEF ListenerTick, InitTick, GroundTick, ArmTimeout,
       TakeoffStalled, LandTick, Leaving
  <2>2. CASE TakeoffDone
    BY <1>b, <2>2 DEF TakeoffDone
  <2>3. CASE WaypointArrive
    <3>1. mission # NoMission /\ leaf = "Execute"
      BY <1>a, <2>3 DEF WaypointArrive, RouteDone, VehicleOK, MissionShape, InWaypoint
    <3>2. CASE RunPlanAt(queue, [mission EXCEPT !.idx = mission.idx + 1])
      <4>1. \/ Leaving \/ Keeps
            \/ queue # <<>> /\ Head(queue).step = "Mission" /\ EnterMission(Head(queue))
        BY <1>a, <3>1, <3>2, PlanKinds DEF InWaypoint
      <4> QED
        BY <1>a, <3>1, <4>1 DEF InWaypoint
    <3>3. CASE /\ mission' = [mission EXCEPT !.idx = mission.idx + 1]
               /\ UNCHANGED <<queue, doPland, plandOn, home, takeoffPt, answer>>
      <4>1. WithinAt(leaf', cmd', [mission EXCEPT !.idx = mission.idx + 1])
        BY <3>3 DEF WithinAt
      <4> QED
        BY <3>1, <4>1 DEF Advances, InWaypoint
    <3> QED
      BY <2>3, <3>2, <3>3 DEF WaypointArrive, RouteDone
  <2>4. CASE LiftingTick \/ MoveArrive \/ TurnTick \/ PosVelTimeout
    BY <2>4 DEF LiftingTick, MoveArrive, TurnTick, PosVelTimeout, BackToParent, Within,
       Keeps
  <2> QED
    BY <1>2, <2>1, <2>2, <2>3, <2>4 DEF Tick
<1>c. ASSUME UNCHANGED engineVars
      PROVE  Keeps
  <2>1. WithinAt(leaf, cmd, mission)
    BY <1>c DEF engineVars, WithinAt
  <2> QED
    BY <2>1 DEF Keeps
<1>3. CASE Environment
  <2>1. CASE StopFollow \/ Detect
    BY <2>1 DEF StopFollow, Detect, BackToParent, Within, Keeps, Leaving
  <2>2. CASE Deliver
    BY <1>b, <1>c, <2>2, HoverOrGroundLeaves DEF Deliver, TakesArmEvents
  <2>3. CASE TrackerIdle
    <3>1. WithinAt(leaf, "None", mission)
      BY <2>3 DEF TrackerIdle, WithinAt
    <3> QED
      BY <3>1 DEF Keeps
  <2>4. CASE \/ ArmTelemetry \/ PrearmText \/ ThrottleTelemetry \/ OdomTelemetry
             \/ HomeTelemetry \/ CooldownOver
    BY <1>c, <2>4 DEF ArmTelemetry, PrearmText, ThrottleTelemetry, OdomTelemetry,
       HomeTelemetry, CooldownOver
  <2> QED
    BY <1>3, <2>1, <2>2, <2>3, <2>4 DEF Environment
<1>4. CASE UNCHANGED vars
  BY <1>c, <1>4 DEF vars
<1> QED
  BY <1>1, <1>2, <1>3, <1>4 DEF Next

\* The mission that opened the flight keeps the return point until the ground or a
\* restart, through every other mission, side trip and plan.
THEOREM ReturnPointKept == Spec => FirstMissionWins
<1>1. ASSUME FlightInv, [Next]_vars, home # 0, home' # home
      PROVE  home' = 0 /\ leaf' \in {"Ground", "Init"}
  <2>1. Leaving \/ Keeps \/ Advances \/ Starts
    BY <1>1, InvParts, StepKinds DEF EngineOK
  <2>2. CASE Leaving
    BY <1>1, <2>2 DEF Leaving, EnterHover, EnterInit, EnterArm, EnterGround,
       EnterTakeoff, EnterLand, Enter
  <2>3. CASE Keeps \/ Advances
    BY <1>1, <2>3 DEF Keeps, Advances, WithinAt
  <2>4. CASE Starts
    BY <1>1, <2>4 DEF Starts, EnterMission, HomeOf
  <2> QED
    BY <2>1, <2>2, <2>3, <2>4
<1> QED
  BY <1>1, FlightInvariant, PTL DEF Spec, FirstMissionWins

\* Waypoints are visited in order, each by an arrival, whatever interrupts.
THEOREM WaypointsInOrder == Spec => MissionProgress
<1>1. ASSUME FlightInv, [Next]_vars, InWaypoint, mission' # NoMission,
             mission'.id = mission.id
      PROVE  \/ mission' = mission
             \/ leaf = "Execute" /\ mission' = [mission EXCEPT !.idx = @ + 1]
  <2>1. Leaving \/ Keeps \/ Advances \/ Starts
    BY <1>1, InvParts, StepKinds DEF EngineOK
  <2>2. CASE Leaving
    BY <1>1, <2>2, InvParts, LeavingOK
  <2>3. CASE Keeps \/ Advances
    BY <1>1, <2>3 DEF Keeps, Advances, WithinAt
  <2>4. CASE Starts
    BY <1>1, <2>4 DEF Starts, EnterMission, HomeOf
  <2> QED
    BY <2>1, <2>2, <2>3, <2>4
<1> QED
  BY <1>1, FlightInvariant, PTL DEF Spec, MissionProgress

\* Only an operator command interrupts a landing.
THEOREM LandingNotInterrupted == Spec => LandingOnlyLeftByCommand
<1>1. ASSUME FlightInv, [Next]_vars, leaf = "Land", leaf' \notin {"Land", "Ground"}
      PROVE  cmds' # cmds
  <2>1. /\ ~InWaypoint /\ ~InHover /\ ~InPosVel /\ cmds \in Nat
    BY <1>1 DEF FlightInv, TypeOK, MissionShape, InHover, InWaypoint, InPosVel, Side
  <2>2. CASE Command
    <3>1. ASSUME NEW given, NEW finish, NEW pland, SetWaypoint(given, finish, pland)
          PROVE  NewCmd
      BY <3>1 DEF SetWaypoint, AfterMission, Landing
    <3>2. ASSUME NEW pland, LandCmd(pland)
          PROVE  NewCmd
      BY <3>2 DEF LandCmd
    <3>3. NewCmd
      BY <2>2, <3>1, <3>2 DEF Command, TakeoffCmd, SetPosVel, Loiter, Restart
    <3> QED
      BY <2>1, <3>3 DEF NewCmd
  <2>3. CASE Tick
    BY <1>1, <2>1, <2>3 DEF Tick, ListenerTick, InitTick, GroundTick, ArmTimeout,
       TakeoffDone, TakeoffStalled, LiftingTick, WaypointArrive, RouteDone, MoveArrive, TurnTick,
       PosVelTimeout, LandTick, EnterGround, Enter, Ground
  <2>4. CASE Environment
    BY <1>1, <2>1, <2>4 DEF Environment, StopFollow, Detect, ArmTelemetry, PrearmText,
       ThrottleTelemetry, OdomTelemetry, HomeTelemetry, CooldownOver, Deliver, TakesArmEvents,
       TrackerIdle, engineVars
  <2>5. CASE UNCHANGED vars
    BY <1>1, <2>5 DEF vars, engineVars
  <2> QED
    BY <1>1, <2>2, <2>3, <2>4, <2>5 DEF Next
<1> QED
  BY <1>1, FlightInvariant, PTL DEF Spec, LandingOnlyLeftByCommand

\* An answer to a takeoff request is final: no entry of the plan answers twice.
THEOREM AnswersFinal == Spec => AnsweredOnce
<1>1. ASSUME FlightInv, [Next]_vars, NEW c \in Cmds, answer[c] \in {"ok", "rejected"}
      PROVE  answer'[c] = answer[c]
  <2>1. answer \in Answers /\ queue \in Seq(Entries) /\ cmds \in 0..MaxCmds
    BY <1>1 DEF FlightInv, TypeOK, Answers
  <2>2. ASSUME NEW q, NEW m, RunPlanAt(q, m),
               q # <<>> /\ Head(q).step = "Takeoff" /\ Head(q).id \in Cmds =>
                 answer[Head(q).id] = "pending"
        PROVE  answer'[c] = answer[c]
    <3>1. CASE RunTakeoff(Head(q)) /\ q # <<>> /\ Head(q).step = "Takeoff"
      BY <1>1, <2>1, <2>2, <3>1 DEF RunTakeoff, Settle, Answers
    <3>2. CASE UNCHANGED answer
      BY <3>2
    <3> QED
      BY <2>2, <3>1, <3>2 DEF RunPlanAt, RunFallback, RunEntry, RunMission, RunMove
  <2>3. queue # <<>> /\ Head(queue).step = "Takeoff" /\ Head(queue).id \in Cmds =>
          answer[Head(queue).id] = "pending"
    <3>1. queue # <<>> => 1 \in DOMAIN queue /\ Head(queue) = queue[1]
      BY <2>1
    <3> QED
      BY <1>1, <3>1 DEF FlightInv, QueuedTakeoffUnanswered, Cmds
  <2>4. CASE Command
    <3>1. CASE TakeoffCmd
      <4>1. Id \in Cmds /\ answer[Id] = "none"
        BY <1>1, <2>1, <3>1, MaxCmdsAssumption
           DEF TakeoffCmd, NewCmd, Id, Cmds, FlightInv, IdsInOrder
      <4>2. Entry("Takeoff", Id, FALSE, 0, "no").id = Id
        BY DEF Entry
      <4>3. PICK r : answer' = [answer EXCEPT ![Id] = r]
        BY <3>1, <4>1, <4>2 DEF TakeoffCmd, RunTakeoff, Settle
      <4>4. c # Id
        BY <1>1, <4>1
      <4>5. answer \in [Cmds -> {"none", "pending", "ok", "rejected"}]
        BY <1>1 DEF FlightInv, TypeOK
      <4> HIDE DEF Id
      <4> QED
        BY <1>1, <4>3, <4>4, <4>5
    <3>2. CASE SetPosVel
      <4>1. ASSUME NEW step, step \in {"MoveHover", "MoveWaypoint"},
                   RunPlan(Append(queue, Entry(step, 0, FALSE, 0, "no")))
            PROVE  answer'[c] = answer[c]
        <5> DEFINE e == Entry(step, 0, FALSE, 0, "no")
        <5>1. e.step # "Takeoff"
          BY <4>1 DEF Entry
        <5> HIDE DEF e
        <5>2. \/ queue = <<>> /\ Head(Append(queue, e)) = e
              \/ queue # <<>> /\ Head(Append(queue, e)) = Head(queue)
          BY <2>1, HeadTailAppend
        <5>3. RunPlanAt(Append(queue, e), mission)
          BY <4>1 DEF RunPlan, e
        <5> QED
          BY <2>2, <2>3, <5>1, <5>2, <5>3
      <4>2. \/ answer' = answer
            \/ \E step \in {"MoveHover", "MoveWaypoint"} :
                 RunPlan(Append(queue, Entry(step, 0, FALSE, 0, "no")))
        BY <3>2 DEF SetPosVel
      <4>3. CASE answer' = answer
        BY <4>3
      <4>4. CASE \E step \in {"MoveHover", "MoveWaypoint"} :
                   RunPlan(Append(queue, Entry(step, 0, FALSE, 0, "no")))
        BY <4>1, <4>4
      <4> QED
        BY <4>2, <4>3, <4>4
    <3>3. ASSUME NEW given, NEW finish, NEW pland, SetWaypoint(given, finish, pland)
          PROVE  answer'[c] = answer[c]
      <4>1. ASSUME NEW climb, NEW wp, wp.step = "Mission", climb.id = 0,
                   RunPlan(<<climb, wp>>) \/ RunPlan(<<wp>>)
            PROVE  answer'[c] = answer[c]
        <5>1. Head(<<climb, wp>>) = climb /\ Head(<<wp>>) = wp /\ 0 \notin Cmds
          BY DEF Cmds
        <5> QED
          BY <2>2, <4>1, <5>1 DEF RunPlan
      <4>2. /\ Entry("Takeoff", 0, FALSE, 0, "no").id = 0
            /\ \A id, own, len, ret : Entry("Mission", id, own, len, ret).step = "Mission"
        BY DEF Entry
      <4> QED
        BY <3>3, <4>1, <4>2 DEF SetWaypoint, AfterMission, Landing
    <3>4. ASSUME NEW pland, LandCmd(pland)
          PROVE  answer'[c] = answer[c]
      BY <3>4 DEF LandCmd
    <3> QED
      BY <2>4, <3>1, <3>2, <3>3, <3>4 DEF Command, Loiter, Restart
  <2>5. CASE Tick
    BY <2>2, <2>3, <2>5 DEF Tick, ListenerTick, InitTick, GroundTick, ArmTimeout,
       TakeoffDone, TakeoffStalled, LiftingTick, WaypointArrive, RouteDone, MoveArrive, TurnTick,
       PosVelTimeout, LandTick, UnchangedPlan, RunPlan
  <2>6. CASE Environment
    BY <2>2, <2>3, <2>6 DEF Environment, StopFollow, Detect, ArmTelemetry, PrearmText,
       ThrottleTelemetry, OdomTelemetry, HomeTelemetry, CooldownOver, Deliver, TakesArmEvents,
       TrackerIdle, engineVars, UnchangedPlan, RunPlan
  <2>7. CASE UNCHANGED vars
    BY <2>7 DEF vars, engineVars
  <2> QED
    BY <1>1, <2>4, <2>5, <2>6, <2>7 DEF Next
<1>2. FlightInv /\ [Next]_vars =>
        [\A c \in Cmds : answer[c] \in {"ok", "rejected"} => answer'[c] = answer[c]]_vars
  BY <1>1
<1> QED
  BY <1>2, FlightInvariant, PTL DEF Spec, AnsweredOnce

-----------------------------------------------------------------------------
(* The missions are voyages.                                               *)

\* Every step gives at most one command, and only commands do.
LEMMA CommandsCount ==
  ASSUME cmds \in Nat, [Next]_vars
  PROVE  cmds' \in {cmds, cmds + 1}
<1>1. CASE Command
  <2>1. ASSUME NEW given, NEW finish, NEW pland, SetWaypoint(given, finish, pland)
        PROVE  NewCmd
    BY <2>1 DEF SetWaypoint, AfterMission, Landing
  <2>2. ASSUME NEW pland, LandCmd(pland)
        PROVE  NewCmd
    BY <2>2 DEF LandCmd
  <2>3. NewCmd
    BY <1>1, <2>1, <2>2 DEF Command, TakeoffCmd, SetPosVel, Loiter, Restart
  <2> QED
    BY <2>3 DEF NewCmd
<1>2. CASE Tick
  BY <1>2 DEF Tick, ListenerTick, InitTick, GroundTick, ArmTimeout, TakeoffDone,
     TakeoffStalled, LiftingTick, WaypointArrive, MoveArrive, TurnTick, PosVelTimeout,
     LandTick, ctxVars
<1>3. CASE Environment
  BY <1>3 DEF Environment, StopFollow, Detect, ArmTelemetry, PrearmText, ThrottleTelemetry,
     OdomTelemetry, HomeTelemetry, CooldownOver, Deliver, TrackerIdle, ctxVars
<1> QED
  BY <1>1, <1>2, <1>3 DEF Next, vars, ctxVars

\* Whatever of a plan is left after running it was in it.
LEMMA PlanLeftKnown ==
  ASSUME NEW q \in Seq(Entries), NEW m, RunPlanAt(q, m),
         \A i \in DOMAIN q : q[i].step = "Mission" => Known(q[i])
  PROVE  \A i \in DOMAIN queue' : queue'[i].step = "Mission" => Known(queue'[i])
<1>1. queue' = q \/ (q # <<>> /\ queue' = Tail(q))
  BY DEF RunPlanAt
<1>2. CASE queue' = q
  BY <1>2
<1>3. CASE q # <<>> /\ queue' = Tail(q)
  <2>1. \A i \in DOMAIN Tail(q) : i + 1 \in DOMAIN q /\ Tail(q)[i] = q[i + 1]
    BY <1>3
  <2> QED
    BY <1>3, <2>1
<1> QED
  BY <1>1, <1>2, <1>3

\* No step leaves a mission in the plan that was neither there nor given just now.
LEMMA QueueKnown ==
  ASSUME queue \in Seq(Entries), cmds \in Nat, [Next]_vars,
         takeoffPt \in {"none", "this", "earlier"}, cmds' = cmds + 1 => cmds + 1 \in Cmds
  PROVE  \A i \in DOMAIN queue' : queue'[i].step = "Mission" => Known(queue'[i])
<1>0. \A i \in DOMAIN queue : Known(queue[i])
  BY DEF Known
<1>1. CASE queue' = queue
  BY <1>0, <1>1
<1>2. ASSUME NEW m, RunPlanAt(queue, m)
      PROVE  \A i \in DOMAIN queue' : queue'[i].step = "Mission" => Known(queue'[i])
  BY <1>0, <1>2, PlanLeftKnown
<1>3. CASE TakeoffCmd
  <2>1. queue' = <<Entry("Takeoff", Id, FALSE, 0, "no")>> \/ queue' = <<>>
    BY <1>3 DEF TakeoffCmd
  <2>2. \A i \in DOMAIN queue' : queue'[i].step = "Takeoff"
    BY <2>1 DEF Entry
  <2> QED
    BY <2>2
<1>4. CASE SetPosVel
  <2>1. ASSUME NEW step \in {"MoveHover", "MoveWaypoint"},
               RunPlan(Append(queue, Entry(step, 0, FALSE, 0, "no")))
        PROVE  \A i \in DOMAIN queue' : queue'[i].step = "Mission" => Known(queue'[i])
    <3> DEFINE e == Entry(step, 0, FALSE, 0, "no")
               q == Append(queue, e)
    <3>1. e \in Entries /\ e.step # "Mission"
      BY DEF Entry, Entries
    <3> HIDE DEF e
    <3>2. q \in Seq(Entries)
      BY <3>1
    <3>3. \A i \in DOMAIN q : q[i] = e \/ (i \in DOMAIN queue /\ q[i] = queue[i])
      BY <3>1
    <3>4. \A i \in DOMAIN q : q[i].step = "Mission" => Known(q[i])
      BY <1>0, <3>1, <3>3
    <3>5. RunPlanAt(q, mission)
      BY <2>1 DEF RunPlan, e
    <3> HIDE DEF q
    <3> QED
      BY <3>2, <3>4, <3>5, PlanLeftKnown
  <2>2. \/ queue' = queue
        \/ \E step \in {"MoveHover", "MoveWaypoint"} :
             RunPlan(Append(queue, Entry(step, 0, FALSE, 0, "no")))
    BY <1>4 DEF SetPosVel
  <2> QED
    BY <1>1, <2>1, <2>2
<1>5. ASSUME NEW given \in 0 .. MaxGiven, NEW finish \in {"HOVER", "RETURN", "LAND"},
             NEW pland \in BOOLEAN, SetWaypoint(given, finish, pland)
      PROVE  \A i \in DOMAIN queue' : queue'[i].step = "Mission" => Known(queue'[i])
  <2> DEFINE climb == Entry("Takeoff", 0, FALSE, 0, "no")
             wp == Entry("Mission", Id, given > 0,
                         Kept(given) + (IF finish = "RETURN" THEN 1 ELSE 0),
                         ReturnPoint(finish))
  <2>1. cmds' = cmds + 1 /\ (RunPlan(<<climb, wp>>) \/ RunPlan(<<wp>>) \/ queue' = queue)
    BY <1>5 DEF SetWaypoint, NewCmd, AfterMission, Landing
  <2>2. climb \in Entries /\ wp \in Entries
    <3>1. Kept(given) + (IF finish = "RETURN" THEN 1 ELSE 0) \in Nat
      BY MaxGivenAssumption DEF Kept
    <3>2. ReturnPoint(finish) \in Return
      BY DEF ReturnPoint, Return
    <3> QED
      BY <2>1, <3>1, <3>2 DEF Entry, Entries, Id
  <2>3. climb.step # "Mission" /\ Known(wp)
    BY <2>1 DEF Entry, Known, Id
  <2> HIDE DEF climb, wp
  <2>4. CASE RunPlan(<<climb, wp>>)
    <3>1. <<climb, wp>> \in Seq(Entries)
      BY <2>2
    <3>2. \A i \in DOMAIN <<climb, wp>> : <<climb, wp>>[i] \in {climb, wp}
      BY <2>2
    <3> QED
      BY <2>3, <2>4, <3>1, <3>2, PlanLeftKnown DEF RunPlan
  <2>5. CASE RunPlan(<<wp>>)
    <3>1. <<wp>> \in Seq(Entries)
      BY <2>2
    <3>2. \A i \in DOMAIN <<wp>> : <<wp>>[i] = wp
      BY <2>2
    <3> QED
      BY <2>3, <2>5, <3>1, <3>2, PlanLeftKnown DEF RunPlan
  <2> QED
    BY <1>1, <2>1, <2>4, <2>5
<1>6. CASE Command
  <2>1. ASSUME NEW pland, LandCmd(pland)
        PROVE  queue' = queue
    BY <2>1 DEF LandCmd
  <2> QED
    BY <1>1, <1>3, <1>4, <1>5, <1>6, <2>1 DEF Command, Loiter, Restart
<1>7. CASE Tick
  BY <1>1, <1>2, <1>7 DEF Tick, ListenerTick, InitTick, GroundTick, ArmTimeout,
     TakeoffDone, TakeoffStalled, LiftingTick, WaypointArrive, MoveArrive, TurnTick,
     PosVelTimeout, LandTick, UnchangedPlan, RunPlan
<1>8. CASE Environment
  BY <1>1, <1>2, <1>8 DEF Environment, StopFollow, Detect, ArmTelemetry, PrearmText,
     ThrottleTelemetry, OdomTelemetry, HomeTelemetry, CooldownOver, Deliver, TrackerIdle,
     engineVars, UnchangedPlan, RunPlan
<1> QED
  BY <1>1, <1>6, <1>7, <1>8 DEF Next, vars, engineVars

\* A mission that waits or is given just now is newer than all begun.
LEMMA KnownIsNewer ==
  ASSUME FlightInv, FlightInv', LogInv, [Next]_vars, NEW e, e.step = "Mission", Known(e)
  PROVE  begun < e.id /\ e.id <= cmds'
<1>1. /\ cmds \in Nat /\ cmds' \in Nat /\ queue \in Seq(Entries) /\ begun \in 0 .. cmds
  BY DEF FlightInv, TypeOK, LogInv
<1>2. cmds' \in {cmds, cmds + 1}
  BY <1>1, CommandsCount
<1>3. CASE e.id = cmds + 1 /\ cmds' = cmds + 1
  BY <1>1, <1>3
<1>4. ASSUME NEW i \in DOMAIN queue, e = queue[i]
      PROVE  begun < e.id /\ e.id <= cmds'
  <2>1. begun < e.id /\ e.id <= cmds
    BY <1>4 DEF LogInv, FlightInv, IdsInOrder
  <2>2. e.id \in Nat
    BY <1>1, <1>4, EntryIds DEF Cmds
  <2> QED
    BY <1>1, <1>2, <2>1, <2>2
<1> QED
  BY <1>3, <1>4 DEF Known

\* LogInv is inductive beside FlightInv: a mission that begins was in the plan, or is new,
\* and takes every other mission out of the plan.
LEMMA LogKeeps ==
  ASSUME FlightInv, FlightInv', LogInv, LogNext
  PROVE  LogInv'
<1> USE NoMissionAssumption
<1>1. /\ cmds \in Nat /\ cmds' \in Nat /\ cmds' \in 0 .. MaxCmds
      /\ queue \in Seq(Entries) /\ takeoffPt \in {"none", "this", "earlier"}
  BY MaxCmdsAssumption DEF FlightInv, TypeOK
<1>2. cmds' \in {cmds, cmds + 1}
  BY <1>1, CommandsCount DEF LogNext
<1>3. \A i \in DOMAIN queue' : queue'[i].step = "Mission" => Known(queue'[i])
  <2>1. cmds' = cmds + 1 => cmds + 1 \in Cmds
    BY <1>1, MaxCmdsAssumption DEF Cmds
  <2> QED
    BY <1>1, <2>1, QueueKnown DEF LogNext
<1>4. Leaving \/ Keeps \/ Advances \/ Starts
  BY InvParts, StepKinds DEF EngineOK, LogNext
<1>5. begun' = IF mission' = NoMission THEN begun ELSE mission'.id
  BY DEF LogNext
<1>6. ASSUME NEW e, e.step = "Mission", Known(e)
      PROVE  begun < e.id /\ e.id <= cmds'
  BY <1>6, KnownIsNewer DEF LogNext
<1>7. begun' = begun \/ (begun' > begun /\ begun' <= cmds')
  <2>1. CASE Leaving
    <3>1. mission' = NoMission
      BY <2>1, InvParts, LeavingOK
    <3> QED
      BY <1>5, <3>1
  <2>2. CASE Keeps \/ Advances
    <3>1. mission' = mission \/ (InWaypoint /\ mission' = [mission EXCEPT !.idx = mission.idx + 1])
      BY <2>2 DEF Keeps, Advances, WithinAt
    <3>2. InWaypoint => mission \in Missions
      BY DEF FlightInv, TypeOK, InWaypoint
    <3>3. mission' # NoMission => InWaypoint /\ mission'.id = mission.id
      BY <3>1, <3>2 DEF Missions, InWaypoint
    <3> QED
      BY <1>5, <3>3 DEF LogInv
  <2>3. CASE Starts
    <3>1. PICK e : EnterMission(e) /\ e.step = "Mission" /\ Known(e)
      BY <2>3 DEF Starts
    <3>2. mission' # NoMission /\ mission'.id = e.id
      BY <3>1 DEF EnterMission, HomeOf, FlightInv, TypeOK, MissionShape, InWaypoint
    <3> QED
      BY <1>5, <1>6, <3>1, <3>2
  <2> QED
    BY <1>4, <2>1, <2>2, <2>3
<1>8. begun' \in 0 .. cmds'
  <2>1. begun \in 0 .. cmds
    BY DEF LogInv
  <2>2. begun' \in Int
    BY <1>1, <1>5, <2>1 DEF FlightInv, TypeOK, Missions, Cmds
  <2> QED
    BY <1>1, <1>2, <1>7, <2>1, <2>2
<1>9. ASSUME NEW i \in DOMAIN queue', queue'[i].step = "Mission"
      PROVE  begun' < queue'[i].id
  <2>1. mission' = NoMission
    BY <1>9 DEF FlightInv, PlanShape, InWaypoint
  <2> QED
    BY <1>3, <1>5, <1>6, <1>9, <2>1
<1> QED
  BY <1>5, <1>8, <1>9 DEF LogInv, InWaypoint

\* A step of the flight states is a step of a voyage, or none.
LEMMA VoyageStep ==
  ASSUME FlightInv, FlightInv', LogInv, LogInv', LogNext
  PROVE  [V!Next]_V!voyageVars
<1> USE NoMissionAssumption DEF InWaypoint
<1>1. cmds \in Nat /\ cmds' \in Nat /\ home \in Nat /\ begun \in Nat
  BY DEF FlightInv, TypeOK, Cmds, LogInv
<1>2. cmds' \in {cmds, cmds + 1}
  BY <1>1, CommandsCount DEF LogNext
<1>3. Leaving \/ Keeps \/ Advances \/ Starts
  BY InvParts, StepKinds DEF EngineOK, LogNext
<1>4. begun' = IF mission' = NoMission THEN begun ELSE mission'.id
  BY DEF LogNext
<1>5. /\ mission # NoMission => mission \in Missions /\ begun = mission.id
      /\ mission' # NoMission => mission' \in Missions /\ mission'.idx < mission'.len
  BY DEF FlightInv, TypeOK, IndexInRange, LogInv
<1>6. CASE Leaving
  <2>1. mission' = NoMission /\ home' \in {home, 0}
    BY <1>6, InvParts, LeavingOK
  <2>2. V!End \/ V!Down
    BY <1>4, <2>1 DEF V!End, V!Down
  <2> QED
    BY <1>2, <2>2 DEF V!Next
<1>7. CASE Keeps
  <2>1. mission' = mission /\ home' = home /\ begun' = begun
    BY <1>4, <1>5, <1>7 DEF Keeps, WithinAt
  <2> QED
    BY <1>2, <2>1 DEF V!Next
<1>8. CASE Advances
  <2>1. /\ mission # NoMission /\ mission' = [mission EXCEPT !.idx = mission.idx + 1]
        /\ home' = home
    BY <1>8 DEF Advances, WithinAt
  <2>2. /\ mission' # NoMission /\ mission'.idx = mission.idx + 1
        /\ mission'.len = mission.len /\ mission'.id = mission.id
    BY <1>5, <2>1 DEF Missions
  <2>3. V!Advance
    BY <1>4, <1>5, <2>1, <2>2 DEF V!Advance
  <2> QED
    BY <1>2, <2>3 DEF V!Next
<1>9. CASE Starts
  <2>1. PICK e : EnterMission(e) /\ e.step = "Mission" /\ Known(e)
    BY <1>9 DEF Starts
  <2>2. /\ mission' # NoMission /\ mission'.id = e.id /\ mission'.idx = 0
        /\ leaf' = "Lifting" /\ home' = HomeOf(e)
    BY <2>1 DEF EnterMission, HomeOf, FlightInv, MissionShape
  <2>3. begun' = e.id /\ e.id \in begun + 1 .. cmds'
    <3>1. begun < e.id /\ e.id <= cmds'
      BY <2>1, KnownIsNewer DEF LogNext
    <3>2. e.id \in Nat
      BY <1>5, <2>2 DEF Missions, Cmds
    <3> QED
      BY <1>1, <1>4, <2>2, <3>1, <3>2
  <2>4. mission'.len \in Nat \ {0}
    BY <1>5, <2>2 DEF Missions
  <2>5. home' \in IF home = 0 THEN {0, e.id} ELSE {home}
    BY <2>2 DEF HomeOf
  <2>6. V!Begin
    BY <2>2, <2>3, <2>4, <2>5 DEF V!Begin
  <2> QED
    BY <1>2, <2>6 DEF V!Next
<1> QED
  BY <1>3, <1>6, <1>7, <1>8, <1>9

\* Missions are voyages, for any number of commands and waypoints.
THEOREM MissionsAreVoyages == LogSpec => ImplementsVoyages
<1>1. LogSpec => Spec
  <2>1. LogInit => Init
    BY DEF LogInit
  <2>2. [LogNext]_<<vars, begun>> => [Next]_vars
    BY DEF LogNext
  <2> QED
    BY <2>1, <2>2, PTL DEF LogSpec, Spec
<1>2. LogInit => LogInv /\ V!Init
  BY DEF LogInit, LogInv, Init, InWaypoint, V!Init
<1>3. FlightInv /\ FlightInv' /\ LogInv /\ [LogNext]_<<vars, begun>> => LogInv'
  BY LogKeeps DEF LogInv, vars, engineVars, ctxVars, InWaypoint
<1>4. FlightInv /\ FlightInv' /\ LogInv /\ LogInv' /\ [LogNext]_<<vars, begun>>
        => [V!Next]_V!voyageVars
  BY VoyageStep DEF V!voyageVars, vars, engineVars, ctxVars, InWaypoint
<1> QED
  BY <1>1, <1>2, <1>3, <1>4, FlightInvariant, PTL DEF LogSpec, ImplementsVoyages, V!Spec
=============================================================================
