--------------------------- MODULE VehicleProofs ---------------------------
(***************************************************************************)
(* What the adapters of dog and car promise: how often the dog is told to  *)
(* stand up or lie down, what the car's frames say after a stop and that   *)
(* they are of one request, and what cmd_vel's limit of the speed in a     *)
(* sharp turn comes to.                                                    *)
(***************************************************************************)
EXTENDS Dog, Car, CanCodecProofs, FiniteSetTheorems, TLAPS

-----------------------------------------------------------------------------
(* The dog.                                                                *)

\* The part of the dog's type invariant that counting needs.
DogTyped ==
  /\ loops \in [1 .. MaxCalls -> Phases \cup {"none"}]
  /\ calls \in 0 .. MaxCalls
  /\ toggles \in Nat

\* A call that was not made has no loop: the next one starts its own.
NoLoopBefore == \A c \in 1 .. MaxCalls : c > calls => loops[c] = "none"

\* The inductive invariant.
DogInv == DogTyped /\ NoLoopBefore /\ OneTogglePerCall

\* The loops that wait are finitely many.
LEMMA PendingFinite ==
  ASSUME NEW f
  PROVE  LET S == {c \in 1 .. MaxCalls : f[c] # "none"}
         IN  IsFiniteSet(S) /\ Cardinality(S) \in Nat
<1> DEFINE S == {c \in 1 .. MaxCalls : f[c] # "none"}
<1>1. IsFiniteSet(1 .. MaxCalls)
  BY MaxCallsAssumption, FS_Interval
<1>2. S \in SUBSET (1 .. MaxCalls)
  OBVIOUS
<1>3. IsFiniteSet(S)
  BY <1>1, <1>2, FS_Subset
<1> QED
  BY <1>3, FS_CardinalityType

\* A loop that is given to a call adds one, one that ends takes one away.
LEMMA PendingGrows ==
  ASSUME NEW c \in 1 .. MaxCalls, DogTyped, loops[c] = "none",
         loops' = [loops EXCEPT ![c] = "early"]
  PROVE  Cardinality(Pending') = Cardinality(Pending) + 1
<1>1. Pending' = Pending \cup {c} /\ c \notin Pending
  BY DEF Pending, DogTyped
<1>2. IsFiniteSet(Pending)
  BY PendingFinite DEF Pending
<1> QED
  BY <1>1, <1>2, FS_AddElement

\* See PendingGrows.
LEMMA PendingShrinks ==
  ASSUME NEW c \in 1 .. MaxCalls, DogTyped, loops[c] # "none",
         loops' = [loops EXCEPT ![c] = "none"]
  PROVE  Cardinality(Pending') = Cardinality(Pending) - 1
<1>1. Pending' = Pending \ {c} /\ c \in Pending
  BY DEF Pending, DogTyped
<1>2. IsFiniteSet(Pending)
  BY PendingFinite DEF Pending
<1> QED
  BY <1>1, <1>2, FS_RemoveElement

\* No step of the dog's adapter toggles twice for one call.
LEMMA DogStep ==
  ASSUME DogInv, [DogNext]_dogVars
  PROVE  DogInv'
<1> USE MaxCallsAssumption
<1>0. Cardinality(Pending) \in Nat
  BY PendingFinite DEF Pending
<1>1. ASSUME UNCHANGED <<loops, calls, toggles>> PROVE DogInv'
  <2>1. Pending' = Pending
    BY <1>1 DEF Pending
  <2> QED BY <1>1, <2>1 DEF DogInv, DogTyped, NoLoopBefore, OneTogglePerCall
<1>2. CASE Land
  <2>0. calls' = calls + 1 /\ calls' \in 1 .. MaxCalls /\ toggles' = toggles
    BY <1>2 DEF Land, DogInv, DogTyped
  <2>1. CASE UNCHANGED loops
    <3>1. Pending' = Pending
      BY <2>1 DEF Pending
    <3> QED BY <1>0, <2>0, <2>1, <3>1 DEF DogInv, DogTyped, NoLoopBefore, OneTogglePerCall
  <2>2. CASE loops' = [loops EXCEPT ![calls'] = "early"]
    <3>1. loops[calls'] = "none"
      BY <2>0 DEF DogInv, DogTyped, NoLoopBefore
    <3>2. Cardinality(Pending') = Cardinality(Pending) + 1
      BY <2>0, <2>2, <3>1, PendingGrows DEF DogInv
    <3>3. DogTyped' /\ NoLoopBefore'
      BY <2>0, <2>2 DEF DogInv, DogTyped, NoLoopBefore, Phases
    <3> QED BY <1>0, <2>0, <3>2, <3>3 DEF DogInv, DogTyped, OneTogglePerCall
  <2> QED BY <1>2, <2>1, <2>2 DEF Land
<1>3. CASE Takeoff
  <2>1. calls' = calls + 1 /\ calls' \in 0 .. MaxCalls /\ UNCHANGED loops
        /\ toggles' \in {toggles, toggles + 1}
    BY <1>3 DEF Takeoff, SendToggle, DogInv, DogTyped
  <2>2. Pending' = Pending
    BY <2>1 DEF Pending
  <2> QED BY <1>0, <2>1, <2>2 DEF DogInv, DogTyped, NoLoopBefore, OneTogglePerCall
<1>4. ASSUME NEW c \in 1 .. MaxCalls, LoopWaits(c) PROVE DogInv'
  <2>1. loops[c] # "none" /\ UNCHANGED <<calls, toggles>>
    BY <1>4 DEF LoopWaits
  <2>2. PICK p \in Phases : loops' = [loops EXCEPT ![c] = p]
    BY <1>4 DEF LoopWaits, Phases
  <2>3. Pending' = Pending
    BY <2>1, <2>2 DEF Pending, DogInv, DogTyped, Phases
  <2>4. DogTyped' /\ NoLoopBefore'
    BY <2>1, <2>2 DEF DogInv, DogTyped, NoLoopBefore
  <2> QED BY <2>1, <2>3, <2>4 DEF DogInv, OneTogglePerCall
<1>5. ASSUME NEW c \in 1 .. MaxCalls, LoopSends(c) PROVE DogInv'
  <2>1. loops[c] # "none" /\ loops' = [loops EXCEPT ![c] = "none"]
        /\ calls' = calls /\ toggles' = toggles + 1
    BY <1>5 DEF LoopSends, SendToggle
  <2>2. Cardinality(Pending') = Cardinality(Pending) - 1
    BY <2>1, PendingShrinks DEF DogInv
  <2>3. DogTyped' /\ NoLoopBefore'
    BY <2>1 DEF DogInv, DogTyped, NoLoopBefore
  <2> QED BY <1>0, <2>1, <2>2, <2>3 DEF DogInv, DogTyped, OneTogglePerCall
<1>6. CASE TrackerSends \/ Move \/ PoseChanges \/ StatusPacket \/ UNCHANGED dogVars
  <2>1. UNCHANGED <<loops, calls, toggles>>
    BY <1>6, Zenon DEF TrackerSends, Move, PoseChanges, StatusPacket, dogVars
  <2> QED BY <1>1, <2>1
<1> QED
  BY <1>2, <1>3, <1>4, <1>5, <1>6 DEF DogNext, Loop

\* However its loops, the tracker and the calls of land and takeoff interleave, the dog is
\* never told more often to change its pose than it was asked to: a second toggle would
\* make a dog that lies stand up again.
THEOREM TogglesAsAsked == DogSpec => []OneTogglePerCall
<1>1. DogInit => DogInv
  <2> SUFFICES ASSUME DogInit PROVE DogInv
    OBVIOUS
  <2>1. Pending = {}
    BY DEF DogInit, Pending
  <2>2. Cardinality(Pending) = 0
    BY <2>1, FS_EmptySet
  <2> QED BY <2>2, MaxCallsAssumption
       DEF DogInit, DogInv, DogTyped, NoLoopBefore, OneTogglePerCall
<1>2. DogInv /\ [DogNext]_dogVars => DogInv'
  BY DogStep
<1>3. DogInv => OneTogglePerCall
  BY DEF DogInv
<1> QED
  BY <1>1, <1>2, <1>3, PTL DEF DogSpec

-----------------------------------------------------------------------------
(* The car.                                                                *)

\* The quotient of a number greater than a product by one factor is at least the other.
LEMMA QuotientOfProduct ==
  ASSUME NEW a \in Nat, NEW t \in Nat \ {0}, NEW s \in Nat, a > t * s
  PROVE  a \div t >= s
<1> DEFINE q == a \div t
<1>1. q \in Int /\ a = t * q + (a % t) /\ 0 <= a % t /\ a % t < t
  BY SMT
<1>2. SUFFICES ASSUME q < s PROVE FALSE
  BY <1>1
<1>3. t * (q + 1) <= t * s
  BY <1>1, <1>2, SMT
<1>4. a < t * (q + 1)
  BY <1>1, SMT
<1> QED
  BY <1>1, <1>3, <1>4, SMT

\* The speed that is said to match the yaw rate at the greatest wheel angle is never below
\* the one asked for when a turn is too sharp: whatever the car's measures, cmd_vel never
\* slows a turn down.
THEOREM SharpTurnKeepsSpeed ==
  ASSUME Wheelbase \in Nat, TanMax \in Nat \ {0},
         NEW v \in [vx : Int, vy : Int, yaw : Int]
  PROVE  SafeSpeed(v) = Speed(v)
<1>1. Speed(v) \in Nat /\ Abs(v.yaw) \in Nat
  BY DEF Speed, Abs
<1>2. Wheelbase * Abs(v.yaw) \in Nat
  BY <1>1, SMT
<1>3. CASE Sharp(v)
  <2>1. (Wheelbase * Abs(v.yaw)) \div TanMax >= Speed(v)
    BY <1>1, <1>2, <1>3, QuotientOfProduct DEF Sharp
  <2>2. (Wheelbase * Abs(v.yaw)) \div TanMax \in Int
    BY <1>2, SMT
  <2> QED
    BY <1>1, <1>3, <2>1, <2>2 DEF SafeSpeed, Least
<1>4. CASE ~Sharp(v)
  BY <1>4 DEF SafeSpeed
<1> QED
  BY <1>3, <1>4

-----------------------------------------------------------------------------
(* The car's frames.                                                       *)

\* What a frame says, whether it is packed, on the bus or neither.
FrameStands(frame) ==
  /\ Signal(Layout210.target_speed, frame) = {}
  /\ Signal(Layout210.target_gear, frame) \in {Bits(P), Bits(N)}

FrameBrakes(frame) == Signal(Layout210.brake_en, frame) = {0}

\* The command stands.
CmdStands == cmd.target_speed = 0 /\ cmd.target_gear \in {P, N}

\* The inductive invariant.  The command stands while nothing may drive and whenever it
\* brakes; the frame that is packed lags one command behind it and the one on the bus one
\* frame behind that, so that of the frames after a stop all but the first stand.
CarInv ==
  /\ cmd = [f \in DOMAIN Layout210 |-> cmd[f]]
  /\ cmd.brake_en # 0 => CmdStands
  /\ ~live => CmdStands
  /\ sent \in 0 .. 2
  /\ payload # NoFrame => (FrameBrakes(payload) => FrameStands(payload))
  /\ FrameBrakes(bus) => FrameStands(bus)
  /\ ~live /\ sent # 0 /\ payload # NoFrame => FrameStands(payload)
  /\ ~live /\ sent = 2 => FrameStands(bus)

\* Of a packed frame each signal reads as the bits of the message that are wired.
LEMMA SignalOfPack ==
  ASSUME NEW layout, NEW msg, Apart(layout), NEW f \in DOMAIN layout
  PROVE  Signal(layout[f], Pack(layout, msg)) = msg[f] \cap Wired(layout[f])
  BY BitOfSignal DEF Signal, Wired

\* The numbers the fields of a standing command have, as bits.
LEMMA SmallBits ==
  Bits(0) = {} /\ Bits16(0) = {} /\ Bits(2) = {1} /\ Bits16(2) = {1}
<1>1. \A i \in 0 .. 23 : Weight[i + 1] \in Nat \ {0}
  BY SMT DEF Weight
<1>2. \A p \in Nat \ {0} : (0 \div p) % 2 = 0
  BY SMT
<1>3. Bits(0) = {} /\ Bits16(0) = {}
  BY <1>1, <1>2 DEF Bits, Bits16
<1>4. \A p \in Nat : p > 2 => (2 \div p) % 2 = 0
  BY SMT
<1>5. \A i \in 2 .. 23 : Weight[i + 1] > 2
  BY SMT DEF Weight
<1>6. \A i \in 2 .. 23 : (2 \div Weight[i + 1]) % 2 = 0
  BY <1>1, <1>4, <1>5
<1>7. (2 \div Weight[0 + 1]) % 2 = 0 /\ (2 \div Weight[1 + 1]) % 2 = 1
  BY SMT DEF Weight
<1>8. ASSUME NEW i \in 0 .. 23
      PROVE  (2 \div Weight[i + 1]) % 2 = 1 <=> i = 1
  <2>1. i = 0 \/ i = 1 \/ i \in 2 .. 23
    OBVIOUS
  <2> QED
    BY <2>1, <1>6, <1>7
<1>9. Bits(2) = {1} /\ Bits16(2) = {1}
  BY <1>8 DEF Bits, Bits16
<1> QED
  BY <1>3, <1>9

\* A standing command is packed as a frame that stands, and a frame that brakes is packed
\* from a command that brakes.
LEMMA PackedCommand ==
  ASSUME cmd = [f \in DOMAIN Layout210 |-> cmd[f]],
         NEW frame, frame = Pack(Layout210, Signals(cmd))
  PROVE  /\ CmdStands => FrameStands(frame)
         /\ FrameBrakes(frame) => cmd.brake_en # 0
<1>1. /\ "target_speed" \in DOMAIN Layout210 /\ "target_gear" \in DOMAIN Layout210
      /\ "brake_en" \in DOMAIN Layout210
  BY DEF Layout210
<1>2. \A f \in DOMAIN Layout210 : Signals(cmd)[f] = Bits16(cmd[f])
  BY DEF Signals
<1>3. \A f \in DOMAIN Layout210 :
        Signal(Layout210[f], frame) = Bits16(cmd[f]) \cap Wired(Layout210[f])
  BY <1>2, SignalOfPack, Apart210
<1>4. Wired(Layout210.target_gear) = {0, 1}
  <2>1. Run(Layout210.target_gear, Table210.target_gear[1], Table210.target_gear[2])
    BY <1>1, Apart210 DEF Placed
  <2>2. Table210.target_gear[2] = 2
    BY DEF Table210
  <2> QED
    BY <2>1, <2>2 DEF Wired, Run
<1>5. ASSUME CmdStands PROVE FrameStands(frame)
  <2>1. Signal(Layout210.target_speed, frame) = {}
    BY <1>1, <1>3, <1>5, SmallBits DEF CmdStands
  <2>2. Signal(Layout210.target_gear, frame) = Bits16(cmd.target_gear) \cap {0, 1}
    BY <1>1, <1>3, <1>4
  <2>3. Signal(Layout210.target_gear, frame) \in {Bits(P), Bits(N)}
    BY <2>2, <1>5, SmallBits DEF CmdStands, P, N
  <2> QED
    BY <2>1, <2>3 DEF FrameStands
<1>6. ASSUME FrameBrakes(frame) PROVE cmd.brake_en # 0
  <2>1. 0 \in Bits16(cmd.brake_en)
    BY <1>1, <1>3, <1>6 DEF FrameBrakes
  <2> QED
    BY <2>1, SmallBits
<1> QED
  BY <1>5, <1>6

\* A step that leaves the frames alone keeps the invariant when the command it writes
\* stands where it must.
LEMMA CommandWritten ==
  ASSUME CarInv, UNCHANGED <<payload, bus>>,
         cmd' = [f \in DOMAIN Layout210 |-> cmd'[f]],
         cmd'.brake_en # 0 => CmdStands', ~live' => CmdStands',
         sent' = 0 \/ (sent' = sent /\ (live' \/ ~live))
  PROVE  CarInv'
  BY DEF CarInv, FrameStands, FrameBrakes

\* Every step of the car's adapter keeps the invariant.
LEMMA CarStepKeeps ==
  ASSUME CarInv, [CarNext]_carVars
  PROVE  CarInv'
<1> DEFINE Fields == DOMAIN Layout210
<1>0. /\ "target_speed" \in Fields /\ "target_gear" \in Fields /\ "brake_en" \in Fields
      /\ cmd = [f \in Fields |-> cmd[f]]
  <2>1. cmd = [f \in Fields |-> cmd[f]]
    BY DEF CarInv
  <2> QED BY <2>1 DEF Layout210
<1> HIDE DEF Fields
<1>1. ASSUME NEW g \in {P, N, D}, NEW b \in {0, 1}, cmd' = Stand(g, b)
      PROVE  /\ cmd' = [f \in Fields |-> cmd'[f]]
             /\ cmd'.target_speed = 0 /\ cmd'.target_gear = g /\ cmd'.brake_en = b
  BY <1>0, <1>1 DEF Stand
<1>2. CASE CarLand
  <2>1. /\ cmd' = [f \in Fields |-> cmd'[f]]
        /\ cmd'.target_speed = 0 /\ cmd'.target_gear = P /\ cmd'.brake_en = 1
    BY <1>1, <1>2 DEF CarLand, P, D
  <2> QED
    BY <2>1, <1>2, CommandWritten DEF CarLand, CmdStands, Fields
<1>3. CASE CarLoiter
  <2>1. /\ cmd' = [f \in Fields |-> cmd'[f]]
        /\ cmd'.target_speed = 0 /\ cmd'.target_gear = N /\ cmd'.brake_en = 1
    BY <1>1, <1>3 DEF CarLoiter, N, D
  <2> QED
    BY <2>1, <1>3, CommandWritten DEF CarLoiter, CmdStands, Fields
<1>4. CASE CarTakeoff
  <2>1. cmd' = [f \in Fields |-> cmd'[f]] /\ cmd'.brake_en = 0
    BY <1>1, <1>4 DEF CarTakeoff
  <2> QED
    BY <2>1, <1>4, CommandWritten DEF CarTakeoff, Fields
<1>5. ASSUME NEW v \in Vels, CmdVel(v) PROVE CarInv'
  <2>1. live
    BY <1>5 DEF CmdVel, Drivable, CarInv, CmdStands
  <2> DEFINE go == [cmd EXCEPT !.ipc_en = 1, !.brake_en = 0,
                               !.target_gear = IF v.vx < -5 THEN R ELSE D]
  <2>0. go = [f \in Fields |-> go[f]] /\ go.brake_en = 0
    BY <1>0
  <2> HIDE DEF go
  <2>4. \/ \E a : cmd' = [go EXCEPT !.steering_mode = 1, !.target_speed = 0,
                                    !.target_angle = a]
        \/ \E s : cmd' = [go EXCEPT !.steering_mode = 0, !.target_angle = 0,
                                    !.target_speed = s]
        \/ \E a, s : cmd' = [go EXCEPT !.steering_mode = 0, !.target_angle = a,
                                       !.target_speed = s]
    BY <1>5, Zenon DEF CmdVel, go
  <2>2. cmd' = [f \in Fields |-> cmd'[f]] /\ cmd'.brake_en = 0
    <3>1. ASSUME NEW a, cmd' = [go EXCEPT !.steering_mode = 1, !.target_speed = 0,
                                          !.target_angle = a]
          PROVE  cmd' = [f \in Fields |-> cmd'[f]] /\ cmd'.brake_en = 0
      BY <2>0, <1>0, <3>1
    <3>2. ASSUME NEW s, cmd' = [go EXCEPT !.steering_mode = 0, !.target_angle = 0,
                                          !.target_speed = s]
          PROVE  cmd' = [f \in Fields |-> cmd'[f]] /\ cmd'.brake_en = 0
      BY <2>0, <1>0, <3>2
    <3>3. ASSUME NEW a, NEW s, cmd' = [go EXCEPT !.steering_mode = 0, !.target_angle = a,
                                                 !.target_speed = s]
          PROVE  cmd' = [f \in Fields |-> cmd'[f]] /\ cmd'.brake_en = 0
      BY <2>0, <1>0, <3>3
    <3> QED
      BY <2>4, <3>1, <3>2, <3>3
  <2>3. UNCHANGED <<payload, bus, live, sent>>
    BY <1>5 DEF CmdVel
  <2> QED
    BY <2>1, <2>2, <2>3, CommandWritten DEF Fields
<1>6. ASSUME cmd' = [f \in Fields |-> cmd'[f]], UNCHANGED <<payload, bus, live, sent>>,
             \A f \in {"target_speed", "target_gear", "brake_en"} : cmd'[f] = cmd[f]
      PROVE  CarInv'
  <2>1. (cmd'.brake_en # 0 => CmdStands') /\ (~live' => CmdStands')
    BY <1>6 DEF CarInv, CmdStands
  <2> QED
    BY <1>6, <2>1, CommandWritten DEF Fields
<1>7. ASSUME NEW e \in Lights, SetLight(e) PROVE CarInv'
  BY <1>0, <1>6, <1>7 DEF SetLight
<1>8. ASSUME NEW on \in Switch, SetHorn(on) \/ SetEstop(on) PROVE CarInv'
  BY <1>0, <1>6, <1>8 DEF SetHorn, SetEstop
<1>9. CASE StepPack
  <2>1. /\ CmdStands => FrameStands(payload')
        /\ FrameBrakes(payload') => cmd.brake_en # 0
    BY <1>0, <1>9, PackedCommand DEF StepPack, Fields
  <2> QED
    BY <1>9, <2>1 DEF StepPack, CarInv, CmdStands
<1>10. CASE StepSend
  BY <1>10 DEF StepSend, CarInv, CmdStands
<1>11. CASE UNCHANGED carVars
  BY <1>11 DEF carVars, CarInv, CmdStands
<1> QED
  BY <1>2, <1>3, <1>4, <1>5, <1>7, <1>8, <1>9, <1>10, <1>11 DEF CarNext, CarThread

\* The invariant holds from the start on.
LEMMA CarInvariant == CarSpec => []CarInv
<1>1. ASSUME CarInit PROVE CarInv
  <2>1. cmd = [f \in DOMAIN Layout210 |-> IF f = "ipc_en" THEN 1 ELSE 0]
    BY <1>1 DEF CarInit
  <2>2. cmd.brake_en = 0 /\ cmd.target_speed = 0 /\ cmd.target_gear = 0
    BY <2>1 DEF Layout210
  <2>3. cmd = [f \in DOMAIN Layout210 |-> cmd[f]]
    BY <2>1
  <2>4. FrameStands(bus)
    BY <1>1, SmallBits DEF CarInit, FrameStands, Signal, P
  <2> QED
    BY <1>1, <2>2, <2>3, <2>4 DEF CarInit, CarInv, CmdStands, P
<1> QED
  BY <1>1, CarStepKeeps, PTL DEF CarSpec

\* After land or loiter at most one more frame may drive, for every request the tracker and
\* the users make and whatever the 50 Hz thread had packed.
THEOREM CarStopsOnBus == CarSpec => []StopOnBus
<1>1. CarInv => StopOnBus
  BY DEF CarInv, StopOnBus, Stands, OnBus, FrameStands
<1> QED
  BY <1>1, CarInvariant, PTL

\* No frame on the bus brakes and drives: the command's fields are never torn.
THEOREM CarBrakesOrDrives == CarSpec => []BrakeOrDrive
<1>1. CarInv => BrakeOrDrive
  BY DEF CarInv, BrakeOrDrive, Stands, OnBus, FrameStands, FrameBrakes
<1> QED
  BY <1>1, CarInvariant, PTL

=============================================================================
