----------------------------- MODULE CanLibrary -----------------------------
(***************************************************************************)
(* One use of the generated CAN library: a message with all signals in     *)
(* range is packed into a buffer and the buffer is unpacked.  The signals  *)
(* are all zero or all at their greatest value, except one, which is zero, *)
(* at its greatest value or a single bit: no wire can be wrong unseen.     *)
(* The node's CAN adapter (include/features/car/feature.hpp) unpacks the   *)
(* frames 201, 203 and 260 into the context.                               *)
(***************************************************************************)
EXTENDS CanCodec

VARIABLES
  canMsg,     \* the message: its id and its signals
  canFrame,   \* the buffer
  canGot,     \* the struct unpacked into
  canStep,    \* "packed", "unpacked", "stored", or "error" (-EINVAL)
  canCtx      \* the values of RobotContext that come from the car, as bits

canVars == <<canMsg, canFrame, canGot, canStep, canCtx>>

\* The init functions of the library: every signal is 0.
Zero(id) == [f \in DOMAIN Ranges[id] |-> {}]

Messages(id) ==
  {[g \in DOMAIN Ranges[id] |-> IF g = f THEN v ELSE IF full THEN Ranges[id][g] ELSE {}] :
     f \in DOMAIN Ranges[id], full \in BOOLEAN,
     v \in {{}} \cup {{i} : i \in 0 .. 31} \cup {Ranges[id][h] : h \in DOMAIN Ranges[id]}}

\* The buffer, the struct and the context before the library is used.
CanFresh ==
  /\ canFrame = {}
  /\ canGot = Zero(canMsg.id)
  /\ canStep = "init"
  /\ canCtx = [gear |-> {}, speed |-> {}, angle |-> {}, mode |-> {}, estop |-> FALSE,
               battery |-> {}, state |-> {}]

CanInit ==
  /\ canMsg \in UNION {{[id |-> id, signals |-> m] : m \in {n \in Messages(id) :
                                                    InRange(Ranges[id], n)}} :
                       id \in DOMAIN Layouts}
  /\ CanFresh

CanPack(size) ==
  /\ canStep = "init"
  /\ IF size < 8
     THEN canStep' = "error" /\ UNCHANGED canFrame
     ELSE canStep' = "packed" /\ canFrame' = Pack(Layouts[canMsg.id], canMsg.signals)
  /\ UNCHANGED <<canMsg, canGot, canCtx>>

CanUnpack(size) ==
  /\ canStep = "packed"
  /\ IF size < 8
     THEN canStep' = "error" /\ UNCHANGED canGot
     ELSE canStep' = "unpacked" /\ canGot' = Unpack(Layouts[canMsg.id], canFrame)
  /\ UNCHANGED <<canMsg, canFrame, canCtx>>

\* What the handlers of the three messages store.
Stored(id, m) ==
  CASE id = "m201" -> [canCtx EXCEPT !.gear = m.gear, !.speed = m.car_speed,
                                     !.angle = m.angle, !.mode = m.drive_mode,
                                     !.estop = m.epo_sts # {}]
    [] id = "m203" -> [canCtx EXCEPT !.battery = m.soc]
    [] id = "m260" -> [canCtx EXCEPT !.state = m.car_start_state]

\* The adapter hands a frame to its handler, which takes one of eight bytes only.
CanHandle(size) ==
  /\ canStep = "packed"
  /\ canMsg.id \in {"m201", "m203", "m260"}
  /\ size = 8
  /\ canGot' = Unpack(Layouts[canMsg.id], canFrame)
  /\ canCtx' = Stored(canMsg.id, canGot')
  /\ canStep' = "stored"
  /\ UNCHANGED <<canMsg, canFrame>>

CanNext == \E size \in {7, 8} : CanPack(size) \/ CanUnpack(size) \/ CanHandle(size)

\* The library with any message in range, too many for TLC.
CanMessage(id) ==
  {[id |-> id, signals |-> m] : m \in {n \in [DOMAIN Ranges[id] -> SUBSET (0 .. 31)] :
                                       InRange(Ranges[id], n)}}

CanSpec ==
  (\E id \in DOMAIN Layouts : canMsg \in CanMessage(id)) /\ CanFresh /\ [][CanNext]_canVars

\* What is packed in range is read back unchanged, signal by signal, and so is what the
\* context keeps of it; a buffer that is too short changes nothing.
FramesReadBack ==
  /\ Apart(Layouts[canMsg.id]) /\ Carries(Layouts[canMsg.id], canMsg.signals)
  /\ canStep \in {"unpacked", "stored"} => canGot = canMsg.signals
  /\ canStep = "stored" => canCtx = Stored(canMsg.id, canMsg.signals)
  /\ canStep \in {"packed", "error"} => canGot = Zero(canMsg.id)
=============================================================================
