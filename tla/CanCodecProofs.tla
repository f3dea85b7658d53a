--------------------------- MODULE CanCodecProofs ---------------------------
(***************************************************************************)
(* Packing and unpacking are inverse to each other for every layout whose  *)
(* wires are apart, whatever the messages; the ten layouts of the car's    *)
(* protocol are, and carry every message that is in range.                 *)
(***************************************************************************)
EXTENDS CanLibrary, TLAPS

\* A wired bit of a packed frame is set if and only if the bit of the signal it carries
\* is: no other signal reaches it (the masks of the pack functions do not overlap).
LEMMA BitOfSignal ==
  ASSUME NEW layout, NEW msg, Apart(layout),
         NEW f \in DOMAIN layout, NEW w \in layout[f]
  PROVE  w[1] \in Pack(layout, msg) <=> w[2] \in msg[f]
<1>1. ASSUME w[2] \in msg[f]
      PROVE  w[1] \in Pack(layout, msg)
  <2>1. w[1] \in Place(layout[f], msg[f])
    BY <1>1 DEF Place
  <2> QED
    BY <2>1 DEF Pack
<1>2. ASSUME w[1] \in Pack(layout, msg)
      PROVE  w[2] \in msg[f]
  <2>1. PICK g \in DOMAIN layout : w[1] \in Place(layout[g], msg[g])
    BY <1>2 DEF Pack
  <2>2. PICK v \in layout[g] : v[2] \in msg[g] /\ v[1] = w[1]
    BY <2>1 DEF Place
  <2>3. g = f /\ v[2] = w[2]
    BY <2>2 DEF Apart
  <2> QED
    BY <2>2, <2>3
<1> QED
  BY <1>1, <1>2

\* What the library packs it unpacks unchanged, for every message whose values fit their
\* wires: the generated pack and unpack functions lose and mix nothing.
THEOREM UnpackOfPack ==
  ASSUME NEW layout, NEW msg, Apart(layout), Carries(layout, msg)
  PROVE  Unpack(layout, Pack(layout, msg)) = msg
<1>1. ASSUME NEW f \in DOMAIN layout
      PROVE  Signal(layout[f], Pack(layout, msg)) = msg[f]
  <2>1. ASSUME NEW i \in Signal(layout[f], Pack(layout, msg))
        PROVE  i \in msg[f]
    <3>1. PICK w \in layout[f] : w[1] \in Pack(layout, msg) /\ i = w[2]
      BY <2>1 DEF Signal
    <3> QED
      BY <3>1, BitOfSignal
  <2>2. ASSUME NEW i \in msg[f]
        PROVE  i \in Signal(layout[f], Pack(layout, msg))
    <3>1. PICK w \in layout[f] : i = w[2]
      BY <2>2 DEF Carries, Wired
    <3>2. w[1] \in Pack(layout, msg)
      BY <2>2, <3>1, BitOfSignal
    <3> QED
      BY <3>1, <3>2 DEF Signal
  <2> QED
    BY <2>1, <2>2
<1>2. msg = [f \in DOMAIN layout |-> msg[f]]
  BY DEF Carries
<1> QED
  BY <1>1, <1>2 DEF Unpack

\* A frame that is unpacked and packed again keeps its wired bits and loses the others:
\* what the node reads of a frame is all of it that the protocol defines.
THEOREM PackOfUnpack ==
  ASSUME NEW layout, NEW frame, Apart(layout)
  PROVE  Pack(layout, Unpack(layout, frame)) =
           {b \in frame : \E f \in DOMAIN layout : \E w \in layout[f] : w[1] = b}
<1> DEFINE msg == Unpack(layout, frame)
           kept == {b \in frame : \E f \in DOMAIN layout : \E w \in layout[f] : w[1] = b}
<1>1. \A f \in DOMAIN layout : msg[f] = Signal(layout[f], frame)
  BY DEF Unpack
<1>2. ASSUME NEW b \in Pack(layout, msg)
      PROVE  b \in kept
  <2>1. PICK f \in DOMAIN layout : b \in Place(layout[f], msg[f])
    BY <1>2 DEF Pack
  <2>2. PICK w \in layout[f] : w[2] \in msg[f] /\ b = w[1]
    BY <2>1 DEF Place
  <2>3. PICK v \in layout[f] : v[1] \in frame /\ v[2] = w[2]
    BY <1>1, <2>2 DEF Signal
  <2> QED
    BY <2>2, <2>3 DEF Apart
<1>3. ASSUME NEW b \in kept
      PROVE  b \in Pack(layout, msg)
  <2>1. PICK f \in DOMAIN layout : \E w \in layout[f] : w[1] = b
    BY <1>3
  <2>1a. PICK w \in layout[f] : w[1] = b
    BY <2>1
  <2>2. w[2] \in msg[f]
    BY <1>1, <1>3, <2>1a DEF Signal
  <2>3. w[1] \in Pack(layout, msg)
    BY <2>2, BitOfSignal
  <2> QED
    BY <2>1a, <2>3
<1> QED
  BY <1>2, <1>3

-----------------------------------------------------------------------------
(* The wires of the protocol.                                              *)

\* A signal whose lowest bit is at a bit of the frame and that has so many bits.
Run(wires, first, width) ==
  /\ \A v \in wires : v[2] \in 0 .. width - 1 /\ v[1] = first + v[2]
  /\ \A i \in 0 .. width - 1 : i \in Wired(wires)

\* Bits within one byte are a run.
LEMMA RunOfAt ==
  ASSUME NEW byte \in Nat, NEW lo \in Nat, NEW n \in Nat, NEW first, first = 8 * byte + lo
  PROVE  Run(At(byte, lo, n), first, n)
<1>1. ASSUME NEW i \in 0 .. n - 1
      PROVE  i \in Wired(At(byte, lo, n))
  <2>1. <<8 * byte + lo + i, i>> \in At(byte, lo, n)
    BY DEF At
  <2> QED BY <2>1 DEF Wired
<1> QED BY <1>1 DEF Run, At

\* A run that goes on at the bottom of the next byte stays one.
LEMMA RunOfBytes ==
  ASSUME NEW wires, NEW first \in Nat, NEW k \in Nat, NEW byte \in Nat, NEW n \in Nat,
         Run(wires, first, k), 8 * byte = first + k
  PROVE  Run(wires \cup From(byte, 0, k, n), first, k + n)
<1> DEFINE more == From(byte, 0, k, n)
<1>1. ASSUME NEW v \in more
      PROVE  v[2] \in 0 .. k + n - 1 /\ v[1] = first + v[2]
  <2>1. PICK i \in 0 .. n - 1 : v = <<8 * byte + 0 + i, k + i>>
    BY DEF From
  <2>2. v[1] = 8 * byte + 0 + i /\ v[2] = k + i
    BY <2>1
  <2> HIDE DEF more
  <2> QED BY <2>2
<1>2. ASSUME NEW i \in 0 .. k + n - 1
      PROVE  i \in Wired(wires \cup more)
  <2>1. CASE i < k
    BY <2>1 DEF Run, Wired
  <2>2. CASE i >= k
    <3>1. i - k \in 0 .. n - 1 /\ i = k + (i - k) /\ 8 * byte + 0 + (i - k) \in Nat
      BY <2>2
    <3>2. <<8 * byte + 0 + (i - k), k + (i - k)>> \in more
      BY <3>1 DEF From
    <3>3. \E w \in wires \cup more : w[2] = i
      BY <3>1, <3>2
    <3> QED BY <3>3 DEF Wired
  <2> QED BY <2>1, <2>2
<1>3. \A v \in wires : v[2] \in 0 .. k + n - 1 /\ v[1] = first + v[2]
  BY DEF Run
<1>4. \A v \in wires \cup more : v[2] \in 0 .. k + n - 1 /\ v[1] = first + v[2]
  BY <1>1, <1>3
<1> QED BY <1>2, <1>4 DEF Run

\* The two forms in which the layouts name the bits of a signal within a byte and of two
\* bytes (see CanCodec), and those of the speeds and of the long counters.
AtIsRun(byte, lo, n) == Run(At(byte, lo, n), 8 * byte + lo, n)
WordIsRun(byte) == Run(Word(byte), 8 * byte, 16)
SpeedIsRun(byte, lo) ==
  Run(At(byte, lo, 8 - lo) \cup From(byte + 1, 0, 8 - lo, 8)
        \cup From(byte + 2, 0, 16 - lo, 1 + lo), 8 * byte + lo, 17)
LongIsRun(byte) ==
  Run(At(byte, 0, 8) \cup From(byte + 1, 0, 8, 8) \cup From(byte + 2, 0, 16, 8)
        \cup From(byte + 3, 0, 24, 8), 8 * byte, 32)

\* Two bytes in a row are a run of sixteen bits.
LEMMA RunOfWord ==
  ASSUME NEW byte \in Nat
  PROVE  WordIsRun(byte)
<1>1. Run(Byte(byte), 8 * byte, 8)
  BY RunOfAt DEF Byte
<1>2. 8 * byte \in Nat /\ byte + 1 \in Nat /\ 8 * (byte + 1) = 8 * byte + 8
  OBVIOUS
<1>3. Run(Byte(byte) \cup From(byte + 1, 0, 8, 8), 8 * byte, 8 + 8)
  BY <1>1, <1>2, RunOfBytes
<1> QED BY <1>3 DEF Word, WordIsRun

\* A speed begins anywhere in a byte, fills the next one and ends in a third.
LEMMA RunOfSpeed ==
  ASSUME NEW byte \in Nat, NEW lo \in 0 .. 7
  PROVE  SpeedIsRun(byte, lo)
<1> DEFINE first == 8 * byte + lo
           one == At(byte, lo, 8 - lo)
           two == one \cup From(byte + 1, 0, 8 - lo, 8)
<1>1. /\ first \in Nat /\ 8 - lo \in Nat /\ 16 - lo \in Nat /\ 1 + lo \in Nat
      /\ byte + 1 \in Nat /\ byte + 2 \in Nat
      /\ 8 * (byte + 1) = first + (8 - lo) /\ 8 * (byte + 2) = first + (16 - lo)
      /\ (8 - lo) + 8 = 16 - lo /\ (16 - lo) + (1 + lo) = 17
  OBVIOUS
<1>2. Run(one, first, 8 - lo)
  <2>1. lo \in Nat /\ 8 - lo \in Nat
    OBVIOUS
  <2> QED BY <2>1, RunOfAt
<1> HIDE DEF one, first
<1>3. Run(two, first, (8 - lo) + 8)
  BY <1>1, <1>2, RunOfBytes
<1>4. Run(two, first, 16 - lo)
  BY <1>1, <1>3
<1> HIDE DEF two
<1>5. Run(two \cup From(byte + 2, 0, 16 - lo, 1 + lo), first, (16 - lo) + (1 + lo))
  BY <1>1, <1>4, RunOfBytes
<1>6. Run(two \cup From(byte + 2, 0, 16 - lo, 1 + lo), first, 17)
  BY <1>1, <1>5
<1> QED BY <1>6 DEF SpeedIsRun, one, two, first

\* Four bytes in a row.
LEMMA RunOfLong ==
  ASSUME NEW byte \in Nat
  PROVE  LongIsRun(byte)
<1> DEFINE first == 8 * byte
           two == At(byte, 0, 8) \cup From(byte + 1, 0, 8, 8)
           three == two \cup From(byte + 2, 0, 16, 8)
<1>1. /\ first \in Nat /\ byte + 1 \in Nat /\ byte + 2 \in Nat /\ byte + 3 \in Nat
      /\ 8 * (byte + 1) = first + 8 /\ 8 * (byte + 2) = first + 16
      /\ 8 * (byte + 3) = first + 24
  OBVIOUS
<1>2. Run(two, first, 16)
  BY RunOfWord DEF WordIsRun, Word, Byte
<1> HIDE DEF two, first
<1>3. Run(three, first, 16 + 8)
  BY <1>1, <1>2, RunOfBytes
<1> HIDE DEF three
<1>4. Run(three, first, 24)
  BY <1>3
<1>5. Run(three \cup From(byte + 3, 0, 24, 8), first, 24 + 8)
  BY <1>1, <1>4, RunOfBytes
<1> QED BY <1>5 DEF LongIsRun, two, three, first

\* The table of a message has, for every signal, the first bit in the frame and the width.
Placed(layout, table) ==
  /\ DOMAIN table = DOMAIN layout
  /\ \A f \in DOMAIN layout :
       table[f] \in Nat \X Nat /\ Run(layout[f], table[f][1], table[f][2])

\* No bit of the frame belongs to two signals.
Disjoint(table) ==
  \A f, g \in DOMAIN table :
    f # g => \/ table[f][1] + table[f][2] <= table[g][1]
             \/ table[g][1] + table[g][2] <= table[f][1]

\* Signals that are runs and do not overlap have their wires apart.
LEMMA ApartRuns ==
  ASSUME NEW layout, NEW table, Placed(layout, table), Disjoint(table)
  PROVE  Apart(layout)
<1> SUFFICES ASSUME NEW f \in DOMAIN layout, NEW g \in DOMAIN layout,
                    NEW v \in layout[f], NEW w \in layout[g]
             PROVE  v[1] = w[1] <=> f = g /\ v[2] = w[2]
  BY DEF Apart
<1>1. table[f][1] \in Nat /\ table[f][2] \in Nat /\ table[g][1] \in Nat /\ table[g][2] \in Nat
  BY DEF Placed
<1>2. /\ v[2] \in 0 .. table[f][2] - 1 /\ v[1] = table[f][1] + v[2]
      /\ w[2] \in 0 .. table[g][2] - 1 /\ w[1] = table[g][1] + w[2]
  BY DEF Placed, Run
<1>3. f # g => \/ table[f][1] + table[f][2] <= table[g][1]
               \/ table[g][1] + table[g][2] <= table[f][1]
  BY DEF Placed, Disjoint
<1> QED BY <1>1, <1>2, <1>3

(* The tables of the ten messages.                                         *)

Table201 ==
  [drive_mode |-> <<0, 2>>, gear |-> <<2, 2>>, epo_sts |-> <<4, 2>>, yk_h |-> <<6, 1>>,
   yk_f |-> <<7, 1>>, angle |-> <<8, 16>>, flmcu_fatus |-> <<24, 1>>,
   frmcu_fault |-> <<25, 1>>, mlmcu_fault |-> <<26, 1>>, mrmcu_fault |-> <<27, 1>>,
   rlmcu_fault |-> <<28, 1>>, rrmcu_fault |-> <<29, 1>>, ebs1_fault |-> <<30, 1>>,
   ebs2_fault |-> <<31, 1>>, car_speed |-> <<32, 16>>, epb_lfr_sts |-> <<48, 4>>,
   epb_rfr_sts |-> <<52, 4>>, epb_ml_sts |-> <<56, 4>>, epb_mr_sts |-> <<60, 4>>]

Table202 ==
  [fault1 |-> <<0, 8>>, fault2 |-> <<8, 8>>, fault3 |-> <<16, 8>>, fault4 |-> <<24, 8>>,
   mileage |-> <<32, 32>>]

Table203 ==
  [brake_pressure1 |-> <<0, 16>>, brake_pressure2 |-> <<16, 16>>,
   curve_yk_max_speed |-> <<32, 8>>, soc |-> <<48, 8>>, car_sts1 |-> <<56, 2>>,
   car_sts2 |-> <<58, 2>>]

Table204 ==
  [fl_wheel_speed |-> <<0, 17>>, fr_wheel_speed |-> <<17, 17>>, ml_wheel_speed |-> <<34, 17>>]

Table205 ==
  [mr_wheel_speed |-> <<0, 17>>, fl_motor_torque |-> <<32, 16>>,
   fr_motor_torque |-> <<48, 16>>]

Table206 ==
  [ml_motor_torque |-> <<0, 16>>, mr_motor_torque |-> <<16, 16>>,
   rl_motor_torque |-> <<32, 16>>, rr_motor_torque |-> <<48, 16>>]

Table207 ==
  [epb1_fault |-> <<0, 8>>, epb2_fault |-> <<8, 8>>, epb_fkd_sts |-> <<16, 1>>,
   rl_wheel_speed |-> <<24, 17>>, rr_wheel_speed |-> <<41, 17>>]

Table210 ==
  [domain_ctrl_epo |-> <<3, 1>>, steering_mode |-> <<4, 1>>, ipc_en |-> <<5, 1>>,
   target_gear |-> <<6, 2>>, target_speed |-> <<8, 16>>, target_angle |-> <<32, 16>>,
   brake_en |-> <<48, 1>>, target_pressure |-> <<49, 7>>, dipped_lamp |-> <<56, 1>>,
   turn_lamp |-> <<57, 2>>, far_lamp |-> <<59, 1>>, horn |-> <<60, 1>>,
   car_off |-> <<61, 1>>, alarm_lamp |-> <<62, 1>>, out_line_lamp |-> <<63, 1>>]

Table260 ==
  [fault |-> <<0, 8>>, vcu_sts |-> <<8, 16>>, car_start_state |-> <<24, 2>>,
   vcu_service_voltage |-> <<48, 16>>]

Table261 ==
  [lv_main |-> <<0, 8>>, lv_sun |-> <<8, 8>>, lv_z_code |-> <<16, 8>>, time |-> <<24, 32>>]

\* Message 201.
LEMMA Apart201 == Placed(Layout201, Table201) /\ Apart(Layout201)
<1>1. /\ AtIsRun(0, 0, 2) /\ AtIsRun(0, 2, 2) /\ AtIsRun(0, 4, 2) /\ AtIsRun(0, 6, 1)
      /\ AtIsRun(0, 7, 1) /\ AtIsRun(3, 0, 1) /\ AtIsRun(3, 1, 1) /\ AtIsRun(3, 2, 1)
      /\ AtIsRun(3, 3, 1) /\ AtIsRun(3, 4, 1) /\ AtIsRun(3, 5, 1) /\ AtIsRun(3, 6, 1)
      /\ AtIsRun(3, 7, 1) /\ AtIsRun(6, 0, 4) /\ AtIsRun(6, 4, 4) /\ AtIsRun(7, 0, 4)
      /\ AtIsRun(7, 4, 4)
  BY RunOfAt DEF AtIsRun
<1>2. /\ WordIsRun(1) /\ WordIsRun(4)
  BY RunOfWord DEF WordIsRun
<1>3. Disjoint(Table201)
  BY DEF Disjoint, Table201
<1>4. DOMAIN Table201 = DOMAIN Layout201 /\ \A f \in DOMAIN Layout201 : Table201[f] \in Nat \X Nat
  BY DEF Table201, Layout201
<1>5. \A f \in DOMAIN Layout201 : Run(Layout201[f], Table201[f][1], Table201[f][2])
  BY <1>1, <1>2 DEF Layout201, Table201, AtIsRun, WordIsRun
<1>6. Placed(Layout201, Table201)
  BY <1>4, <1>5 DEF Placed
<1> QED
  BY <1>3, <1>6, ApartRuns

\* Message 202.
LEMMA Apart202 == Placed(Layout202, Table202) /\ Apart(Layout202)
<1>1. /\ AtIsRun(0, 0, 8) /\ AtIsRun(1, 0, 8) /\ AtIsRun(2, 0, 8) /\ AtIsRun(3, 0, 8)
  BY RunOfAt DEF AtIsRun
<1>2. Run(At(4, 0, 8) \cup From(5, 0, 8, 8)
           \cup From(6, 0, 16, 8) \cup From(7, 0, 24, 8), 32, 32)
  <2>1. LongIsRun(4)
    BY RunOfLong
  <2> QED BY <2>1 DEF LongIsRun
<1>3. Disjoint(Table202)
  BY DEF Disjoint, Table202
<1>4. DOMAIN Table202 = DOMAIN Layout202 /\ \A f \in DOMAIN Layout202 : Table202[f] \in Nat \X Nat
  BY DEF Table202, Layout202
<1>5. \A f \in DOMAIN Layout202 : Run(Layout202[f], Table202[f][1], Table202[f][2])
  BY <1>1, <1>2 DEF Layout202, Table202, AtIsRun, Byte
<1>6. Placed(Layout202, Table202)
  BY <1>4, <1>5 DEF Placed
<1> QED
  BY <1>3, <1>6, ApartRuns

\* Message 203.
LEMMA Apart203 == Placed(Layout203, Table203) /\ Apart(Layout203)
<1>1. /\ AtIsRun(4, 0, 8) /\ AtIsRun(6, 0, 8) /\ AtIsRun(7, 0, 2) /\ AtIsRun(7, 2, 2)
  BY RunOfAt DEF AtIsRun
<1>2. /\ WordIsRun(0) /\ WordIsRun(2)
  BY RunOfWord DEF WordIsRun
<1>3. Disjoint(Table203)
  BY DEF Disjoint, Table203
<1>4. DOMAIN Table203 = DOMAIN Layout203 /\ \A f \in DOMAIN Layout203 : Table203[f] \in Nat \X Nat
  BY DEF Table203, Layout203
<1>5. \A f \in DOMAIN Layout203 : Run(Layout203[f], Table203[f][1], Table203[f][2])
  BY <1>1, <1>2 DEF Layout203, Table203, AtIsRun, Byte, WordIsRun
<1>6. Placed(Layout203, Table203)
  BY <1>4, <1>5 DEF Placed
<1> QED
  BY <1>3, <1>6, ApartRuns

\* Message 204.
LEMMA Apart204 == Placed(Layout204, Table204) /\ Apart(Layout204)
<1>1. Run(Layout204.fl_wheel_speed, 0, 17)
  <2>1. SpeedIsRun(0, 0)
    BY RunOfSpeed
  <2> QED BY <2>1 DEF SpeedIsRun, Layout204
<1>2. Run(Layout204.fr_wheel_speed, 17, 17)
  <2>1. SpeedIsRun(2, 1)
    BY RunOfSpeed
  <2> QED BY <2>1 DEF SpeedIsRun, Layout204
<1>3. Run(Layout204.ml_wheel_speed, 34, 17)
  <2>1. SpeedIsRun(4, 2)
    BY RunOfSpeed
  <2> QED BY <2>1 DEF SpeedIsRun, Layout204
<1>4. Disjoint(Table204)
  BY DEF Disjoint, Table204
<1>5. DOMAIN Table204 = DOMAIN Layout204 /\ \A f \in DOMAIN Layout204 : Table204[f] \in Nat \X Nat
  BY DEF Table204, Layout204
<1>6. \A f \in DOMAIN Layout204 : Run(Layout204[f], Table204[f][1], Table204[f][2])
  BY <1>1, <1>2, <1>3, <1>5 DEF Table204
<1>7. Placed(Layout204, Table204)
  BY <1>5, <1>6 DEF Placed
<1> QED
  BY <1>4, <1>7, ApartRuns

\* Message 205.
LEMMA Apart205 == Placed(Layout205, Table205) /\ Apart(Layout205)
<1>1. /\ WordIsRun(4) /\ WordIsRun(6)
  BY RunOfWord DEF WordIsRun
<1>2. Run(At(0, 0, 8) \cup From(1, 0, 8, 8) \cup From(2, 0, 16, 1), 0, 17)
  <2>1. SpeedIsRun(0, 0)
    BY RunOfSpeed
  <2> QED BY <2>1 DEF SpeedIsRun
<1>3. Disjoint(Table205)
  BY DEF Disjoint, Table205
<1>4. DOMAIN Table205 = DOMAIN Layout205 /\ \A f \in DOMAIN Layout205 : Table205[f] \in Nat \X Nat
  BY DEF Table205, Layout205
<1>5. \A f \in DOMAIN Layout205 : Run(Layout205[f], Table205[f][1], Table205[f][2])
  BY <1>1, <1>2 DEF Layout205, Table205, WordIsRun
<1>6. Placed(Layout205, Table205)
  BY <1>4, <1>5 DEF Placed
<1> QED
  BY <1>3, <1>6, ApartRuns

\* Message 206.
LEMMA Apart206 == Placed(Layout206, Table206) /\ Apart(Layout206)
<1>1. /\ WordIsRun(0) /\ WordIsRun(2) /\ WordIsRun(4) /\ WordIsRun(6)
  BY RunOfWord DEF WordIsRun
<1>2. Disjoint(Table206)
  BY DEF Disjoint, Table206
<1>3. DOMAIN Table206 = DOMAIN Layout206 /\ \A f \in DOMAIN Layout206 : Table206[f] \in Nat \X Nat
  BY DEF Table206, Layout206
<1>4. \A f \in DOMAIN Layout206 : Run(Layout206[f], Table206[f][1], Table206[f][2])
  BY <1>1 DEF Layout206, Table206, WordIsRun
<1>5. Placed(Layout206, Table206)
  BY <1>3, <1>4 DEF Placed
<1> QED
  BY <1>2, <1>5, ApartRuns

\* Message 207.
LEMMA Apart207 == Placed(Layout207, Table207) /\ Apart(Layout207)
<1>1. /\ AtIsRun(0, 0, 8) /\ AtIsRun(1, 0, 8) /\ AtIsRun(2, 0, 1)
  BY RunOfAt DEF AtIsRun
<1>2. Run(Layout207.rl_wheel_speed, 24, 17)
  <2>1. SpeedIsRun(3, 0)
    BY RunOfSpeed
  <2> QED BY <2>1 DEF SpeedIsRun, Layout207
<1>3. Run(Layout207.rr_wheel_speed, 41, 17)
  <2>1. SpeedIsRun(5, 1)
    BY RunOfSpeed
  <2> QED BY <2>1 DEF SpeedIsRun, Layout207
<1>4. Disjoint(Table207)
  BY DEF Disjoint, Table207
<1>5. DOMAIN Table207 = DOMAIN Layout207 /\ \A f \in DOMAIN Layout207 : Table207[f] \in Nat \X Nat
  BY DEF Table207, Layout207
<1>6. /\ Run(Layout207.epb1_fault, 0, 8) /\ Run(Layout207.epb2_fault, 8, 8)
      /\ Run(Layout207.epb_fkd_sts, 16, 1)
  BY <1>1 DEF AtIsRun, Byte, Layout207
<1>7. \A f \in DOMAIN Layout207 : Run(Layout207[f], Table207[f][1], Table207[f][2])
  BY <1>6, <1>2, <1>3, <1>5 DEF Table207
<1>8. Placed(Layout207, Table207)
  BY <1>5, <1>7 DEF Placed
<1> QED
  BY <1>4, <1>8, ApartRuns

\* Message 210.
LEMMA Apart210 == Placed(Layout210, Table210) /\ Apart(Layout210)
<1>1. /\ AtIsRun(0, 3, 1) /\ AtIsRun(0, 4, 1) /\ AtIsRun(0, 5, 1) /\ AtIsRun(0, 6, 2)
      /\ AtIsRun(6, 0, 1) /\ AtIsRun(6, 1, 7) /\ AtIsRun(7, 0, 1) /\ AtIsRun(7, 1, 2)
      /\ AtIsRun(7, 3, 1) /\ AtIsRun(7, 4, 1) /\ AtIsRun(7, 5, 1) /\ AtIsRun(7, 6, 1)
      /\ AtIsRun(7, 7, 1)
  BY RunOfAt DEF AtIsRun
<1>2. /\ WordIsRun(1) /\ WordIsRun(4)
  BY RunOfWord DEF WordIsRun
<1>3. Disjoint(Table210)
  BY DEF Disjoint, Table210
<1>4. DOMAIN Table210 = DOMAIN Layout210 /\ \A f \in DOMAIN Layout210 : Table210[f] \in Nat \X Nat
  BY DEF Table210, Layout210
<1>5. \A f \in DOMAIN Layout210 : Run(Layout210[f], Table210[f][1], Table210[f][2])
  BY <1>1, <1>2 DEF Layout210, Table210, AtIsRun, WordIsRun
<1>6. Placed(Layout210, Table210)
  BY <1>4, <1>5 DEF Placed
<1> QED
  BY <1>3, <1>6, ApartRuns

\* Message 260.
LEMMA Apart260 == Placed(Layout260, Table260) /\ Apart(Layout260)
<1>1. /\ AtIsRun(0, 0, 8) /\ AtIsRun(3, 0, 2)
  BY RunOfAt DEF AtIsRun
<1>2. /\ WordIsRun(1) /\ WordIsRun(6)
  BY RunOfWord DEF WordIsRun
<1>3. Disjoint(Table260)
  BY DEF Disjoint, Table260
<1>4. DOMAIN Table260 = DOMAIN Layout260 /\ \A f \in DOMAIN Layout260 : Table260[f] \in Nat \X Nat
  BY DEF Table260, Layout260
<1>5. \A f \in DOMAIN Layout260 : Run(Layout260[f], Table260[f][1], Table260[f][2])
  BY <1>1, <1>2 DEF Layout260, Table260, AtIsRun, Byte, WordIsRun
<1>6. Placed(Layout260, Table260)
  BY <1>4, <1>5 DEF Placed
<1> QED
  BY <1>3, <1>6, ApartRuns

\* Message 261.
LEMMA Apart261 == Placed(Layout261, Table261) /\ Apart(Layout261)
<1>1. /\ AtIsRun(0, 0, 8) /\ AtIsRun(1, 0, 8) /\ AtIsRun(2, 0, 8)
  BY RunOfAt DEF AtIsRun
<1>2. Run(At(3, 0, 8) \cup From(4, 0, 8, 8) \cup From(5, 0, 16, 8)
           \cup From(6, 0, 24, 8), 24, 32)
  <2>1. LongIsRun(3)
    BY RunOfLong
  <2> QED BY <2>1 DEF LongIsRun
<1>3. Disjoint(Table261)
  BY DEF Disjoint, Table261
<1>4. DOMAIN Table261 = DOMAIN Layout261 /\ \A f \in DOMAIN Layout261 : Table261[f] \in Nat \X Nat
  BY DEF Table261, Layout261
<1>5. \A f \in DOMAIN Layout261 : Run(Layout261[f], Table261[f][1], Table261[f][2])
  BY <1>1, <1>2 DEF Layout261, Table261, AtIsRun, Byte
<1>6. Placed(Layout261, Table261)
  BY <1>4, <1>5 DEF Placed
<1> QED
  BY <1>3, <1>6, ApartRuns

-----------------------------------------------------------------------------
(* The ranges of the signals.                                              *)

\* The number does not reach the weight of bit k, nor those of the bits above.
Below(n, k) == \A i \in k .. 23 : Weight[i + 1] \in Nat /\ n < Weight[i + 1]

\* Such a number has its lowest k bits only.
LEMMA BitsBelow ==
  ASSUME NEW n \in Nat, NEW k \in Nat, Below(n, k)
  PROVE  Bits(n) \subseteq 0 .. k - 1
<1> SUFFICES ASSUME NEW i \in 0 .. 23, (n \div Weight[i + 1]) % 2 = 1, i >= k
             PROVE  FALSE
  BY DEF Bits
<1>1. \A m, p \in Nat : m < p => (m \div p) % 2 = 0
  BY SMT
<1>2. i \in k .. 23
  OBVIOUS
<1>3. (n \div Weight[i + 1]) % 2 = 0
  BY <1>1, <1>2 DEF Below
<1> QED BY <1>3

\* The greatest values of the signals have no bits beyond their widths.
LEMMA BitsOfMaxima ==
  /\ Bits(1) \subseteq 0 .. 0 /\ Bits(3) \subseteq 0 .. 1 /\ Bits(15) \subseteq 0 .. 3
  /\ Bits(60) \subseteq 0 .. 6 /\ Bits(200) \subseteq 0 .. 15 /\ Bits(255) \subseteq 0 .. 7
  /\ Bits(65535) \subseteq 0 .. 15 /\ Bits(131071) \subseteq 0 .. 16
  /\ Bits(9999999) \subseteq 0 .. 31
<1>1. Below(1, 1)
  BY SMT DEF Below, Weight
<1>2. Below(3, 2)
  BY SMT DEF Below, Weight
<1>3. Below(15, 4)
  BY SMT DEF Below, Weight
<1>4. Below(60, 7)
  BY SMT DEF Below, Weight
<1>5. Below(200, 16)
  BY SMT DEF Below, Weight
<1>6. Below(255, 8)
  BY SMT DEF Below, Weight
<1>7. Below(65535, 16)
  BY SMT DEF Below, Weight
<1>8. Below(131071, 17)
  BY SMT DEF Below, Weight
<1>9. Bits(1) \subseteq 0 .. 1 - 1
  BY <1>1, BitsBelow, SMT
<1>10. Bits(3) \subseteq 0 .. 2 - 1
  BY <1>2, BitsBelow, SMT
<1>11. Bits(15) \subseteq 0 .. 4 - 1
  BY <1>3, BitsBelow, SMT
<1>12. Bits(60) \subseteq 0 .. 7 - 1
  BY <1>4, BitsBelow, SMT
<1>13. Bits(200) \subseteq 0 .. 16 - 1
  BY <1>5, BitsBelow, SMT
<1>14. Bits(255) \subseteq 0 .. 8 - 1
  BY <1>6, BitsBelow, SMT
<1>15. Bits(65535) \subseteq 0 .. 16 - 1
  BY <1>7, BitsBelow, SMT
<1>16. Bits(131071) \subseteq 0 .. 17 - 1
  BY <1>8, BitsBelow, SMT
<1>17. Bits(9999999) \subseteq 0 .. 31
  BY DEF Bits
<1> QED BY <1>9, <1>10, <1>11, <1>12, <1>13, <1>14, <1>15, <1>16, <1>17, SMT

\* The greatest value of every signal fits its width.
Fits(range, table) ==
  /\ DOMAIN range = DOMAIN table
  /\ \A f \in DOMAIN table : range[f] \subseteq 0 .. table[f][2] - 1

\* A number that is at most another has no bits above the other's highest.
LEMMA AtMostFits ==
  ASSUME NEW v \in SUBSET Nat, NEW w \in Nat, NEW max \in SUBSET (0 .. w - 1), AtMost(v, max)
  PROVE  v \subseteq 0 .. w - 1
<1>1. ASSUME NEW i \in max \ v, \A j \in v \cup max : j > i => (j \in v <=> j \in max),
             NEW j \in v
      PROVE  j \in 0 .. w - 1
  <2>1. CASE j > i
    BY <1>1, <2>1
  <2>2. CASE j <= i
    BY <1>1, <2>2
  <2> QED BY <2>1, <2>2
<1> QED BY <1>1 DEF AtMost

\* A message in range is carried by its wires.
LEMMA InRangeCarried ==
  ASSUME NEW layout, NEW table, NEW range, NEW msg \in [DOMAIN layout -> SUBSET (0 .. 31)],
         Placed(layout, table), Fits(range, table), InRange(range, msg)
  PROVE  Carries(layout, msg)
<1> SUFFICES ASSUME NEW f \in DOMAIN layout PROVE msg[f] \subseteq Wired(layout[f])
  BY DEF Carries
<1>1. table[f][2] \in Nat /\ range[f] \in SUBSET (0 .. table[f][2] - 1)
  BY DEF Placed, Fits
<1>2. msg[f] \in SUBSET Nat /\ AtMost(msg[f], range[f])
  BY DEF Placed, Fits, InRange
<1>3. msg[f] \subseteq 0 .. table[f][2] - 1
  BY <1>1, <1>2, AtMostFits
<1>4. \A i \in 0 .. table[f][2] - 1 : i \in Wired(layout[f])
  BY DEF Placed, Run
<1> QED BY <1>3, <1>4

\* Message 201.
LEMMA Fits201 == Fits(Range201, Table201)
  BY BitsOfMaxima, SMT DEF Fits, Range201, Table201

\* Message 202.
LEMMA Fits202 == Fits(Range202, Table202)
  BY BitsOfMaxima, SMT DEF Fits, Range202, Table202

\* Message 203.
LEMMA Fits203 == Fits(Range203, Table203)
  BY BitsOfMaxima, SMT DEF Fits, Range203, Table203

\* Message 204.
LEMMA Fits204 == Fits(Range204, Table204)
  BY BitsOfMaxima, SMT DEF Fits, Range204, Table204

\* Message 205.
LEMMA Fits205 == Fits(Range205, Table205)
  BY BitsOfMaxima, SMT DEF Fits, Range205, Table205

\* Message 206.
LEMMA Fits206 == Fits(Range206, Table206)
  BY BitsOfMaxima, SMT DEF Fits, Range206, Table206

\* Message 207.
LEMMA Fits207 == Fits(Range207, Table207)
  BY BitsOfMaxima, SMT DEF Fits, Range207, Table207

\* Message 210.
LEMMA Fits210 == Fits(Range210, Table210)
  BY BitsOfMaxima, SMT DEF Fits, Range210, Table210

\* Message 260.
LEMMA Fits260 == Fits(Range260, Table260)
  BY BitsOfMaxima, SMT DEF Fits, Range260, Table260

\* Message 261.
LEMMA Fits261 == Fits(Range261, Table261)
  BY BitsOfMaxima, SMT DEF Fits, Range261, Table261

-----------------------------------------------------------------------------
(* One use of the library.                                                 *)

\* In each of the ten messages the signals are apart, and a message in range is carried.
LEMMA CarriedInRange ==
  ASSUME NEW id \in DOMAIN Layouts, NEW msg \in [DOMAIN Ranges[id] -> SUBSET (0 .. 31)],
         InRange(Ranges[id], msg)
  PROVE  Apart(Layouts[id]) /\ Carries(Layouts[id], msg)
<1> DEFINE Good(layout, range) == \E t : Placed(layout, t) /\ Apart(layout) /\ Fits(range, t)
<1>1. Good(Layout201, Range201) /\ Good(Layout202, Range202)
  BY Apart201, Fits201, Apart202, Fits202
<1>2. Good(Layout203, Range203) /\ Good(Layout204, Range204)
  BY Apart203, Fits203, Apart204, Fits204
<1>3. Good(Layout205, Range205) /\ Good(Layout206, Range206)
  BY Apart205, Fits205, Apart206, Fits206
<1>4. Good(Layout207, Range207) /\ Good(Layout210, Range210)
  BY Apart207, Fits207, Apart210, Fits210
<1>5. Good(Layout260, Range260) /\ Good(Layout261, Range261)
  BY Apart260, Fits260, Apart261, Fits261
<1> HIDE DEF Good
<1>6. Good(Layouts[id], Ranges[id])
  BY <1>1, <1>2, <1>3, <1>4, <1>5, SMT DEF Layouts, Ranges
<1>7. PICK t : Placed(Layouts[id], t) /\ Apart(Layouts[id]) /\ Fits(Ranges[id], t)
  BY <1>6 DEF Good
<1>8. DOMAIN Ranges[id] = DOMAIN Layouts[id]
  BY <1>7 DEF Placed, Fits
<1> QED
  BY <1>7, <1>8, InRangeCarried

\* Every message of the car's protocol whose values are in range is read back unchanged,
\* signal by signal: ipc_vcu_zrd.c loses, mixes and cuts off nothing.
THEOREM EveryMessageReadBack ==
  ASSUME NEW id \in DOMAIN Layouts, NEW msg \in [DOMAIN Ranges[id] -> SUBSET (0 .. 31)],
         InRange(Ranges[id], msg)
  PROVE  Unpack(Layouts[id], Pack(Layouts[id], msg)) = msg
  BY CarriedInRange, UnpackOfPack

\* What the context may hold of the car.
CanCtxTyped ==
  canCtx \in [gear : SUBSET (0 .. 31), speed : SUBSET (0 .. 31), angle : SUBSET (0 .. 31),
              mode : SUBSET (0 .. 31), estop : BOOLEAN, battery : SUBSET (0 .. 31),
              state : SUBSET (0 .. 31)]

\* The message that is packed is one of the protocol, with all its values in range.
CanMsgTyped ==
  /\ canMsg.id \in DOMAIN Layouts
  /\ Apart(Layouts[canMsg.id]) /\ Carries(Layouts[canMsg.id], canMsg.signals)

\* The inductive invariant: from packing on, the buffer holds the message; the struct is
\* zero until it is unpacked into.
CanInv ==
  /\ CanMsgTyped
  /\ CanCtxTyped
  /\ canStep \in {"init", "packed", "unpacked", "stored", "error"}
  /\ canStep \in {"packed", "unpacked", "stored"} =>
       canFrame = Pack(Layouts[canMsg.id], canMsg.signals)
  /\ canStep \in {"init", "packed", "error"} => canGot = Zero(canMsg.id)
  /\ canStep \in {"unpacked", "stored"} => canGot = canMsg.signals
  /\ canStep = "stored" => canCtx = Stored(canMsg.id, canMsg.signals)

\* What the three handlers store, one by one.
LEMMA StoredCases ==
  ASSUME NEW m
  PROVE  /\ Stored("m201", m) = [canCtx EXCEPT !.gear = m.gear, !.speed = m.car_speed,
                                     !.angle = m.angle, !.mode = m.drive_mode,
                                     !.estop = m.epo_sts # {}]
         /\ Stored("m203", m) = [canCtx EXCEPT !.battery = m.soc]
         /\ Stored("m260", m) = [canCtx EXCEPT !.state = m.car_start_state]
  BY DEF Stored

\* A frame that is read stores its values, and storing them again changes nothing.
LEMMA HandleKeeps ==
  ASSUME CanInv, NEW size, CanHandle(size)
  PROVE  /\ canGot' = canMsg.signals
         /\ CanCtxTyped'
         /\ canCtx' = Stored(canMsg.id, canMsg.signals)'
<1> DEFINE m == canMsg.signals
<1>1. canGot' = m /\ canMsg' = canMsg
  BY UnpackOfPack DEF CanInv, CanMsgTyped, CanHandle
<1>2. canCtx' = Stored(canMsg.id, m)
  BY <1>1 DEF CanHandle, Stored
<1>3. \A f \in DOMAIN Layouts[canMsg.id] : m[f] \in SUBSET (0 .. 31)
  BY DEF CanInv, CanMsgTyped, Carries
<1>4. CASE canMsg.id = "m201"
  <2>1. DOMAIN Layouts["m201"] = DOMAIN Layout201
    BY DEF Layouts
  <2>2. m.gear \in SUBSET (0 .. 31) /\ m.car_speed \in SUBSET (0 .. 31)
        /\ m.angle \in SUBSET (0 .. 31) /\ m.drive_mode \in SUBSET (0 .. 31)
    BY <1>3, <1>4, <2>1 DEF Layout201
  <2>3. canCtx' = [canCtx EXCEPT !.gear = m.gear, !.speed = m.car_speed, !.angle = m.angle,
                                 !.mode = m.drive_mode, !.estop = m.epo_sts # {}]
    BY <1>2, <1>4, StoredCases
  <2>4. CanCtxTyped'
    BY <2>2, <2>3 DEF CanInv, CanCtxTyped
  <2>5. canCtx' = [canCtx' EXCEPT !.gear = m.gear, !.speed = m.car_speed, !.angle = m.angle,
                                  !.mode = m.drive_mode, !.estop = m.epo_sts # {}]
    BY <2>3, <2>2 DEF CanInv, CanCtxTyped
  <2>6. canCtx' = Stored(canMsg.id, m)'
    BY <2>5, <1>1, <1>4 DEF Stored
  <2> QED BY <1>1, <2>4, <2>6
<1>5. CASE canMsg.id = "m203"
  <2>1. DOMAIN Layouts["m203"] = DOMAIN Layout203
    BY DEF Layouts
  <2>2. m.soc \in SUBSET (0 .. 31)
    BY <1>3, <1>5, <2>1 DEF Layout203
  <2>3. canCtx' = [canCtx EXCEPT !.battery = m.soc]
    BY <1>2, <1>5, StoredCases
  <2>4. CanCtxTyped'
    BY <2>2, <2>3 DEF CanInv, CanCtxTyped
  <2>5. canCtx' = [canCtx' EXCEPT !.battery = m.soc]
    BY <2>3, <2>2 DEF CanInv, CanCtxTyped
  <2>6. canCtx' = Stored(canMsg.id, m)'
    BY <2>5, <1>1, <1>5 DEF Stored
  <2> QED BY <1>1, <2>4, <2>6
<1>6. CASE canMsg.id = "m260"
  <2>1. DOMAIN Layouts["m260"] = DOMAIN Layout260
    BY DEF Layouts
  <2>2. m.car_start_state \in SUBSET (0 .. 31)
    BY <1>3, <1>6, <2>1 DEF Layout260
  <2>3. canCtx' = [canCtx EXCEPT !.state = m.car_start_state]
    BY <1>2, <1>6, StoredCases
  <2>4. CanCtxTyped'
    BY <2>2, <2>3 DEF CanInv, CanCtxTyped
  <2>5. canCtx' = [canCtx' EXCEPT !.state = m.car_start_state]
    BY <2>3, <2>2 DEF CanInv, CanCtxTyped
  <2>6. canCtx' = Stored(canMsg.id, m)'
    BY <2>5, <1>1, <1>6 DEF Stored
  <2> QED BY <1>1, <2>4, <2>6
<1> QED
  BY <1>4, <1>5, <1>6 DEF CanHandle

\* Every step keeps the invariant.
LEMMA CanStepKeeps ==
  ASSUME CanInv, [CanNext]_canVars
  PROVE  CanInv'
<1>1. CASE UNCHANGED canVars
  BY <1>1 DEF CanInv, CanMsgTyped, CanCtxTyped, Zero, Stored, canVars
<1>2. ASSUME NEW size \in {7, 8}, CanPack(size)
      PROVE  CanInv'
  BY <1>2 DEF CanInv, CanMsgTyped, CanCtxTyped, Zero, CanPack
<1>3. ASSUME NEW size \in {7, 8}, CanUnpack(size)
      PROVE  CanInv'
  <2>1. canStep' = "unpacked" => canGot' = canMsg.signals
    BY <1>3, UnpackOfPack DEF CanInv, CanMsgTyped, CanUnpack
  <2> QED
    BY <1>3, <2>1 DEF CanInv, CanMsgTyped, CanCtxTyped, Zero, CanUnpack
<1>4. ASSUME NEW size \in {7, 8}, CanHandle(size)
      PROVE  CanInv'
  <2>1. /\ canGot' = canMsg.signals
        /\ CanCtxTyped'
        /\ canCtx' = Stored(canMsg.id, canMsg.signals)'
    BY <1>4, HandleKeeps
  <2>2. canMsg' = canMsg /\ canFrame' = canFrame /\ canStep' = "stored" /\ canStep = "packed"
    BY <1>4 DEF CanHandle
  <2> QED
    BY <2>1, <2>2 DEF CanInv, CanMsgTyped
<1> QED
  BY <1>1, <1>2, <1>3, <1>4 DEF CanNext

\* With any message in range: whatever is packed, unpacked and stored is what was given, and
\* a buffer that is too short changes nothing.
THEOREM FramesAreReadBack == CanSpec => []FramesReadBack
<1>1. ASSUME NEW id \in DOMAIN Layouts, canMsg \in CanMessage(id), CanFresh
      PROVE  CanInv
  <2>1. PICK m \in [DOMAIN Ranges[id] -> SUBSET (0 .. 31)] :
          InRange(Ranges[id], m) /\ canMsg = [id |-> id, signals |-> m]
    BY <1>1 DEF CanMessage
  <2>2. CanMsgTyped
    BY <2>1, CarriedInRange DEF CanMsgTyped
  <2>3. CanCtxTyped
    BY <1>1 DEF CanFresh, CanCtxTyped
  <2> QED
    BY <1>1, <2>2, <2>3 DEF CanInv, CanFresh
<1>2. CanInv => FramesReadBack
  BY DEF CanInv, CanMsgTyped, FramesReadBack
<1>3. (\E id \in DOMAIN Layouts : canMsg \in CanMessage(id)) /\ CanFresh => CanInv
  BY <1>1
<1> QED
  BY <1>2, <1>3, CanStepKeeps, PTL DEF CanSpec

=============================================================================
