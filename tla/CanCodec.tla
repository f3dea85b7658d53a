------------------------------ MODULE CanCodec ------------------------------
(***************************************************************************)
(* The CAN protocol of the car: generated/can_bus/ipc_vcu_zrd.{h,c}.       *)
(*                                                                         *)
(* A signal's value is the set of its bits that are 1 and a frame the set  *)
(* of the bits 0 .. 63 that are 1.  A layout gives, for every signal of a  *)
(* message, the wires between frame and value: <<frame bit, value bit>>.   *)
(* The shifts and masks of one line of a pack function are one run of      *)
(* wires; its unpack function has the same runs, read the other way.       *)
(* A range gives the greatest value of every signal, as bits.  For the     *)
(* signed angles the whole width is in range: int16_t and uint16_t share   *)
(* their bits.                                                             *)
(*                                                                         *)
(* A layout stands for all functions of its message in ipc_vcu_zrd.c:      *)
(* pack, unpack, init and the range checks.  Values are raw: the encode    *)
(* and decode functions only scale them, and nobody calls them.            *)
(*                                                                         *)
(* Operators named XBut... are faulty variants of X: they show that the    *)
(* properties can fail and are used by no specification.                   *)
(***************************************************************************)
EXTENDS Integers

\* The bits of a number below 2^24, and of a signed one in 16 bits.  Bit i weighs
\* Weight[i + 1]: the provers know no powers.
Weight ==
  <<1, 2, 4, 8, 16, 32, 64, 128, 256, 512, 1024, 2048, 4096, 8192, 16384, 32768, 65536,
    131072, 262144, 524288, 1048576, 2097152, 4194304, 8388608>>

Bits(n) == {i \in 0 .. 23 : (n \div Weight[i + 1]) % 2 = 1}
Bits16(n) == {i \in 0 .. 15 : (n \div Weight[i + 1]) % 2 = 1}

\* n bits at bit lo of a byte hold the value's lowest n bits; or its bits from
\* the given one on, at the bottom of the byte.
At(byte, lo, n) == {<<8 * byte + lo + i, i>> : i \in 0 .. n - 1}
From(byte, lo, from, n) == {<<8 * byte + lo + i, from + i>> : i \in 0 .. n - 1}
Byte(b) == At(b, 0, 8)
Word(b) == Byte(b) \cup From(b + 1, 0, 8, 8)

\* pack: memset to 0, then each line ORs its run of bits into a byte.
Place(wires, value) == {w[1] : w \in {v \in wires : v[2] \in value}}
Pack(layout, msg) == UNION {Place(layout[f], msg[f]) : f \in DOMAIN layout}

\* unpack: each signal is the OR of its runs, masked and shifted back.
Signal(wires, frame) == {w[2] : w \in {v \in wires : v[1] \in frame}}
Unpack(layout, frame) == [f \in DOMAIN layout |-> Signal(layout[f], frame)]

\* v <= max, for numbers given by their bits.
AtMost(v, max) ==
  v = max \/ \E i \in max \ v : \A j \in v \cup max : j > i => (j \in v <=> j \in max)

\* is_in_range of every signal.
InRange(range, msg) == \A f \in DOMAIN range : AtMost(msg[f], range[f])

-----------------------------------------------------------------------------
(* What each pack and unpack function wires.                               *)

\* The third byte of rr_wheel_speed starts at bit 14 instead of 15.
Layout207ButShifted ==
  [epb1_fault |-> Byte(0), epb2_fault |-> Byte(1), epb_fkd_sts |-> At(2, 0, 1),
   rl_wheel_speed |-> At(3, 0, 8) \cup From(4, 0, 8, 8) \cup From(5, 0, 16, 1),
   rr_wheel_speed |-> At(5, 1, 7) \cup From(6, 0, 7, 8) \cup From(7, 0, 14, 2)]
Layout207 ==
  [epb1_fault |-> Byte(0), epb2_fault |-> Byte(1), epb_fkd_sts |-> At(2, 0, 1),
   rl_wheel_speed |-> At(3, 0, 8) \cup From(4, 0, 8, 8) \cup From(5, 0, 16, 1),
   rr_wheel_speed |-> At(5, 1, 7) \cup From(6, 0, 7, 8) \cup From(7, 0, 15, 2)]

Layout206 ==
  [ml_motor_torque |-> Word(0), mr_motor_torque |-> Word(2), rl_motor_torque |-> Word(4),
   rr_motor_torque |-> Word(6)]

Layout205 ==
  [mr_wheel_speed |-> At(0, 0, 8) \cup From(1, 0, 8, 8) \cup From(2, 0, 16, 1),
   fl_motor_torque |-> Word(4), fr_motor_torque |-> Word(6)]

Layout204 ==
  [fl_wheel_speed |-> At(0, 0, 8) \cup From(1, 0, 8, 8) \cup From(2, 0, 16, 1),
   fr_wheel_speed |-> At(2, 1, 7) \cup From(3, 0, 7, 8) \cup From(4, 0, 15, 2),
   ml_wheel_speed |-> At(4, 2, 6) \cup From(5, 0, 6, 8) \cup From(6, 0, 14, 3)]

Layout260 ==
  [fault |-> Byte(0), vcu_sts |-> Word(1), car_start_state |-> At(3, 0, 2),
   vcu_service_voltage |-> Word(6)]

Layout261 ==
  [lv_main |-> Byte(0), lv_sun |-> Byte(1), lv_z_code |-> Byte(2),
   time |-> At(3, 0, 8) \cup From(4, 0, 8, 8) \cup From(5, 0, 16, 8) \cup From(6, 0, 24, 8)]

Layout203 ==
  [brake_pressure1 |-> Word(0), brake_pressure2 |-> Word(2),
   curve_yk_max_speed |-> Byte(4), soc |-> Byte(6), car_sts1 |-> At(7, 0, 2),
   car_sts2 |-> At(7, 2, 2)]

Layout202 ==
  [fault1 |-> Byte(0), fault2 |-> Byte(1), fault3 |-> Byte(2), fault4 |-> Byte(3),
   mileage |-> At(4, 0, 8) \cup From(5, 0, 8, 8) \cup From(6, 0, 16, 8) \cup From(7, 0, 24, 8)]

Layout201 ==
  [drive_mode |-> At(0, 0, 2), gear |-> At(0, 2, 2), epo_sts |-> At(0, 4, 2),
   yk_h |-> At(0, 6, 1), yk_f |-> At(0, 7, 1), angle |-> Word(1),
   flmcu_fatus |-> At(3, 0, 1), frmcu_fault |-> At(3, 1, 1), mlmcu_fault |-> At(3, 2, 1),
   mrmcu_fault |-> At(3, 3, 1), rlmcu_fault |-> At(3, 4, 1), rrmcu_fault |-> At(3, 5, 1),
   ebs1_fault |-> At(3, 6, 1), ebs2_fault |-> At(3, 7, 1), car_speed |-> Word(4),
   epb_lfr_sts |-> At(6, 0, 4), epb_rfr_sts |-> At(6, 4, 4), epb_ml_sts |-> At(7, 0, 4),
   epb_mr_sts |-> At(7, 4, 4)]

Layout210 ==
  [domain_ctrl_epo |-> At(0, 3, 1), steering_mode |-> At(0, 4, 1),
   ipc_en |-> At(0, 5, 1), target_gear |-> At(0, 6, 2), target_speed |-> Word(1),
   target_angle |-> Word(4), brake_en |-> At(6, 0, 1), target_pressure |-> At(6, 1, 7),
   dipped_lamp |-> At(7, 0, 1), turn_lamp |-> At(7, 1, 2), far_lamp |-> At(7, 3, 1),
   horn |-> At(7, 4, 1), car_off |-> At(7, 5, 1), alarm_lamp |-> At(7, 6, 1),
   out_line_lamp |-> At(7, 7, 1)]

-----------------------------------------------------------------------------
(* The greatest value of each signal, from the message structs.            *)

Range207 ==
  [epb1_fault |-> Bits(255), epb2_fault |-> Bits(255), epb_fkd_sts |-> Bits(1),
   rl_wheel_speed |-> Bits(131071), rr_wheel_speed |-> Bits(131071)]

Range206 ==
  [ml_motor_torque |-> Bits(65535), mr_motor_torque |-> Bits(65535),
   rl_motor_torque |-> Bits(65535), rr_motor_torque |-> Bits(65535)]

Range205 ==
  [mr_wheel_speed |-> Bits(131071), fl_motor_torque |-> Bits(65535),
   fr_motor_torque |-> Bits(65535)]

Range204 ==
  [fl_wheel_speed |-> Bits(131071), fr_wheel_speed |-> Bits(131071),
   ml_wheel_speed |-> Bits(131071)]

Range260 ==
  [fault |-> Bits(255), vcu_sts |-> Bits(65535), car_start_state |-> Bits(3),
   vcu_service_voltage |-> Bits(65535)]

Range261 ==
  [lv_main |-> Bits(255), lv_sun |-> Bits(255), lv_z_code |-> Bits(255), time |-> 0..31]

Range203 ==
  [brake_pressure1 |-> Bits(200), brake_pressure2 |-> Bits(200),
   curve_yk_max_speed |-> Bits(255), soc |-> Bits(255), car_sts1 |-> Bits(3),
   car_sts2 |-> Bits(3)]

Range202 ==
  [fault1 |-> Bits(255), fault2 |-> Bits(255), fault3 |-> Bits(255),
   fault4 |-> Bits(255), mileage |-> Bits(9999999)]

Range201 ==
  [drive_mode |-> Bits(3), gear |-> Bits(3), epo_sts |-> Bits(3), yk_h |-> Bits(1),
   yk_f |-> Bits(1), angle |-> Bits(65535), flmcu_fatus |-> Bits(1),
   frmcu_fault |-> Bits(1), mlmcu_fault |-> Bits(1), mrmcu_fault |-> Bits(1),
   rlmcu_fault |-> Bits(1), rrmcu_fault |-> Bits(1), ebs1_fault |-> Bits(1),
   ebs2_fault |-> Bits(1), car_speed |-> Bits(65535), epb_lfr_sts |-> Bits(15),
   epb_rfr_sts |-> Bits(15), epb_ml_sts |-> Bits(15), epb_mr_sts |-> Bits(15)]

Range210 ==
  [domain_ctrl_epo |-> Bits(1), steering_mode |-> Bits(1), ipc_en |-> Bits(1),
   target_gear |-> Bits(3), target_speed |-> Bits(65535), target_angle |-> Bits(65535),
   brake_en |-> Bits(1), target_pressure |-> Bits(60), dipped_lamp |-> Bits(1),
   turn_lamp |-> Bits(3), far_lamp |-> Bits(1), horn |-> Bits(1), car_off |-> Bits(1),
   alarm_lamp |-> Bits(1), out_line_lamp |-> Bits(1)]

-----------------------------------------------------------------------------

Layouts ==
  [m201 |-> Layout201, m202 |-> Layout202, m203 |-> Layout203, m204 |-> Layout204,
   m205 |-> Layout205, m206 |-> Layout206, m207 |-> Layout207, m210 |-> Layout210,
   m260 |-> Layout260, m261 |-> Layout261]

Ranges ==
  [m201 |-> Range201, m202 |-> Range202, m203 |-> Range203, m204 |-> Range204,
   m205 |-> Range205, m206 |-> Range206, m207 |-> Range207, m210 |-> Range210,
   m260 |-> Range260, m261 |-> Range261]

\* A bit of the frame and a bit of a value serve one another only, and the values only
\* have bits that are wired: what a round trip rests on.
Apart(layout) ==
  \A f, g \in DOMAIN layout : \A v \in layout[f], w \in layout[g] :
    v[1] = w[1] <=> f = g /\ v[2] = w[2]

Wired(wires) == {w[2] : w \in wires}

Carries(layout, msg) ==
  /\ msg \in [DOMAIN layout -> SUBSET (0 .. 31)]
  /\ \A f \in DOMAIN layout : msg[f] \subseteq Wired(layout[f])
=============================================================================
