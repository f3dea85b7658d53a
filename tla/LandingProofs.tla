--------------------------- MODULE LandingProofs ---------------------------
(***************************************************************************)
(* Landing and what it relies on: the pose at the moment of an image, the  *)
(* way to a position, and the blind drop, for all heights, speeds, limits  *)
(* and thresholds.                                                         *)
(***************************************************************************)
EXTENDS Pland, PoseHistory, PosControl, SequenceTheorems, WellFoundedInduction, TLAPS

-----------------------------------------------------------------------------
(* Numbers.                                                                *)

\* A set of natural numbers has a least element.
LEMMA LeastNat ==
  ASSUME NEW S \in SUBSET Nat, S # {}
  PROVE  \E x \in S : \A y \in S : x <= y
<1>1. PICK x \in S : \A y \in S : <<y, x>> \notin OpToRel(<, Nat)
  BY NatLessThanWellFounded, WFMin, Zenon
<1>2. \A y \in S : <<y, x>> \in Nat \X Nat
  OBVIOUS
<1>3. \A y \in S : ~(y < x)
  BY <1>1, <1>2 DEF OpToRel
<1>4. \A y \in S : x <= y
  BY <1>3
<1> QED BY <1>4

\* What Min and Max choose.
LEMMA MinNat ==
  ASSUME NEW S \in SUBSET Nat, S # {}
  PROVE  Min(S) \in S /\ \A y \in S : Min(S) <= y
  BY LeastNat DEF Min

\* See MinNat.
LEMMA MaxNat ==
  ASSUME NEW S \in SUBSET Nat, S # {}, NEW n \in Nat, \A y \in S : y <= n
  PROVE  Max(S) \in S /\ \A y \in S : y <= Max(S)
<1> DEFINE T == {m \in Nat : \E y \in S : m + y = n}
<1>1. T # {}
  <2>1. PICK y \in S : TRUE
    OBVIOUS
  <2>2. n - y \in T
    BY <2>1
  <2> QED BY <2>2
<1>2. PICK t \in T : \A u \in T : t <= u
  BY <1>1, LeastNat
<1>3. PICK x \in S : t + x = n
  BY <1>2
<1>4. ASSUME NEW y \in S PROVE y <= x
  <2>1. n - y \in T
    OBVIOUS
  <2>2. t <= n - y
    BY <1>2, <2>1
  <2> QED BY <1>3, <2>2
<1>5. \E top \in S : \A y \in S : top >= y
  BY <1>4
<1> QED BY <1>5 DEF Max

\* Products and squares grow with their factors.
LEMMA ProductMono ==
  \A a, b \in Int, c \in Nat : a <= b => a * c <= b * c
  BY SMT

\* See ProductMono.
LEMMA SquareMono ==
  \A a, b \in Int : -b <= a /\ a <= b => a * a <= b * b
<1> SUFFICES ASSUME NEW a \in Int, NEW b \in Int, -b <= a, a <= b PROVE a * a <= b * b
  OBVIOUS
<1>1. (b - a) * (b + a) = b * b - a * a
  BY SMT
<1>2. b - a \in Nat /\ b + a \in Nat
  OBVIOUS
<1>3. \A m, n \in Nat : m * n >= 0
  BY SMT
<1>4. (b - a) * (b + a) >= 0
  BY <1>2, <1>3
<1>5. a * a \in Int /\ b * b \in Int
  OBVIOUS
<1> QED BY <1>1, <1>4, <1>5

-----------------------------------------------------------------------------
(* The pose of an image.                                                   *)

\* Of two errors p and q at distances x and y that grow by at most s in a unit, the mean
\* weighted with the other distance is bounded.
LEMMA InterpolationNear ==
  ASSUME NEW s \in Nat, NEW x \in Nat, NEW y \in Nat, NEW p \in Int, NEW q \in Int,
         p <= s * x, -p <= s * x, q <= s * y, -q <= s * y
  PROVE  /\ p * y + q * x <= 2 * ((s * x) * y)
         /\ -(p * y + q * x) <= 2 * ((s * x) * y)
<1>0. s * x \in Nat /\ s * y \in Nat
  BY SMT
<1>1. p * y <= (s * x) * y /\ (-p) * y <= (s * x) * y
  BY <1>0, ProductMono
<1>2. q * x <= (s * y) * x /\ (-q) * x <= (s * y) * x
  BY <1>0, ProductMono
<1>3. (s * y) * x = (s * x) * y
  BY SMT
<1>4. (-p) * y = -(p * y) /\ (-q) * x = -(q * x)
  BY SMT
<1>5. p * y \in Int /\ q * x \in Int /\ (s * x) * y \in Int
  BY SMT
<1> DEFINE P == p * y  Q == q * x  M == (s * x) * y
<1> HIDE DEF P, Q, M
<1>6. /\ P \in Int /\ Q \in Int /\ M \in Int
      /\ P <= M /\ -P <= M /\ Q <= M /\ -Q <= M
  BY <1>1, <1>2, <1>3, <1>4, <1>5 DEF P, Q, M
<1>7. P + Q <= 2 * M /\ -(P + Q) <= 2 * M
  BY <1>6
<1> QED BY <1>7 DEF P, Q, M

\* So far a coordinate changed by at most Speed in a unit of time.
Bounded(f) ==
  \A t, u \in 0 .. clock :
    /\ path[t][f] \in Int
    /\ t <= u => /\ path[u][f] - path[t][f] <= Speed * (u - t)
                 /\ path[t][f] - path[u][f] <= Speed * (u - t)

\* A record of a buffer.
Stamped == [stamp : Nat, val : Int]

\* A buffer holds the coordinate at its stamps, which increase.
Recorded(b, f) ==
  /\ b \in Seq(Stamped)
  /\ \A i \in 1 .. Len(b) : b[i].stamp \in 0 .. clock /\ b[i].val = path[b[i].stamp][f]
  /\ \A i, j \in 1 .. Len(b) : i < j => b[i].stamp < b[j].stamp

\* Pushing keeps it so, whether the value is ignored or old records go.
LEMMA PushRecords ==
  ASSUME NEW b, NEW f, clock \in Nat, Recorded(b, f), path[clock][f] \in Int
  PROVE  Recorded(Push(b, path[clock][f]), f)
<1> DEFINE rec == [stamp |-> clock, val |-> path[clock][f]]
           longer == Append(b, rec)
           n == Len(longer)
           kept == {i \in 1 .. n : i >= n - 1 \/ clock - longer[i].stamp <= History}
           m == Min(kept)
           r == SubSeq(longer, m, n)
<1>1. CASE b # <<>> /\ clock <= b[Len(b)].stamp
  BY <1>1 DEF Push
<1>2. CASE ~(b # <<>> /\ clock <= b[Len(b)].stamp)
  <2>0. b \in Seq(Stamped) /\ rec \in Stamped
    BY DEF Recorded, Stamped
  <2>1. /\ longer \in Seq(Stamped) /\ n = Len(b) + 1 /\ n \in Nat
        /\ longer[n] = rec /\ \A i \in 1 .. Len(b) : longer[i] = b[i]
    BY <2>0
  <2>2. \A i \in 1 .. Len(b) : b[i].stamp < clock
    BY <1>2, <2>0 DEF Recorded
  <2> HIDE DEF longer, rec
  <2> HIDE DEF n
  <2>a. rec.stamp = clock /\ rec.val = path[clock][f]
    BY DEF rec
  <2>b. /\ Len(b) \in Nat
        /\ \A i \in 1 .. Len(b) : b[i].stamp \in 0 .. clock /\ b[i].val = path[b[i].stamp][f]
        /\ \A i, j \in 1 .. Len(b) : i < j => b[i].stamp < b[j].stamp
    BY <2>0 DEF Recorded
  <2>c. \A i \in 1 .. n : i = n \/ i \in 1 .. Len(b)
    BY <2>1, <2>b
  <2>3. ASSUME NEW i \in 1 .. n, NEW j \in 1 .. n, i < j
        PROVE  longer[i].stamp < longer[j].stamp
    <3>1. i \in 1 .. Len(b)
      BY <2>1, <2>3, <2>b
    <3>2. CASE j = n
      BY <2>1, <2>2, <2>a, <3>1, <3>2
    <3>3. CASE j \in 1 .. Len(b)
      BY <2>1, <2>3, <2>b, <3>1, <3>3
    <3> QED BY <2>c, <3>2, <3>3
  <2>4. ASSUME NEW i \in 1 .. n
        PROVE  longer[i].stamp \in 0 .. clock /\ longer[i].val = path[longer[i].stamp][f]
    <3>1. CASE i = n
      BY <2>1, <2>a, <3>1
    <3>2. CASE i \in 1 .. Len(b)
      BY <2>1, <2>b, <3>2
    <3> QED BY <2>c, <3>1, <3>2
  <2>5. kept \in SUBSET Nat /\ n \in kept
    BY <2>1
  <2>6. m \in 1 .. n
    BY <2>5, MinNat
  <2> HIDE DEF m
  <2>7. /\ r \in Seq(Stamped) /\ Len(r) = n - m + 1
        /\ \A i \in 1 .. Len(r) : r[i] = longer[i + m - 1]
    <3>1. n = Len(longer)
      BY DEF n
    <3>2. m \in Int /\ n \in Int /\ 1 <= m /\ m <= n
      BY <2>1, <2>6
    <3>3. \A i \in m .. n : longer[i] \in Stamped
      BY <2>1, <3>1, <3>2
    <3>4. /\ r \in Seq(Stamped) /\ Len(r) = n - m + 1
          /\ \A i \in 1 .. n - m + 1 : r[i] = longer[m + i - 1]
      BY <3>2, <3>3, SubSeqProperties
    <3>5. \A i \in Int : m + i - 1 = i + m - 1
      BY <3>2
    <3> HIDE DEF r
    <3> QED BY <3>2, <3>4, <3>5
  <2>8. Push(b, path[clock][f]) = r
    BY <1>2 DEF Push, longer, rec, m, n
  <2> HIDE DEF r
  <2>9. \A i \in 1 .. Len(r) : i + m - 1 \in 1 .. n
    BY <2>1, <2>6, <2>7
  <2>10. Recorded(r, f)
    <3>1. ASSUME NEW i \in 1 .. Len(r), NEW j \in 1 .. Len(r), i < j
          PROVE  r[i].stamp < r[j].stamp
      <4>1. i + m - 1 \in 1 .. n /\ j + m - 1 \in 1 .. n /\ i + m - 1 < j + m - 1
        BY <2>6, <2>7, <2>9, <3>1
      <4>2. longer[i + m - 1].stamp < longer[j + m - 1].stamp
        BY <2>3, <4>1
      <4> QED BY <2>7, <4>2
    <3>2. \A i \in 1 .. Len(r) : r[i].stamp \in 0 .. clock /\ r[i].val = path[r[i].stamp][f]
      BY <2>4, <2>7, <2>9
    <3> QED BY <2>7, <3>1, <3>2 DEF Recorded
  <2> QED
    BY <2>8, <2>10
<1> QED
  BY <1>1, <1>2

\* What is looked up for a timely image is near the coordinate then: by interpolation
\* between two records, and at the ends by the tolerance.
LEMMA ReadNear ==
  ASSUME NEW b, NEW f, clock \in Nat, Bounded(f), Recorded(b, f),
         NEW t \in 0 .. clock, clock - t <= Tolerance, Lookup(b, t).ok
  PROVE  LET r == Lookup(b, t)
         IN  /\ r.diff \in 0 .. Tolerance /\ r.den \in Nat /\ r.num \in Int
             /\ Off(r, path[t][f]) <= 2 * Speed * r.diff * r.den
<1> USE HistoryAssumption
<1> DEFINE r == Lookup(b, t)
           first == b[1]
           final == b[Len(b)]
           v == path[t][f]
<1>0. Len(b) \in Nat /\ \A i \in 1 .. Len(b) : b[i].stamp \in Nat /\ b[i].val \in Int
  <2>1. b \in Seq(Stamped)
    BY DEF Recorded
  <2>2. Len(b) \in Nat /\ \A i \in 1 .. Len(b) : b[i] \in Stamped
    BY <2>1
  <2> QED BY <2>2 DEF Stamped
<1>1. b # <<>> /\ 1 \in 1 .. Len(b) /\ Len(b) \in 1 .. Len(b)
  <2>1. b # <<>>
    BY DEF Lookup, Fails
  <2> QED BY <2>1, <1>0 DEF Recorded
<1>2. v \in Int
  BY DEF Bounded
<1>3. ASSUME NEW x \in {first, final}, NEW d \in 0 .. Tolerance, r = Exactly(x, d),
             d = x.stamp - t \/ d = t - x.stamp
      PROVE  /\ r.diff \in 0 .. Tolerance /\ r.den \in Nat /\ r.num \in Int
             /\ Off(r, v) <= 2 * Speed * r.diff * r.den
  <2>1. r.diff = d /\ r.den = 1 /\ r.num = x.val
    BY <1>3 DEF Exactly
  <2>2. x.stamp \in 0 .. clock /\ x.val = path[x.stamp][f]
    BY <1>1, <1>3 DEF Recorded
  <2>3. x.val \in Int /\ x.val - v <= Speed * d /\ v - x.val <= Speed * d
    <3>0. \A u \in 0 .. clock :
            /\ path[u][f] \in Int
            /\ u <= t => v - path[u][f] <= Speed * (t - u) /\ path[u][f] - v <= Speed * (t - u)
            /\ t <= u => v - path[u][f] <= Speed * (u - t) /\ path[u][f] - v <= Speed * (u - t)
      BY DEF Bounded
    <3> DEFINE u == x.stamp
    <3>1. u \in 0 .. clock /\ x.val = path[u][f]
      BY <2>2
    <3> HIDE DEF u, v
    <3>2. (u <= t /\ d = t - u) \/ (t <= u /\ d = u - t)
      BY <1>3, <3>1 DEF u
    <3> QED BY <3>0, <3>1, <3>2
  <2>4. Speed * d \in Nat /\ 2 * Speed * d * 1 = 2 * (Speed * d)
    BY SMT
  <2>5. Off(r, v) <= 2 * (Speed * d)
    BY <1>2, <2>1, <2>3, <2>4 DEF Off
  <2> QED
    BY <2>1, <2>3, <2>4, <2>5
<1>4. CASE t <= first.stamp
  <2>1. r = Exactly(first, first.stamp - t) /\ first.stamp - t <= Tolerance
    <3>1. r = IF first.stamp - t > Tolerance THEN Fails ELSE Exactly(first, first.stamp - t)
      BY <1>1, <1>4 DEF Lookup
    <3>2. ~Fails.ok
      BY DEF Fails
    <3>3. ~(first.stamp - t > Tolerance)
      BY <3>1, <3>2
    <3> QED BY <1>0, <1>1, <3>1, <3>3
  <2>2. first.stamp - t \in 0 .. Tolerance
    BY <1>0, <1>1, <1>4, <2>1
  <2> QED
    BY <1>3, <2>1, <2>2
<1>5. CASE t > first.stamp /\ t >= final.stamp
  <2>1. r = Exactly(final, t - final.stamp) /\ t - final.stamp <= Tolerance
    BY <1>0, <1>1, <1>5 DEF Lookup, Fails
  <2>2. t - final.stamp \in 0 .. Tolerance
    BY <1>0, <1>1, <1>5, <2>1
  <2> QED
    BY <1>3, <2>1, <2>2
<1>6. CASE t > first.stamp /\ t < final.stamp
  <2> DEFINE late == {i \in 1 .. Len(b) : b[i].stamp >= t}
             j == Min(late)
             after == b[j]
             before == b[j - 1]
             x == t - before.stamp
             y == after.stamp - t
             dt == after.stamp - before.stamp
  <2>1. r = Between(b, t)
    BY <1>0, <1>1, <1>6 DEF Lookup
  <2>2. late \in SUBSET Nat /\ Len(b) \in late
    BY <1>0, <1>1, <1>6
  <2>3. j \in late /\ \A i \in late : j <= i
    BY <2>2, MinNat
  <2>4. r = [ok |-> TRUE, num |-> before.val * dt + x * (after.val - before.val),
             den |-> dt, diff |-> Min({y, x})]
    BY <2>1 DEF Between
  <2> HIDE DEF j
  <2>5. j \in 2 .. Len(b) /\ j - 1 \in 1 .. Len(b) /\ b[j].stamp >= t
    BY <1>0, <1>1, <1>6, <2>3
  <2>6. before.stamp < t
    BY <1>0, <2>3, <2>5
  <2>7. /\ before.stamp \in 0 .. clock /\ before.val = path[before.stamp][f]
        /\ after.stamp \in 0 .. clock /\ after.val = path[after.stamp][f]
    BY <2>5 DEF Recorded
  <2>d. after.stamp >= t
    BY <2>5
  <2> HIDE DEF after, before
  <2>8. x \in Nat \ {0} /\ y \in 0 .. Tolerance /\ dt = x + y /\ dt \in Nat
    BY <2>6, <2>7, <2>d
  <2> DEFINE p == before.val - v
             q == after.val - v
  <2>9. /\ before.val \in Int /\ after.val \in Int /\ p \in Int /\ q \in Int
        /\ p <= Speed * x /\ -p <= Speed * x /\ q <= Speed * y /\ -q <= Speed * y
    BY <1>2, <2>6, <2>7, <2>8 DEF Bounded
  <2>10. (before.val * dt + x * (after.val - before.val)) - v * dt = p * y + q * x
    <3>1. \A a, c, w, k, l \in Int :
            (a * (k + l) + k * (c - a)) - w * (k + l) = (a - w) * l + (c - w) * k
      BY SMT
    <3> QED BY <1>2, <2>8, <2>9, <3>1
  <2>11. Off(r, v) <= 2 * ((Speed * x) * y)
    <3>1. Off(r, v) = IF p * y + q * x < 0 THEN -(p * y + q * x) ELSE p * y + q * x
      BY <2>4, <2>10 DEF Off
    <3> QED BY <2>8, <2>9, <3>1, InterpolationNear
  <2>12. Min({y, x}) \in {x, y} /\ Min({y, x}) <= y /\ Min({y, x}) <= x
    <3>1. {y, x} \in SUBSET Nat /\ {y, x} # {}
      BY <2>8
    <3> HIDE DEF x, y
    <3> QED BY <3>1, MinNat
  <2>13. (Speed * x) * y <= Speed * Min({y, x}) * dt
    <3>1. \A k, l, m, s \in Nat : (m = k \/ m = l) /\ m <= k /\ m <= l
                               => (s * k) * l <= s * m * (k + l)
      <4> SUFFICES ASSUME NEW k \in Nat, NEW l \in Nat, NEW s \in Nat
                   PROVE  (s * k) * l <= s * k * (k + l) /\ (s * k) * l <= s * l * (k + l)
        OBVIOUS
      <4>1. s * k * (k + l) = (s * k) * l + (s * k) * k
        BY SMT
      <4>2. s * l * (k + l) = (s * k) * l + (s * l) * l
        BY SMT
      <4>3. (s * k) * k \in Nat /\ (s * l) * l \in Nat /\ (s * k) * l \in Nat
        BY SMT
      <4> QED BY <4>1, <4>2, <4>3
    <3> QED BY <2>8, <2>12, <3>1
  <2>14. 2 * Speed * Min({y, x}) * dt = 2 * (Speed * Min({y, x}) * dt)
    <3>1. \A s, m, d \in Nat : 2 * s * m * d = 2 * (s * m * d)
      BY SMT
    <3> QED BY <2>8, <2>12, <3>1
  <2>15. /\ r.diff = Min({y, x}) /\ r.den = dt
         /\ r.num = before.val * dt + x * (after.val - before.val)
    BY <2>4
  <2>16. r.num \in Int
    BY <2>8, <2>9, <2>15
  <2>17. r.diff \in 0 .. Tolerance /\ r.den \in Nat
    BY <2>8, <2>12, <2>15
  <2>18. Off(r, v) <= 2 * Speed * r.diff * r.den
    <3> DEFINE A == (Speed * x) * y  B == Speed * Min({y, x}) * dt
    <3>1. A \in Int /\ B \in Int /\ Off(r, v) \in Int
      BY <1>2, <2>8, <2>12, <2>16, <2>17 DEF Off
    <3>2. Off(r, v) <= 2 * A /\ A <= B /\ 2 * Speed * Min({y, x}) * dt = 2 * B
      BY <2>11, <2>13, <2>14
    <3>3. Off(r, v) <= 2 * Speed * Min({y, x}) * dt
      <4> HIDE DEF A, B
      <4> QED BY <3>1, <3>2
    <3> QED BY <2>15, <3>3
  <2> QED
    BY <2>16, <2>17, <2>18
<1> QED
  BY <1>0, <1>1, <1>4, <1>5, <1>6

\* The inductive invariant: the records are true, and the past was no faster than Speed.
HistoryInv ==
  /\ clock \in Nat
  /\ Bounded("pos") /\ Bounded("quat")
  /\ Recorded(posBuffer, "pos") /\ Recorded(quatBuffer, "quat")

\* A unit of time moves neither coordinate by more than Speed and no record of the past.
LEMMA TimePassesKeeps ==
  ASSUME HistoryInv, TimePasses
  PROVE  HistoryInv'
<1> USE HistoryAssumption
<1>0. clock \in Nat /\ clock' = clock + 1 /\ UNCHANGED <<posBuffer, quatBuffer>>
  BY DEF HistoryInv, TimePasses
<1>1. PICK p \in {-Speed, Speed} :
        path' = [t \in 0 .. clock + 1 |->
                   IF t <= clock THEN path[t]
                   ELSE [pos |-> path[clock].pos + p, quat |-> path[clock].quat - p]]
  BY DEF TimePasses
<1>2. \A t \in 0 .. clock : path'[t] = path[t]
  BY <1>0, <1>1
<1>3. /\ path'[clock + 1].pos = path[clock].pos + p
      /\ path'[clock + 1].quat = path[clock].quat - p
  BY <1>0, <1>1
<1>4. ASSUME NEW f, Bounded(f), NEW d \in {-Speed, Speed},
             path'[clock + 1][f] = path[clock][f] + d
      PROVE  Bounded(f)'
  <2>1. ASSUME NEW t \in 0 .. clock
        PROVE  /\ path'[clock + 1][f] \in Int /\ path'[t][f] \in Int
               /\ path'[clock + 1][f] - path'[t][f] <= Speed * (clock + 1 - t)
               /\ path'[t][f] - path'[clock + 1][f] <= Speed * (clock + 1 - t)
    <3>1. /\ path[t][f] \in Int /\ path[clock][f] \in Int
          /\ path[clock][f] - path[t][f] <= Speed * (clock - t)
          /\ path[t][f] - path[clock][f] <= Speed * (clock - t)
      BY <1>0, <1>4 DEF Bounded
    <3>2. Speed * (clock + 1 - t) = Speed * (clock - t) + Speed
      BY <1>0
    <3>3. d \in Int /\ d <= Speed /\ -d <= Speed /\ Speed * (clock - t) \in Int
      BY <1>0
    <3> QED BY <1>2, <1>4, <3>1, <3>2, <3>3
  <2>2. \A t \in 0 .. clock + 1 : t \in 0 .. clock \/ t = clock + 1
    BY <1>0
  <2>3. Speed * 0 = 0
    OBVIOUS
  <2>4. ASSUME NEW t \in 0 .. clock + 1, NEW u \in 0 .. clock + 1, t <= u
        PROVE  /\ path'[u][f] - path'[t][f] <= Speed * (u - t)
               /\ path'[t][f] - path'[u][f] <= Speed * (u - t)
    <3>1. CASE u \in 0 .. clock
      <4>1. t \in 0 .. clock
        BY <1>0, <2>4, <3>1
      <4>2. path'[t] = path[t] /\ path'[u] = path[u]
        BY <1>2, <3>1, <4>1
      <4>3. /\ path[u][f] - path[t][f] <= Speed * (u - t)
            /\ path[t][f] - path[u][f] <= Speed * (u - t)
        BY <1>4, <2>4, <3>1, <4>1 DEF Bounded
      <4> QED BY <4>2, <4>3
    <3>2. CASE u = clock + 1 /\ t \in 0 .. clock
      <4>1. /\ path'[clock + 1][f] - path'[t][f] <= Speed * (clock + 1 - t)
            /\ path'[t][f] - path'[clock + 1][f] <= Speed * (clock + 1 - t)
        BY <2>1, <3>2
      <4> QED BY <1>0, <3>2, <4>1
    <3>3. CASE u = clock + 1 /\ t = clock + 1
      <4>1. u - t = 0
        BY <1>0, <3>3
      <4>2. path'[u][f] \in Int /\ path'[u][f] - path'[t][f] = 0
        BY <1>0, <2>1, <3>3
      <4> QED BY <2>3, <3>3, <4>1, <4>2
    <3> QED BY <2>2, <3>1, <3>2, <3>3
  <2>5. \A t \in 0 .. clock + 1 : path'[t][f] \in Int
    BY <1>0, <2>1, <2>2
  <2> QED BY <1>0, <2>4, <2>5 DEF Bounded
<1>5. Bounded("pos")'
  BY <1>3, <1>4 DEF HistoryInv
<1>6. Bounded("quat")'
  <2>1. -p \in {-Speed, Speed} /\ path'[clock + 1].quat = path[clock].quat + -p
    BY <1>0, <1>3 DEF HistoryInv, Bounded
  <2> QED BY <1>4, <2>1 DEF HistoryInv
<1>7. ASSUME NEW b, NEW f, Recorded(b, f)
      PROVE  /\ b \in Seq(Stamped)
             /\ \A i \in 1 .. Len(b) : b[i].stamp \in 0 .. clock + 1
                                     /\ b[i].val = path'[b[i].stamp][f]
             /\ \A i, j \in 1 .. Len(b) : i < j => b[i].stamp < b[j].stamp
  <2>1. /\ b \in Seq(Stamped)
        /\ \A i, j \in 1 .. Len(b) : i < j => b[i].stamp < b[j].stamp
    BY <1>7 DEF Recorded
  <2>2. ASSUME NEW i \in 1 .. Len(b)
        PROVE  b[i].stamp \in 0 .. clock + 1 /\ b[i].val = path'[b[i].stamp][f]
    <3>1. b[i].stamp \in 0 .. clock /\ b[i].val = path[b[i].stamp][f]
      BY <1>7 DEF Recorded
    <3> QED BY <1>0, <1>2, <3>1
  <2> QED BY <2>1, <2>2
<1>8. Recorded(posBuffer, "pos")'
  <2>1. /\ posBuffer \in Seq(Stamped)
        /\ \A i \in 1 .. Len(posBuffer) : posBuffer[i].stamp \in 0 .. clock + 1
                                     /\ posBuffer[i].val = path'[posBuffer[i].stamp]["pos"]
        /\ \A i, j \in 1 .. Len(posBuffer) : i < j => posBuffer[i].stamp < posBuffer[j].stamp
    BY <1>7 DEF HistoryInv
  <2>2. posBuffer' = posBuffer /\ clock' = clock + 1
    BY <1>0
  <2> QED BY <2>1, <2>2 DEF Recorded
<1>9. Recorded(quatBuffer, "quat")'
  <2>1. /\ quatBuffer \in Seq(Stamped)
        /\ \A i \in 1 .. Len(quatBuffer) : quatBuffer[i].stamp \in 0 .. clock + 1
                                     /\ quatBuffer[i].val = path'[quatBuffer[i].stamp]["quat"]
        /\ \A i, j \in 1 .. Len(quatBuffer) : i < j => quatBuffer[i].stamp < quatBuffer[j].stamp
    BY <1>7 DEF HistoryInv
  <2>2. quatBuffer' = quatBuffer /\ clock' = clock + 1
    BY <1>0
  <2> QED BY <2>1, <2>2 DEF Recorded
<1> QED
  BY <1>0, <1>5, <1>6, <1>8, <1>9 DEF HistoryInv

\* What is read of the two buffers is near the pose, and so is what is handed out.
LEMMA PosesNear == HistoryInv => ImagePoseNear
<1> SUFFICES ASSUME HistoryInv, NEW t \in Timely, PoseAt(t).ok
             PROVE  LET pose == PoseAt(t)
                    IN  /\ pose.diff <= Tolerance
                        /\ Off(pose.pos, path[t].pos) <= 2 * Speed * pose.diff * pose.pos.den
                        /\ Off(pose.quat, path[t].quat) <= 2 * Speed * pose.diff * pose.quat.den
  BY DEF ImagePoseNear
<1> USE HistoryAssumption
<1> DEFINE p == Lookup(posBuffer, t)
           q == Lookup(quatBuffer, t)
           d == IF p.diff > q.diff THEN p.diff ELSE q.diff
<1>1. /\ PoseAt(t).pos = p /\ PoseAt(t).quat = q /\ PoseAt(t).diff = d
      /\ p.ok /\ q.ok
  BY DEF PoseAt
<1>2. clock \in Nat /\ t \in 0 .. clock /\ clock - t <= Tolerance
  BY DEF Timely, HistoryInv
<1>3. /\ p.diff \in 0 .. Tolerance /\ p.den \in Nat /\ p.num \in Int
      /\ Off(p, path[t].pos) <= 2 * Speed * p.diff * p.den
  BY <1>1, <1>2, ReadNear DEF HistoryInv
<1>4. /\ q.diff \in 0 .. Tolerance /\ q.den \in Nat /\ q.num \in Int
      /\ Off(q, path[t].quat) <= 2 * Speed * q.diff * q.den
  BY <1>1, <1>2, ReadNear DEF HistoryInv
<1>5. path[t].pos \in Int /\ path[t].quat \in Int
  BY <1>2 DEF HistoryInv, Bounded
<1>6. ASSUME NEW r, NEW v \in Int, r.diff \in 0 .. Tolerance, r.den \in Nat, r.num \in Int,
             Off(r, v) <= 2 * Speed * r.diff * r.den, NEW e \in 0 .. Tolerance, r.diff <= e
      PROVE  Off(r, v) <= 2 * Speed * e * r.den
  <2>1. 2 * Speed * r.diff <= 2 * Speed * e
    <3>1. \A s, a, b \in Nat : a <= b => s * a <= s * b
      BY SMT
    <3>2. 2 * Speed \in Nat
      OBVIOUS
    <3> QED BY <1>6, <3>1, <3>2
  <2>2. 2 * Speed * r.diff \in Int /\ 2 * Speed * e \in Int
    BY <1>6
  <2>3. 2 * Speed * r.diff * r.den <= 2 * Speed * e * r.den
    BY <1>6, <2>1, <2>2, ProductMono
  <2>4. /\ Off(r, v) \in Int /\ 2 * Speed * r.diff * r.den \in Int
        /\ 2 * Speed * e * r.den \in Int
    <3>1. v * r.den \in Int
      BY <1>6
    <3>2. Off(r, v) \in Int
      BY <1>6, <3>1 DEF Off
    <3> QED BY <1>6, <2>2, <3>2
  <2> DEFINE A == 2 * Speed * r.diff * r.den  B == 2 * Speed * e * r.den
  <2> HIDE DEF A, B
  <2>5. A \in Int /\ B \in Int /\ A <= B /\ Off(r, v) <= A
    BY <1>6, <2>3, <2>4 DEF A, B
  <2>6. Off(r, v) <= B
    BY <2>4, <2>5
  <2> QED BY <2>6 DEF B
<1>7. d \in 0 .. Tolerance /\ p.diff <= d /\ q.diff <= d
  BY <1>3, <1>4
<1> HIDE DEF d, p, q
<1> QED
  BY <1>1, <1>3, <1>4, <1>5, <1>6, <1>7

\* The pose given for a timely image is near the pose in that moment, for all speeds, ages
\* and tolerances and whatever gaps the telemetry has.
THEOREM PosesStayNear == HistorySpec => []ImagePoseNear
<1> USE HistoryAssumption
<1>1. HistoryInit => HistoryInv
  <2> SUFFICES ASSUME HistoryInit PROVE HistoryInv
    OBVIOUS
  <2>1. \A t \in 0 .. 0 : t = 0 /\ path[t].pos = 0 /\ path[t].quat = 0
    BY DEF HistoryInit
  <2>2. Bounded("pos") /\ Bounded("quat")
    BY <2>1 DEF HistoryInit, Bounded
  <2>3. Recorded(posBuffer, "pos") /\ Recorded(quatBuffer, "quat")
    BY DEF HistoryInit, Recorded
  <2> QED BY <2>2, <2>3 DEF HistoryInit, HistoryInv
<1>2. HistoryInv /\ [HistoryNext]_historyVars => HistoryInv'
  <2> SUFFICES ASSUME HistoryInv, [HistoryNext]_historyVars PROVE HistoryInv'
    OBVIOUS
  <2>1. path[clock].pos \in Int /\ path[clock].quat \in Int
    BY DEF HistoryInv, Bounded
  <2>2. CASE PushPos
    <3>1. Recorded(posBuffer', "pos")
      BY <2>1, <2>2, PushRecords DEF PushPos, HistoryInv
    <3> QED BY <2>2, <3>1 DEF PushPos, HistoryInv, Bounded, Recorded
  <2>3. CASE PushQuat
    <3>1. Recorded(quatBuffer', "quat")
      BY <2>1, <2>3, PushRecords DEF PushQuat, HistoryInv
    <3> QED BY <2>3, <3>1 DEF PushQuat, HistoryInv, Bounded, Recorded
  <2>4. CASE UNCHANGED historyVars
    BY <2>4 DEF historyVars, HistoryInv, Bounded, Recorded
  <2> QED BY <2>2, <2>3, <2>4, TimePassesKeeps DEF HistoryNext
<1> QED
  BY <1>1, <1>2, PosesNear, PTL DEF HistorySpec

-----------------------------------------------------------------------------
(* The way to a position.                                                  *)

\* From the braking speed the vehicle stops within the distance.
LEMMA BrakingStops ==
  ASSUME NEW distance \in Nat
  PROVE  /\ Braking(distance) \in 0 .. SpeedFb
         /\ Braking(distance) * Braking(distance) <= 2 * Decel * distance
<1> USE ControlAssumption
<1> DEFINE S == {s \in 0 .. SpeedFb : s * s <= 2 * Decel * distance}
<1>1. S \in SUBSET Nat /\ \A y \in S : y <= SpeedFb
  OBVIOUS
<1>2. 2 * Decel * distance \in Nat /\ 0 * 0 = 0
  OBVIOUS
<1>3. 0 \in S
  BY <1>2
<1>4. Max(S) \in S
  BY <1>1, <1>3, MaxNat
<1> QED BY <1>4 DEF Braking

\* So it does from the speed that the controller wants, in either direction.
LEMMA WantedBounds ==
  ASSUME NEW error \in Int, prevError \in Int
  PROVE  LET w == Clamp(Wanted(error), SpeedMax)
         IN  /\ w \in -SpeedFb .. SpeedFb
             /\ w * w <= 2 * Decel * Magnitude(error)
<1> USE ControlAssumption
<1> DEFINE w == Clamp(Wanted(error), SpeedMax)
           b == Braking(Magnitude(error))
           fb == Feedback(error)
<1>1. Magnitude(error) \in Nat
  BY DEF Magnitude
<1>2. b \in 0 .. SpeedFb /\ b * b <= 2 * Decel * Magnitude(error)
  BY <1>1, BrakingStops
<1>3. fb \in Int
  BY DEF Feedback, Part
<1> HIDE DEF b, fb
<1>4. \A n \in Int, m \in Nat : Clamp(n, m) \in Int /\ -m <= Clamp(n, m) /\ Clamp(n, m) <= m
  BY DEF Clamp
<1>5. Wanted(error) \in -b .. b
  <2>1. Wanted(error) = Clamp(Clamp(fb, SpeedFb), b)
    BY DEF Wanted, b, fb
  <2> QED BY <1>2, <1>3, <1>4, <2>1
<1>6. w \in -b .. b
  BY <1>2, <1>5 DEF Clamp
<1>7. w * w <= b * b
  BY <1>2, <1>6, SquareMono
<1>8. w * w \in Int /\ b * b \in Int /\ 2 * Decel * Magnitude(error) \in Int
  BY <1>1, <1>2, <1>6
<1> QED BY <1>2, <1>6, <1>7, <1>8

\* The speed s fits the distance e >= 0 that is left.  A vehicle on its way there may be
\* faster than the braking curve by what a step with the distance of one step allows.
Stops(e, s) ==
  /\ s <= 0 => s * s <= 2 * Decel * e
  /\ s >= 0 => s * s <= 2 * Decel * e + Decel * s + Decel * SpeedFb

\* Farther away than the tolerance, a step of a speed that fits does not reach the goal: were
\* it longer than the distance, it would exceed the room that LimitsFit leaves.
LEMMA NoPassing ==
  ASSUME LimitsFit, NEW e \in Nat, NEW s \in -SpeedFb .. SpeedFb, e > Tol,
         s * s <= 2 * Decel * e + Decel * s + Decel * SpeedFb
  PROVE  s < e
<1> USE ControlAssumption
<1> SUFFICES ASSUME s >= e PROVE FALSE
  OBVIOUS
<1> DEFINE m == Room
<1>1. m \in Nat /\ m = 2 * Tol - SpeedFb /\ Decel <= m /\ Decel \in Nat \ {0}
  BY DEF LimitsFit, Room
<1>2. m < Tol /\ s \in Nat /\ s > Tol /\ SpeedFb > Tol
  BY <1>1
<1>3. Decel * (2 * Tol + SpeedFb) <= m * (m - Decel)
  BY DEF LimitsFit
<1> HIDE DEF m
<1>4. m * (m - Decel) <= Tol * (m - Decel)
  BY <1>1, <1>2, ProductMono
<1>5. Decel * e <= Decel * s
  BY <1>1, <1>2, ProductMono
<1>6. s * (s - 3 * Decel) <= Decel * SpeedFb
  <2>1. s * (s - 3 * Decel) = s * s - 3 * (Decel * s)
    BY <1>1, <1>2
  <2>2. 2 * Decel * e = 2 * (Decel * e)
    BY <1>1
  <2> DEFINE ss == s * s  ds == Decel * s  de == Decel * e  df == Decel * SpeedFb
  <2>3. ss \in Int /\ ds \in Int /\ de \in Int /\ df \in Int /\ de <= ds
        /\ ss <= 2 * de + ds + df
    BY <1>1, <1>2, <1>5, <2>2
  <2> HIDE DEF ss, ds, de, df
  <2>4. ss - 3 * ds <= df
    BY <2>3
  <2> QED BY <2>1, <2>4 DEF ss, ds, df
<1>7. Tol * (s - 3 * Decel) <= Decel * SpeedFb
  <2>1. CASE s - 3 * Decel < 0
    <3>1. Tol * (s - 3 * Decel) <= Tol * 0
      BY <1>1, <1>2, <2>1, ProductMono
    <3>2. Tol * 0 = 0 /\ Decel * SpeedFb \in Nat
      BY <1>1
    <3>3. Tol * (s - 3 * Decel) \in Int
      BY <1>1, <1>2
    <3> QED BY <3>1, <3>2, <3>3
  <2>2. CASE s - 3 * Decel >= 0
    <3>1. Tol * (s - 3 * Decel) <= s * (s - 3 * Decel)
      BY <1>1, <1>2, <2>2, ProductMono
    <3>2. Tol * (s - 3 * Decel) \in Int /\ s * (s - 3 * Decel) \in Int /\ Decel * SpeedFb \in Int
      BY <1>1, <1>2
    <3> QED BY <1>6, <3>1, <3>2
  <2> QED BY <1>1, <1>2, <2>1, <2>2
<1>8. Tol * (m + 1) <= Tol * s
  BY <1>1, <1>2, ProductMono
<1> DEFINE ts == Tol * s  td == Tol * Decel  tm == Tol * m  df == Decel * SpeedFb
           mm == m * (m - Decel)
<1>9. /\ ts \in Int /\ td \in Int /\ tm \in Int /\ df \in Int /\ mm \in Int
      /\ ts - 3 * td <= df /\ tm + Tol <= ts
      /\ 2 * td + df <= mm /\ mm <= tm - td
  <2>1. Tol * (s - 3 * Decel) = ts - 3 * td /\ Tol * (m + 1) = tm + Tol
        /\ Decel * (2 * Tol + SpeedFb) = 2 * td + df /\ Tol * (m - Decel) = tm - td
    BY <1>1, <1>2
  <2> QED BY <1>1, <1>2, <1>3, <1>4, <1>7, <1>8, <2>1
<1>10. Tol > 0
  BY <1>1, <1>2
<1> HIDE DEF ts, td, tm, df, mm
<1> QED BY <1>9, <1>10

\* One step towards the wanted speed keeps it so, unless it is already arrived: either the
\* speed reached is below the wanted one, or the vehicle brakes with all it has.
LEMMA StepStops ==
  ASSUME NEW e \in Nat, NEW s \in -SpeedFb .. SpeedFb, NEW w \in -SpeedFb .. SpeedFb,
         NEW r \in Int, LimitsFit, e > Tol,
         w * w <= 2 * Decel * e, Stops(e, s),
         \/ r = w
         \/ s < r /\ r < w /\ (s < -1 => r = s + Decel)
         \/ w < r /\ r < s /\ (s > 1 => r = s - Decel)
  PROVE  r \in -SpeedFb .. SpeedFb /\ e - r \in Nat \ {0} /\ Stops(e - r, r)
<1> USE ControlAssumption
<1>a. s < e
  <2>1. CASE s >= 0
    BY <2>1, NoPassing DEF Stops
  <2> QED BY <2>1
<1>b. w < e
  <2>1. CASE w >= 0
    <3>1. Decel * w \in Nat /\ Decel * SpeedFb \in Nat /\ w * w \in Int /\ 2 * Decel * e \in Int
      BY <2>1
    <3>2. w * w <= 2 * Decel * e + Decel * w + Decel * SpeedFb
      BY <3>1
    <3> QED BY <3>2, NoPassing
  <2> QED BY <2>1
<1>1. r \in -SpeedFb .. SpeedFb /\ e - r \in Nat /\ e - r > 0
  BY <1>a, <1>b
<1> DEFINE De == 2 * Decel * e  Dr == Decel * r  Ds == Decel * s  DF == Decel * SpeedFb
<1>2. De \in Nat /\ Dr \in Int /\ Ds \in Int /\ DF \in Nat /\ r * r \in Int /\ s * s \in Int
      /\ w * w \in Int
  BY <1>1
<1>3. 2 * Decel * (e - r) = De - 2 * Dr
  BY <1>1
<1>4. Dr <= DF /\ (r <= 0 => Dr <= 0) /\ (r >= 0 => Dr >= 0)
  BY <1>1, ProductMono
<1>5. ASSUME r * r <= De PROVE Stops(e - r, r)
  <2> HIDE DEF De, Dr, DF
  <2>1. r <= 0 => r * r <= De - 2 * Dr
    BY <1>1, <1>2, <1>4, <1>5
  <2>2. r * r <= (De - 2 * Dr) + Dr + DF
    BY <1>2, <1>4, <1>5
  <2> QED BY <1>3, <2>1, <2>2 DEF Stops, Dr, DF
<1>6. ASSUME (-w <= r /\ r <= w) \/ (w <= r /\ r <= -w) PROVE Stops(e - r, r)
  <2>1. r * r <= w * w
    <3>1. CASE -w <= r /\ r <= w
      BY <3>1, SquareMono
    <3>2. CASE w <= r /\ r <= -w
      <4>1. r * r <= (-w) * (-w)
        BY <3>2, SquareMono
      <4> QED BY <4>1
    <3> QED BY <1>6, <3>1, <3>2
  <2> QED BY <1>2, <1>5, <2>1
<1>7. CASE s < r /\ r < 0
  <2>1. r * r <= s * s
    <3>1. (-r) * (-r) <= (-s) * (-s)
      BY <1>7, SquareMono
    <3> QED BY <3>1
  <2>2. s * s <= De
    BY <1>7 DEF Stops
  <2> QED BY <1>1, <1>2, <1>5, <2>1, <2>2
<1>8. CASE 0 < r /\ r < s /\ r = s - Decel
  <2>1. r * r = s * s - 2 * Ds + Decel * Decel
    BY <1>8
  <2>2. Ds = Dr + Decel * Decel /\ Decel * Decel \in Nat
    BY <1>8
  <2>3. s * s <= De + Ds + DF
    BY <1>8 DEF Stops
  <2> DEFINE D2 == Decel * Decel  r2 == r * r  s2 == s * s
  <2> HIDE DEF De, Dr, Ds, DF, D2, r2, s2
  <2>4. r2 = s2 - 2 * Ds + D2 /\ Ds = Dr + D2 /\ s2 <= De + Ds + DF
        /\ D2 \in Nat /\ r2 \in Int /\ s2 \in Int
    BY <1>2, <2>1, <2>2, <2>3 DEF D2, r2, s2
  <2>5. r2 <= (De - 2 * Dr) + Dr + DF
    BY <1>2, <2>4
  <2> QED BY <1>1, <1>3, <1>8, <2>5 DEF Stops, Dr, DF, r2
<1>9. \/ (-w <= r /\ r <= w) \/ (w <= r /\ r <= -w)
      \/ s < r /\ r < 0
      \/ 0 < r /\ r < s /\ r = s - Decel
  OBVIOUS
<1> QED BY <1>1, <1>6, <1>7, <1>8, <1>9

\* The greatest acceleration.
Most == IF Acc > Decel THEN Acc ELSE Decel

\* The limited step ends at the wanted speed or between the present one and it.
LEMMA LimitedStep ==
  ASSUME LimitsFit, speed \in Int, accel \in -Most .. Most, NEW want \in Int,
         NEW w \in Int, w = Clamp(want, SpeedMax)
  PROVE  LET r == speed + Limited(want)
         IN  /\ Limited(want) \in -Most .. Most
             /\ \/ r = w
                \/ speed < r /\ r < w /\ (speed < -1 => r = speed + Decel)
                \/ w < r /\ r < speed /\ (speed > 1 => r = speed - Decel)
<1> USE ControlAssumption
<1> DEFINE a == w - speed
           limit == IF Magnitude(speed) > 1 /\ speed * a < 0 THEN Decel ELSE Acc
           b == Clamp(a, limit)
<1>1. Limited(want) = accel + Clamp(b - accel, Jerk)
  BY DEF Limited
<1>2. /\ limit \in {Acc, Decel}
      /\ Magnitude(speed) > 1 /\ speed * a < 0 => limit = Decel
  OBVIOUS
<1>3. speed > 1 /\ a < 0 => limit = Decel
  <2>1. \A m \in Nat, n \in Int : m > 0 /\ n < 0 => m * n < 0
    BY SMT
  <2>2. speed > 1 /\ a < 0 => speed * a < 0
    BY <2>1
  <2> QED BY <1>2, <2>2 DEF Magnitude
<1>4. speed < -1 /\ a > 0 => limit = Decel
  <2>1. \A m, n \in Int : m < 0 /\ n > 0 => m * n < 0
    BY SMT
  <2>2. speed < -1 /\ a > 0 => speed * a < 0
    BY <2>1
  <2> QED BY <1>2, <2>2 DEF Magnitude
<1> HIDE DEF limit
<1>5. b \in Int /\ b \in -Most .. Most
  BY <1>2 DEF Clamp, Most
<1>6. /\ a >= 0 => b = a \/ (b = limit /\ limit < a)
      /\ a < 0 => b = a \/ (b = -limit /\ a < -limit)
  BY <1>2 DEF Clamp, LimitsFit
<1> HIDE DEF b
<1>7. b - accel <= Jerk /\ -Jerk <= b - accel /\ accel \in Int
  BY <1>5 DEF LimitsFit, Most
<1>8. Clamp(b - accel, Jerk) = b - accel
  BY <1>5, <1>7 DEF Clamp
<1>9. Limited(want) = b
  BY <1>1, <1>5, <1>7, <1>8
<1>10. \/ speed + b = w
       \/ speed < speed + b /\ speed + b < w /\ (speed < -1 => speed + b = speed + Decel)
       \/ w < speed + b /\ speed + b < speed /\ (speed > 1 => speed + b = speed - Decel)
  BY <1>2, <1>3, <1>4, <1>5, <1>6 DEF LimitsFit
<1> QED BY <1>5, <1>9, <1>10

\* The same for either side of the goal.
Fitting(e, s) == (e >= 0 => Stops(e, s)) /\ (e <= 0 => Stops(-e, -s))

\* The inductive invariant: a move that began at rest and kept its goal can stop.
ControlInv ==
  /\ goal \in Int /\ place_x \in Int /\ prevError \in Int
  /\ speed \in -SpeedFb .. SpeedFb
  /\ accel \in -Most .. Most
  /\ rested => Fitting(goal - place_x, speed)

\* A vehicle at rest fits every distance.
LEMMA RestFits ==
  ASSUME NEW e \in Int
  PROVE  Fitting(e, 0)
<1> USE ControlAssumption
<1>1. \A d \in Nat : 2 * Decel * d \in Nat
  OBVIOUS
<1>2. \A nil \in Int : nil <= 0 /\ nil >= 0 => nil * nil = 0 /\ Decel * nil = 0
  OBVIOUS
<1>3. ASSUME NEW d \in Nat, NEW nil \in Int, nil <= 0, nil >= 0 PROVE Stops(d, nil)
  <2>1. 2 * Decel * d \in Nat /\ nil * nil = 0 /\ Decel * nil = 0 /\ Decel * SpeedFb \in Nat
    BY <1>1, <1>2, <1>3
  <2> QED BY <2>1 DEF Stops
<1>4. \A nil \in Int : nil <= 0 /\ nil >= 0 => -nil \in Int /\ -nil <= 0 /\ -nil >= 0
  OBVIOUS
<1>5. ASSUME NEW nil \in Int, nil <= 0, nil >= 0 PROVE Fitting(e, nil)
  BY <1>3, <1>4, <1>5 DEF Fitting
<1> QED BY <1>5

\* StepStops for either side.
LEMMA StepFits ==
  ASSUME NEW e \in Int, NEW s \in -SpeedFb .. SpeedFb, NEW w \in -SpeedFb .. SpeedFb,
         NEW r \in Int, LimitsFit, e > Tol \/ e < -Tol,
         w * w <= 2 * Decel * Magnitude(e), Fitting(e, s),
         \/ r = w
         \/ s < r /\ r < w /\ (s < -1 => r = s + Decel)
         \/ w < r /\ r < s /\ (s > 1 => r = s - Decel)
  PROVE  Fitting(e - r, r)
<1> USE ControlAssumption
<1>1. CASE e > Tol
  <2>1. e \in Nat /\ Magnitude(e) = e
    BY <1>1 DEF Magnitude
  <2>2. Stops(e, s)
    BY <2>1 DEF Fitting
  <2>3. r \in -SpeedFb .. SpeedFb /\ e - r \in Nat \ {0} /\ Stops(e - r, r)
    BY <1>1, <2>1, <2>2, StepStops
  <2>4. e - r > 0
    BY <1>1, <2>1, <2>3
  <2> QED BY <2>3, <2>4 DEF Fitting
<1>2. CASE e < -Tol
  <2> DEFINE f == -e  t == -s  v == -w  q == -r
  <2>1. f \in Nat /\ f > Tol /\ Magnitude(e) = f /\ e <= 0
    BY <1>2 DEF Magnitude
  <2>2. Stops(f, t)
    BY <2>1 DEF Fitting
  <2>3. t \in -SpeedFb .. SpeedFb /\ v \in -SpeedFb .. SpeedFb /\ q \in Int /\ v * v = w * w
    OBVIOUS
  <2>4. \/ q = v
        \/ t < q /\ q < v /\ (t < -1 => q = t + Decel)
        \/ v < q /\ q < t /\ (t > 1 => q = t - Decel)
    OBVIOUS
  <2> HIDE DEF f, t, v, q
  <2>5. v * v <= 2 * Decel * f
    BY <2>1, <2>3
  <2>6. q \in -SpeedFb .. SpeedFb /\ f - q \in Nat \ {0} /\ Stops(f - q, q)
    BY <2>1, <2>2, <2>3, <2>4, <2>5, StepStops
  <2>7. f - q > 0
    BY <2>1, <2>3, <2>6
  <2>8. e - r < 0 /\ f - q = -(e - r)
    BY <2>7 DEF f, q
  <2> QED BY <2>6, <2>8 DEF Fitting, q
<1> QED BY <1>1, <1>2

\* A step of the controller keeps the invariant.
LEMMA MoveKeeps ==
  ASSUME LimitsFit, ControlInv, StepMove
  PROVE  ControlInv'
<1> USE ControlAssumption
<1> DEFINE error == goal - place_x
           w == Clamp(Wanted(error), SpeedMax)
           r == speed + Limited(Wanted(error))
<1>0. /\ Magnitude(error) > Tol
      /\ accel' = Limited(Wanted(error)) /\ speed' = speed + accel' /\ prevError' = error
      /\ place_x' = place_x + speed' /\ goal' = goal
  BY DEF StepMove
<1>a. rested' => rested
  BY Zenon DEF StepMove
<1>1. error \in Int /\ goal \in Int /\ place_x \in Int /\ speed \in -SpeedFb .. SpeedFb
  BY DEF ControlInv
<1>2. w \in -SpeedFb .. SpeedFb /\ w * w <= 2 * Decel * Magnitude(error)
  BY <1>1, WantedBounds DEF ControlInv
<1>3. Wanted(error) \in Int
  <2>1. Magnitude(error) \in Nat
    BY <1>1 DEF Magnitude
  <2>2. Braking(Magnitude(error)) \in Nat
    BY <2>1, BrakingStops
  <2>3. Feedback(error) \in Int
    BY <1>1 DEF Feedback, Part, ControlInv
  <2>4. \A n \in Int, m \in Nat : Clamp(n, m) \in Int
    BY DEF Clamp
  <2> QED BY <2>2, <2>3, <2>4 DEF Wanted
<1>4. /\ accel' \in -Most .. Most
      /\ \/ speed' = w
         \/ speed < speed' /\ speed' < w /\ (speed < -1 => speed' = speed + Decel)
         \/ w < speed' /\ speed' < speed /\ (speed > 1 => speed' = speed - Decel)
  BY <1>0, <1>1, <1>2, <1>3, LimitedStep DEF ControlInv
<1>5. accel' \in Int /\ speed' \in Int
  BY <1>0, <1>1, <1>4 DEF Most
<1>6. speed' \in -SpeedFb .. SpeedFb
  BY <1>1, <1>2, <1>4, <1>5
<1>7. goal' \in Int /\ place_x' \in Int /\ prevError' \in Int
  BY <1>0, <1>1, <1>5
<1>8. goal' - place_x' = error - speed'
  BY <1>0, <1>1, <1>5
<1> HIDE DEF error, w
<1>9. ASSUME Fitting(error, speed) PROVE Fitting(error - speed', speed')
  <2>1. error > Tol \/ error < -Tol
    BY <1>0, <1>1 DEF Magnitude
  <2> QED BY <1>1, <1>2, <1>4, <1>5, <1>9, <2>1, StepFits
<1>10. rested' => Fitting(goal - place_x, speed)'
  <2>1. rested' => Fitting(error, speed)
    BY <1>a, Zenon DEF ControlInv, error
  <2>2. rested' => Fitting(error - speed', speed')
    BY <1>9, <2>1, Zenon
  <2>3. Fitting(goal - place_x, speed)' <=> Fitting(error - speed', speed')
    BY <1>8 DEF Fitting, Stops
  <2> QED BY <2>2, <2>3, Zenon
<1>11. (goal \in Int /\ place_x \in Int /\ prevError \in Int)'
       /\ (speed \in -SpeedFb .. SpeedFb)' /\ (accel \in -Most .. Most)'
  BY <1>4, <1>6, <1>7 DEF Most
<1> QED BY <1>10, <1>11, Zenon DEF ControlInv

\* The speed left within the tolerance is no more than the room, and the bound follows.
LEMMA RoomSuffices ==
  ASSUME LimitsFit, NEW d \in Nat, d <= Tol, NEW s \in Nat,
         s * s <= 2 * Decel * d + Decel * s + Decel * SpeedFb
  PROVE  s * s <= 2 * Decel * (2 * Tol)
<1> USE ControlAssumption
<1> DEFINE m == Room
<1>1. m \in Nat /\ m = 2 * Tol - SpeedFb /\ Decel <= m /\ Decel \in Nat \ {0}
  BY DEF LimitsFit, Room
<1>2. Decel * (2 * Tol + SpeedFb) <= m * (m - Decel)
  BY DEF LimitsFit
<1> HIDE DEF m
<1>3. Decel * d <= Decel * Tol
  BY <1>1, ProductMono
<1> DEFINE ss == s * s  ds == Decel * s  dd == Decel * d  df == Decel * SpeedFb  dt == Decel * Tol
<1>4. /\ ss \in Int /\ ds \in Int /\ dd \in Int /\ df \in Int /\ dt \in Int
      /\ ss <= 2 * dd + ds + df /\ dd <= dt
  <2>1. 2 * Decel * d = 2 * (Decel * d)
    BY <1>1
  <2> QED BY <1>1, <1>3, <2>1
<1>5. ss - ds <= 2 * dt + df
  <2> HIDE DEF ss, ds, dd, df, dt
  <2> QED BY <1>4
<1>6. s <= m
  <2> SUFFICES ASSUME s > m PROVE FALSE
    BY <1>1
  <2>1. m * (m - Decel) <= s * (m - Decel)
    BY <1>1, ProductMono
  <2>2. s * (m + 1) <= s * s
    BY <1>1, ProductMono
  <2> DEFINE sm == s * m  mm == m * (m - Decel)
  <2>3. /\ sm \in Int /\ mm \in Int /\ s > 0
        /\ s * (m - Decel) = sm - ds /\ s * (m + 1) = sm + s
        /\ Decel * (2 * Tol + SpeedFb) = 2 * dt + df
    BY <1>1
  <2>4. mm <= sm - ds /\ sm + s <= ss /\ 2 * dt + df <= mm
    BY <1>2, <2>1, <2>2, <2>3
  <2> HIDE DEF ss, ds, dd, df, dt, sm, mm
  <2> QED BY <1>4, <1>5, <2>3, <2>4
<1>7. Decel * s <= Decel * m
  BY <1>1, <1>6, ProductMono
<1>8. Decel * m = 2 * dt - df /\ 2 * Decel * (2 * Tol) = 4 * dt
  BY <1>1
<1>9. ds <= 2 * dt - df
  BY <1>7, <1>8
<1>10. ss <= 4 * dt
  <2> HIDE DEF ss, ds, dd, df, dt
  <2> QED BY <1>4, <1>5, <1>9
<1> QED BY <1>8, <1>10

\* A move that began at rest and kept its goal arrives so slowly that the zero speed sent on
\* arrival asks for no more than braking within twice the tolerance: for all goals, speeds
\* and accelerations that fit.
THEOREM MovesArriveSlowly ==
  ASSUME LimitsFit
  PROVE  ControlSpec => ArrivesSlowly
<1> USE ControlAssumption
<1>1. ControlInit => ControlInv
  <2> SUFFICES ASSUME ControlInit PROVE ControlInv
    OBVIOUS
  <2>1. goal = 0 /\ place_x = 0 /\ speed = 0 /\ accel = 0 /\ prevError = 0
    BY DEF ControlInit
  <2>2. ~rested
    BY Zenon DEF ControlInit
  <2>3. goal \in Int /\ place_x \in Int /\ prevError \in Int
        /\ speed \in -SpeedFb .. SpeedFb /\ accel \in -Most .. Most
    BY <2>1 DEF Most
  <2> QED BY <2>2, <2>3, Zenon DEF ControlInv
<1>2. ControlInv /\ [ControlNext]_controlVars => ControlInv'
  <2> SUFFICES ASSUME ControlInv, [ControlNext]_controlVars PROVE ControlInv'
    OBVIOUS
  <2>1. CASE Arrive
    <3>1. ~rested'
      BY <2>1, Zenon DEF Arrive
    <3>2. (goal \in Int /\ place_x \in Int /\ prevError \in Int)'
          /\ (speed \in -SpeedFb .. SpeedFb)' /\ (accel \in -Most .. Most)'
      BY <2>1 DEF Arrive, ControlInv, Most
    <3> QED BY <3>1, <3>2, Zenon DEF ControlInv
  <2>2. ASSUME NEW x \in Goals, TakeGoal(x) PROVE ControlInv'
    <3>1. rested' => speed = 0
      BY <2>2, Zenon DEF TakeGoal
    <3>2. goal' = x /\ UNCHANGED <<place_x, speed, accel>> /\ prevError' \in {prevError, 0}
      BY <2>2 DEF TakeGoal
    <3>3. (goal \in Int /\ place_x \in Int /\ prevError \in Int)'
          /\ (speed \in -SpeedFb .. SpeedFb)' /\ (accel \in -Most .. Most)'
      BY <3>2 DEF ControlInv, Most
    <3>4. speed = 0 => Fitting(goal - place_x, speed)'
      BY <3>2, <3>3, RestFits
    <3> QED BY <3>1, <3>3, <3>4, Zenon DEF ControlInv
  <2>3. CASE UNCHANGED controlVars
    BY <2>3 DEF controlVars, ControlInv, Fitting, Stops, Most
  <2> QED BY <2>1, <2>2, <2>3, MoveKeeps DEF ControlNext
<1>3. ControlInv /\ rested /\ Arrive => speed * speed <= 2 * Decel * (2 * Tol)
  <2> SUFFICES ASSUME ControlInv, rested, Arrive
               PROVE  speed * speed <= 2 * Decel * (2 * Tol)
    OBVIOUS
  <2> DEFINE e == goal - place_x
  <2>1. Fitting(e, speed)
    BY Zenon DEF ControlInv
  <2>2. e \in Int /\ e <= Tol /\ -e <= Tol /\ speed \in -SpeedFb .. SpeedFb
    BY DEF Arrive, Magnitude, ControlInv
  <2> HIDE DEF e
  <2>3. ASSUME NEW d \in Nat, d <= Tol, NEW s \in -SpeedFb .. SpeedFb, Stops(d, s)
        PROVE  s * s <= 2 * Decel * (2 * Tol)
    <3>1. s * s <= 2 * Decel * d \/ (s >= 0 /\ s * s <= 2 * Decel * d + Decel * s + Decel * SpeedFb)
      BY <2>3 DEF Stops
    <3>2. d * Decel <= Tol * Decel
      BY <2>3, ProductMono
    <3>3. CASE s * s <= 2 * Decel * d
      <4>1. /\ 2 * Decel * d = 2 * (d * Decel) /\ 2 * Decel * (2 * Tol) = 4 * (Tol * Decel)
            /\ d * Decel \in Nat /\ Tol * Decel \in Nat /\ s * s \in Int
        BY <2>3
      <4> QED BY <3>2, <3>3, <4>1
    <3>4. CASE s >= 0 /\ s * s <= 2 * Decel * d + Decel * s + Decel * SpeedFb
      BY <2>3, <3>4, RoomSuffices
    <3> QED BY <3>1, <3>3, <3>4
  <2>4. CASE e >= 0
    BY <2>1, <2>2, <2>3, <2>4 DEF Fitting
  <2>5. CASE e <= 0
    <3>1. (-speed) * (-speed) <= 2 * Decel * (2 * Tol)
      BY <2>1, <2>2, <2>3, <2>5 DEF Fitting
    <3> QED BY <2>2, <3>1
  <2> QED BY <2>2, <2>4, <2>5
<1>4. ControlInv => [rested /\ Arrive => speed * speed <= 2 * Decel * (2 * Tol)]_controlVars
  BY <1>3
<1> QED
  BY <1>1, <1>2, <1>4, PTL DEF ControlSpec, ArrivesSlowly

-----------------------------------------------------------------------------
(* The blind drop.                                                         *)

HeightOK == z \in Nat

\* The vehicle is never below the platform.
THEOREM HeightInvariant == PlandSpec => []HeightOK
<1>1. PlandInit => HeightOK
  BY HeightsAssumption DEF PlandInit, HeightOK
<1>2. HeightOK /\ [PlandNext]_plandVars => HeightOK'
  <2> SUFFICES ASSUME HeightOK, [PlandNext]_plandVars
               PROVE  HeightOK'
    OBVIOUS
  <2>1. CASE Altitude
    <3>1. z' \in Down \/ z' \in Up
      BY <2>1, Zenon DEF Altitude
    <3> QED
      BY <3>1, HeightsAssumption DEF Down, Up, HeightOK
  <2>2. CASE Gust
    BY <2>2, HeightsAssumption DEF Gust, Up, HeightOK
  <2>3. CASE z' = z
    BY <2>3 DEF HeightOK
  <2>4. [PlandNext]_plandVars => Altitude \/ Gust \/ z' = z
    BY DEF PlandNext, PlandStart, PlandStop, Observe, SetPlandTarget, SetPureVision, Ages,
           Steadies, PlandStep, StepApproach, StepRead, StepLost, StepServo, plandVars
  <2> QED
    BY <2>1, <2>2, <2>3, <2>4
<1> QED
  BY <1>1, <1>2, PTL DEF PlandSpec

\* A blind drop that begins or goes on does so no higher than ResetAlt.
LEMMA DropIsLow ==
  ASSUME NEW where, z \in Nat, BlindDrop(where)
  PROVE  z <= ResetAlt
<1>1. CASE blind /\ z <= ResetAlt
  BY <1>1
<1>2. CASE z < BlindAlt
  BY <1>2, HeightsAssumption DEF ResetAlt
<1> QED
  BY <1>1, <1>2, Zenon DEF BlindDrop

\* A step that presses down has found a blind drop to begin or to go on.
LEMMA PressNeedsDrop ==
  ASSUME NEW f \in Found, StepServo(f), order' = "press"
  PROVE  BlindDrop(Sideways(f))
<1>1. order' \notin {"land", "disarm"}
  OBVIOUS
<1>2. blind' = BlindDrop(Sideways(f)) /\ order' = Descent(Sideways(f))
  BY <1>1, Zenon DEF StepServo
<1>3. blind'
  <2>1. CASE ~blind'
    <3>1. Descent(Sideways(f)) \in {"down", "hold"}
      BY <2>1, Zenon DEF Descent
    <3> QED
      BY <3>1, <1>2
  <2> QED
    BY <2>1
<1> QED
  BY <1>2, <1>3, Zenon

\* Blind drops happen near the ground only, whatever the thresholds are.
THEOREM BlindDropsAreLow == PlandSpec => PressOnlyLow
<1>1. HeightOK /\ [PlandNext]_plandVars
        => [\A f \in Found : StepServo(f) => (order' = "press" => z <= ResetAlt)]_plandVars
  <2> SUFFICES ASSUME HeightOK, NEW f \in Found, StepServo(f), order' = "press"
               PROVE  z <= ResetAlt
    BY Zenon
  <2> QED
    BY DropIsLow, PressNeedsDrop DEF HeightOK
<1> QED
  BY <1>1, HeightInvariant, PTL DEF PlandSpec, PressOnlyLow
=============================================================================
