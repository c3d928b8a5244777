-------------------------- MODULE DqsEnableProofs ---------------------------
(***************************************************************************)
(* The search for the gate of the read strobe, for every VFIFO, clock,     *)
(* phase, delay chain and window: the counters stay in their ranges, and   *)
(* every window that leaves two clocks free is found and the gate put in   *)
(* its middle.                                                             *)
(***************************************************************************)
EXTENDS DqsEnable, TLAPS

(* Division by a positive number is unique. *)
LEMMA ModIs ==
    ASSUME NEW b \in Nat, b > 0, NEW x \in Int,
           NEW q \in Int, NEW r \in 0 .. b - 1, x = b * q + r
    PROVE  x % b = r /\ x \div b = q
  OBVIOUS

LEMMA DivMod ==
    ASSUME NEW b \in Nat, b > 0, NEW x \in Int
    PROVE  /\ x \div b \in Int
           /\ x % b \in 0 .. b - 1
           /\ x = b * (x \div b) + (x % b)
  OBVIOUS

LEMMA ProductInt ==
    ASSUME NEW x \in Int, NEW y \in Int
    PROVE  x * y \in Int
  OBVIOUS

(* Numbers that differ by a multiple of b have the same remainder. *)
LEMMA SameMod ==
    ASSUME NEW b \in Nat, b > 0, NEW x \in Int, NEW y \in Int, NEW k \in Int,
           y = x + b * k
    PROVE  y % b = x % b
<1> DEFINE q == x \div b
           r == x % b
<1>1. q \in Int /\ r \in 0 .. b - 1 /\ x = b * q + r
  BY DivMod
<1> HIDE DEF q, r
<1>2. b * q + b * k = b * (q + k) /\ q + k \in Int
  BY <1>1
<1>3. y = b * (q + k) + r
  BY <1>1, <1>2, ProductInt
<1>4. y % b = r
  BY <1>1, <1>2, <1>3, ModIs
<1> QED
  BY <1>4 DEF r

(* Equal remainders: a multiple of b apart. *)
LEMMA ApartByMultiple ==
    ASSUME NEW b \in Nat, b > 0, NEW x \in Int, NEW y \in Int, x % b = y % b
    PROVE  \E k \in Int : y = x + b * k
<1>1. /\ x \div b \in Int /\ y \div b \in Int
      /\ x = b * (x \div b) + (x % b) /\ y = b * (y \div b) + (y % b)
      /\ x % b \in Int
  BY DivMod
<1> DEFINE q == x \div b
           s == y \div b
           r == x % b
<1>2. q \in Int /\ s \in Int /\ r \in Int /\ x = b * q + r /\ y = b * s + r
  BY <1>1
<1> HIDE DEF q, s, r
<1>3. b * (s - q) = b * s - b * q
  BY <1>2
<1>4. y = x + b * (s - q)
  BY <1>2, <1>3, ProductInt
<1>5. s - q \in Int
  BY <1>2
<1> QED
  BY <1>4, <1>5

(* A step inside a remainder. *)
LEMMA AddInsideMod ==
    ASSUME NEW b \in Nat, b > 0, NEW x \in Int, NEW t \in Int
    PROVE  ((x % b) + t) % b = (x + t) % b
<1> DEFINE q == x \div b
           r == x % b
<1>1. q \in Int /\ r \in Int /\ x = b * q + r
  BY DivMod
<1> HIDE DEF q, r
<1>2. x + t = (r + t) + b * q /\ r + t \in Int /\ x + t \in Int
  BY <1>1, ProductInt
<1>3. (x + t) % b = (r + t) % b
  BY <1>1, <1>2, SameMod
<1> QED
  BY <1>3 DEF r

(* A step of at most a turn wraps at most once. *)
LEMMA Around ==
    ASSUME NEW b \in Nat, b > 0, NEW x \in 0 .. b - 1, NEW t \in -b .. b
    PROVE  (x + t) % b = IF x + t >= b THEN x + t - b
                         ELSE IF x + t < 0 THEN x + t + b ELSE x + t
<1>1. CASE x + t >= b
  <2>1. x + t = b * 1 + (x + t - b) /\ x + t - b \in 0 .. b - 1
    BY <1>1
  <2> QED
    BY <1>1, <2>1, ModIs
<1>2. CASE x + t < 0
  <2>1. x + t = b * (-1) + (x + t + b) /\ x + t + b \in 0 .. b - 1
    BY <1>2
  <2>2. (x + t) % b = x + t + b
    BY <2>1, ModIs
  <2> QED
    BY <1>2, <2>2
<1>3. CASE x + t \in 0 .. b - 1
  <2>1. x + t = b * 0 + (x + t)
    OBVIOUS
  <2> QED
    BY <1>3, <2>1, ModIs
<1> QED
  BY <1>1, <1>2, <1>3

(* The remainder by a multiple of b determines the one by b. *)
LEMMA ModOfMod ==
    ASSUME NEW b \in Nat, b > 0, NEW n \in Nat, n > 0, NEW x \in Int
    PROVE  (x % (n * b)) % b = x % b
<1> DEFINE q == x \div (n * b)
           r == x % (n * b)
<1>1. n * b \in Nat /\ n * b > 0
  OBVIOUS
<1>2. q \in Int /\ r \in Int /\ x = (n * b) * q + r
  BY <1>1, DivMod
<1> HIDE DEF q, r
<1>3. (n * b) * q = b * (n * q) /\ n * q \in Int
  BY <1>2
<1>4. x = r + b * (n * q)
  BY <1>2, <1>3, <1>1, ProductInt
<1>5. x % b = r % b
  BY <1>2, <1>3, <1>4, SameMod
<1> QED
  BY <1>5 DEF r

-----------------------------------------------------------------------------
(* What the constants are: a clock is at least three phases, the ring at
   least a clock.                                                          *)
LEMMA Sizes ==
    /\ Ptap \in Nat /\ Ptap > 0 /\ Dtap \in Nat /\ Dtap > 0 /\ 2 * Dtap <= Ptap
    /\ IO_DQS_EN_PHASE_MAX \in Nat /\ IO_DQS_EN_PHASE_MAX >= 2
    /\ IO_DQS_EN_DELAY_MAX \in Nat
    /\ VFIFO_SIZE \in Nat /\ VFIFO_SIZE > 0
    /\ ClockTime \in Nat /\ ClockTime >= 3 * Ptap
    /\ Ring \in Nat /\ Ring >= ClockTime /\ Ring > 0 /\ ClockTime > 0
<1>1. /\ Ptap \in Nat /\ Ptap > 0 /\ Dtap \in Nat /\ Dtap > 0 /\ 2 * Dtap <= Ptap
      /\ IO_DQS_EN_PHASE_MAX \in Nat /\ IO_DQS_EN_PHASE_MAX >= 2
      /\ IO_DQS_EN_DELAY_MAX \in Nat
      /\ VFIFO_SIZE \in Nat /\ VFIFO_SIZE > 0
  BY EnableAssumption
<1>2. IO_DQS_EN_PHASE_MAX * Ptap \in Nat /\ IO_DQS_EN_PHASE_MAX * Ptap >= 2 * Ptap
  BY <1>1
<1>3. ClockTime = IO_DQS_EN_PHASE_MAX * Ptap + Ptap
  BY <1>1 DEF ClockTime
<1>4. ClockTime \in Nat /\ ClockTime >= 3 * Ptap
  BY <1>1, <1>2, <1>3
<1>5. VFIFO_SIZE * ClockTime \in Nat /\ VFIFO_SIZE * ClockTime >= ClockTime
  BY <1>1, <1>4
<1> QED
  BY <1>1, <1>4, <1>5 DEF Ring

LEMMA Products ==
    /\ IO_DQS_EN_DELAY_MAX * Dtap >= Ptap
    /\ ClockTime = IO_DQS_EN_PHASE_MAX * Ptap + Ptap
    /\ Ring = VFIFO_SIZE * ClockTime

<1>1. ClockTime = IO_DQS_EN_PHASE_MAX * Ptap + Ptap
  BY Sizes DEF ClockTime
<1> QED
  BY <1>1, EnableAssumption DEF Ring

Windows == [open : 0 .. Ring - 1, width : Widths]

LEMMA WindowIs ==
    ASSUME window \in Windows
    PROVE  window.open \in 0 .. Ring - 1 /\ window.open \in Int /\ window.width \in Nat
<1>1. window.open \in 0 .. Ring - 1 /\ window.width \in Widths
  BY DEF Windows
<1>2. Widths \subseteq Nat
  BY EnableAssumption
<1>3. Ring \in Int
  BY Sizes
<1>4. window.open \in 0 .. Ring - 1
  BY <1>1
<1>5. window.open \in Int
  BY <1>1, <1>3
<1>6. window.width \in Nat
  BY <1>1, <1>2, Zenon
<1> QED
  BY <1>4, <1>5, <1>6

(* The time of a gate since the window's open, around the ring. *)
GateAt(v, q, e) == ((v * ClockTime + q * Ptap + e * Dtap) - window.open) % Ring

LEMMA GateIs ==
    /\ FromOpen = GateAt(vf, p, d)
    /\ ReadPasses <=> FromOpen <= window.width
<1>1. FromOpen = GateAt(vf, p, d)
  BY DEF FromOpen, Position, GateAt
<1>2. ReadPasses <=> FromOpen <= window.width
  BY DEF FromOpen, ReadPasses
<1> QED
  BY <1>1, <1>2

(* The same after a step, which leaves the window alone. *)
LEMMA GateIsNext ==
    ASSUME window' = window
    PROVE  /\ FromOpen' = GateAt(vf', p', d')
           /\ ReadPasses' <=> FromOpen' <= window.width
<1>1. FromOpen' = GateAt(vf', p', d')
  BY DEF FromOpen, Position, GateAt
<1>2. ReadPasses' <=> FromOpen' <= window.width
  BY DEF FromOpen, ReadPasses
<1> QED
  BY <1>1, <1>2

LEMMA GateInRing ==
    ASSUME window \in Windows, NEW v \in Int, NEW q \in Int, NEW e \in Int
    PROVE  /\ GateAt(v, q, e) \in 0 .. Ring - 1
           /\ (v * ClockTime + q * Ptap + e * Dtap) - window.open \in Int
           /\ GateAt(v, q, e) % ClockTime
                = ((v * ClockTime + q * Ptap + e * Dtap) - window.open) % ClockTime
<1>1. v * ClockTime \in Int /\ q * Ptap \in Int /\ e * Dtap \in Int
  BY Sizes, ProductInt
<1>2. (v * ClockTime + q * Ptap + e * Dtap) - window.open \in Int
  BY <1>1, WindowIs
<1> DEFINE x == (v * ClockTime + q * Ptap + e * Dtap) - window.open
<1>3. x \in Int
  BY <1>2
<1> HIDE DEF x
<1>4. x % Ring \in 0 .. Ring - 1
  BY <1>3, Sizes
<1>5. (x % (VFIFO_SIZE * ClockTime)) % ClockTime = x % ClockTime
  BY <1>3, Sizes, ModOfMod
<1> QED
  BY <1>2, <1>4, <1>5, Products DEF GateAt, x

(* Clocks, phases and taps on. *)
LEMMA GateMoves ==
    ASSUME window \in Windows,
           NEW v \in Int, NEW q \in Int, NEW e \in Int,
           NEW w \in Int, NEW q2 \in Int, NEW e2 \in Int,
           NEW t \in Int, NEW k \in Int,
           w = v + k + VFIFO_SIZE * t
    PROVE  GateAt(w, q2, e2)
             = (GateAt(v, q, e) + (k * ClockTime + (q2 - q) * Ptap + (e2 - e) * Dtap)) % Ring
<1> DEFINE x == (v * ClockTime + q * Ptap + e * Dtap) - window.open
           y == (w * ClockTime + q2 * Ptap + e2 * Dtap) - window.open
           s == k * ClockTime + (q2 - q) * Ptap + (e2 - e) * Dtap
<1>1. x \in Int /\ y \in Int
  BY GateInRing
<1>2. s \in Int
  BY Sizes, ProductInt
<1>3. w * ClockTime = v * ClockTime + k * ClockTime + Ring * t
  BY Sizes, Products
<1>4. (q2 - q) * Ptap = q2 * Ptap - q * Ptap /\ (e2 - e) * Dtap = e2 * Dtap - e * Dtap
  BY Sizes
<1>5. y = (x + s) + Ring * t
  <2>1. v * ClockTime \in Int /\ w * ClockTime \in Int /\ k * ClockTime \in Int
        /\ q * Ptap \in Int /\ q2 * Ptap \in Int /\ e * Dtap \in Int /\ e2 * Dtap \in Int
        /\ Ring * t \in Int /\ window.open \in Int
    BY Sizes, ProductInt, WindowIs
  <2> QED
    BY <1>3, <1>4, <2>1
<1> HIDE DEF x, y, s
<1>6. y % Ring = (x + s) % Ring
  BY <1>1, <1>2, <1>5, SameMod, Sizes, x + s \in Int
<1>7. (x + s) % Ring = ((x % Ring) + s) % Ring
  BY <1>1, <1>2, AddInsideMod, Sizes, Zenon
<1> QED
  BY <1>6, <1>7 DEF GateAt, x, y, s

-----------------------------------------------------------------------------
(* The least number of steps of u that reach m. *)
LEMMA StepsReach ==
    ASSUME NEW u \in Nat, u > 0, NEW m \in Nat, NEW max \in Nat, m <= max * u
    PROVE  \E k \in 0 .. max : k * u >= m /\ (k = 0 \/ (k - 1) * u < m)
<1>1. CASE m = 0
  <2>1. 0 \in 0 .. max /\ 0 * u >= m
    BY <1>1
  <2> QED
    BY <2>1
<1>2. CASE m > 0
  <2> DEFINE q == (m - 1) \div u
             r == (m - 1) % u
  <2>1. q \in Int /\ r \in 0 .. u - 1 /\ m - 1 = u * q + r
    BY <1>2, DivMod
  <2> HIDE DEF q, r
  <2>2. (q + 1) * u = u * q + u /\ u * q \in Int
    BY <2>1, ProductInt
  <2>3. (q + 1) * u >= m /\ ((q + 1) - 1) * u < m
    BY <2>1, <2>2
  <2>4. q + 1 >= 0
    <3> SUFFICES ASSUME q + 1 <= -1 PROVE FALSE
      BY <2>1
    <3>1. (q + 1) * u <= (-1) * u
      BY <2>1
    <3> QED
      BY <2>1, <2>2, <2>3, <3>1, <1>2
  <2>5. q + 1 <= max
    <3> SUFFICES ASSUME max <= q PROVE FALSE
      BY <2>1
    <3>1. max * u <= q * u /\ q * u \in Int /\ max * u \in Int
      BY <2>1
    <3>2. q * u < m
      BY <2>3, <2>1
    <3> QED
      BY <3>1, <3>2
  <2>6. q + 1 \in 0 .. max
    BY <2>1, <2>4, <2>5
  <2> QED
    BY <2>3, <2>6
<1> QED
  BY <1>1, <1>2

(* The static estimate exists, and is less than the delay chain. *)
LEMMA StaticIsTap ==
    /\ StaticDtaps \in 0 .. IO_DQS_EN_DELAY_MAX
    /\ StaticDtaps * Dtap < Ptap
<1>1. PICK k \in 0 .. IO_DQS_EN_DELAY_MAX : k * Dtap >= Ptap /\ (k = 0 \/ (k - 1) * Dtap < Ptap)
  BY Sizes, Products, StepsReach
<1>2. k /= 0
  BY <1>1, Sizes
<1>3. (k - 1) * Dtap < Ptap /\ ((k - 1) + 1) * Dtap >= Ptap
  BY <1>1, <1>2, Sizes
<1>4. k - 1 <= (k - 1) * Dtap
  BY <1>2, Sizes
<1>5. k - 1 \in 0 .. Ptap
  BY <1>2, <1>3, <1>4, Sizes
<1>6. \E n \in 0 .. Ptap : n * Dtap < Ptap /\ (n + 1) * Dtap >= Ptap
  BY <1>3, <1>5
<1>7. StaticDtaps \in 0 .. Ptap /\ StaticDtaps * Dtap < Ptap
  BY <1>6 DEF StaticDtaps
<1>8. StaticDtaps <= IO_DQS_EN_DELAY_MAX
  <2> SUFFICES ASSUME StaticDtaps > IO_DQS_EN_DELAY_MAX PROVE FALSE
    BY <1>7, Sizes
  <2>1. StaticDtaps * Dtap >= IO_DQS_EN_DELAY_MAX * Dtap
    BY <1>7, Sizes
  <2> QED
    BY <1>7, <2>1, Products, Sizes
<1> QED
  BY <1>7, <1>8

(* A tap, a phase more. *)
LEMMA OneMore ==
    ASSUME NEW n \in Int
    PROVE  /\ n * Dtap \in Int /\ n * Ptap \in Int
           /\ (n + 1) * Dtap = n * Dtap + Dtap /\ (n - 1) * Dtap = n * Dtap - Dtap
           /\ (n + 1) * Ptap = n * Ptap + Ptap /\ (n - 1) * Ptap = n * Ptap - Ptap
           /\ n >= 0 => n * Dtap >= 0 /\ n * Ptap >= 0
  BY Sizes

(* The middle of the range, within a clock. *)
LEMMA MidInClock ==
    ASSUME work_bgn \in Nat, work_end \in Nat, work_bgn >= Ptap, work_bgn <= work_end
    PROVE  LET mid == (work_bgn + work_end) \div 2
           IN  /\ mid \in Nat /\ 2 * mid \in {work_bgn + work_end, work_bgn + work_end - 1}
               /\ work_mid \in 1 .. ClockTime
               /\ \E k \in Int : mid = work_mid + ClockTime * k
<1> DEFINE mid == (work_bgn + work_end) \div 2
<1>1. mid \in Nat /\ mid > 0 /\ 2 * mid \in {work_bgn + work_end, work_bgn + work_end - 1}
  BY Sizes
<1>2. work_mid = 1 + ((mid - 1) % ClockTime)
  BY <1>1 DEF work_mid
<1> HIDE DEF mid
<1>3. /\ (mid - 1) % ClockTime \in 0 .. ClockTime - 1
      /\ (mid - 1) \div ClockTime \in Int
      /\ mid - 1 = ClockTime * ((mid - 1) \div ClockTime) + ((mid - 1) % ClockTime)
  BY <1>1, Sizes, DivMod
<1>4. work_mid \in 1 .. ClockTime
  BY <1>2, <1>3, Sizes
<1>5. mid = work_mid + ClockTime * ((mid - 1) \div ClockTime)
  <2> DEFINE c == ClockTime * ((mid - 1) \div ClockTime)
  <2>1. c \in Int
    BY <1>3, Sizes, ProductInt
  <2>2. mid - 1 = c + ((mid - 1) % ClockTime)
    BY <1>3
  <2> HIDE DEF c
  <2>3. mid = work_mid + c
    BY <1>1, <1>2, <1>3, <2>1, <2>2
  <2> QED
    BY <2>3 DEF c
<1> QED
  BY <1>1, <1>3, <1>4, <1>5 DEF mid

(* The phases and taps reach the middle, by less than a tap too much; in
   phase 0, which phase 1 stands in for, by less than a phase.             *)
LEMMA CentreReaches ==
    ASSUME work_mid \in 1 .. ClockTime, Centre
    PROVE  /\ p' \in Phase /\ d' \in 0 .. IO_DQS_EN_DELAY_MAX
           /\ \/ work_mid <= Ptap /\ p' = 1 /\ d' = 0
              \/ /\ work_mid > Ptap
                 /\ (p' * Ptap + d' * Dtap) - work_mid \in 0 .. Dtap - 1
<1> DEFINE Reached(k) == k * Ptap >= work_mid /\ (k = 0 \/ (k - 1) * Ptap < work_mid)
           n == CHOOSE k \in 0 .. IO_DQS_EN_PHASE_MAX + 1 : Reached(k)
           rest == work_mid - (n - 1) * Ptap
           Filled(k) == k * Dtap >= rest /\ (k = 0 \/ (k - 1) * Dtap < rest)
           m == CHOOSE k \in 0 .. IO_DQS_EN_DELAY_MAX : Filled(k)
<1>1. IF n = 1 THEN p' = 1 /\ d' = 0 ELSE p' = n - 1 /\ d' = m
  BY DEF Centre
<1>2. \E k \in 0 .. IO_DQS_EN_PHASE_MAX + 1 : Reached(k)
  <2>1. work_mid <= (IO_DQS_EN_PHASE_MAX + 1) * Ptap
    BY Sizes, Products
  <2>2. IO_DQS_EN_PHASE_MAX + 1 \in Nat /\ work_mid \in Nat /\ Ptap \in Nat /\ Ptap > 0
    BY Sizes
  <2> QED
    BY <2>1, <2>2, StepsReach, Zenon
<1>3. n \in 0 .. IO_DQS_EN_PHASE_MAX + 1 /\ Reached(n)
  BY <1>2
<1> HIDE DEF n
<1>4. n >= 1
  BY <1>3, Sizes
<1>5. rest \in 1 .. Ptap
  <2>1. n * Ptap >= work_mid /\ (n - 1) * Ptap < work_mid
    BY <1>3, <1>4
  <2>2. (n - 1) * Ptap = n * Ptap - Ptap /\ n * Ptap \in Int
    BY <1>3, OneMore
  <2> QED
    BY <2>1, <2>2, Sizes
<1>6. \E k \in 0 .. IO_DQS_EN_DELAY_MAX : Filled(k)
  <2> HIDE DEF rest
  <2>1. rest \in Nat /\ rest <= IO_DQS_EN_DELAY_MAX * Dtap
    BY <1>5, Sizes, Products
  <2> QED
    BY <2>1, Sizes, StepsReach
<1>7. m \in 0 .. IO_DQS_EN_DELAY_MAX /\ Filled(m)
  BY <1>6
<1> HIDE DEF m
<1>8. CASE n = 1
  <2>1. work_mid <= Ptap
    BY <1>3, <1>8, Sizes
  <2>2. 1 \in Phase /\ 0 \in 0 .. IO_DQS_EN_DELAY_MAX
    BY Sizes DEF Phase
  <2> QED
    BY <1>1, <1>8, <2>1, <2>2
<1>9. CASE n > 1
  <2>1. p' = n - 1 /\ d' = m
    BY <1>1, <1>9, <1>3
  <2>2. p' \in Phase
    BY <2>1, <1>3, <1>9, Sizes DEF Phase
  <2>3. (n - 1) * Ptap >= Ptap /\ (n - 1) * Ptap < work_mid /\ (n - 1) * Ptap \in Int
    BY <1>3, <1>9, Sizes
  <2>4. m * Dtap - rest \in 0 .. Dtap - 1
    <3> HIDE DEF rest
    <3>1. m /= 0
      BY <1>5, <1>7, Sizes
    <3>2. (m - 1) * Dtap = m * Dtap - Dtap /\ m * Dtap \in Int
      BY <1>7, OneMore
    <3> QED
      BY <3>1, <3>2, <1>5, <1>7, Sizes
  <2>5. (p' * Ptap + d' * Dtap) - work_mid = m * Dtap - rest
    <3>1. m * Dtap \in Int
      BY <1>7, OneMore
    <3> QED
      BY <2>1, <2>3, <3>1, Sizes
  <2> QED
    BY <2>1, <2>2, <2>3, <2>4, <2>5, <1>7, Sizes
<1> QED
  BY <1>3, <1>4, <1>8, <1>9

-----------------------------------------------------------------------------
(* The counters at each stage of the search.  The times run along with the
   gate, so that what is taken off them was added before.                  *)
StageOK ==
    /\ pc = "push" => i < VFIFO_SIZE /\ vf = i /\ p = 1 /\ d = 0 /\ fail_cnt < 2
    /\ pc = "begin" =>
           /\ i < VFIFO_SIZE /\ d <= dtaps_per_ptap
           /\ work_bgn = i * ClockTime + p * Ptap + d * Dtap
    /\ pc = "begin2" =>
           /\ i < VFIFO_SIZE /\ p < IO_DQS_EN_PHASE_MAX
           /\ d <= IO_DQS_EN_DELAY_MAX /\ d * Dtap < Ptap
           /\ work_end >= 2 * Ptap /\ work_bgn = work_end
    /\ pc = "end" =>
           i <= VFIFO_SIZE /\ d = 0 /\ work_bgn >= Ptap /\ work_end >= 2 * Ptap
    /\ pc = "end2" =>
           /\ i <= VFIFO_SIZE /\ d <= IO_DQS_EN_DELAY_MAX
           /\ work_bgn >= Ptap /\ work_end >= d * Dtap
    /\ pc \in {"track", "track2"} => initial_failing_dtap <= d
    /\ pc \in {"track", "track2", "centre"} => work_bgn >= Ptap /\ work_bgn <= work_end
    /\ pc = "final" => i < VFIFO_SIZE
    /\ result = "none" <=> pc /= "done"

SearchInv == TypeOK /\ window \in Windows /\ StageOK

LEMMA SearchInit ==
    ASSUME EnableInit PROVE SearchInv
<1>1. window \in Windows
  BY DEF EnableInit, Windows
<1>2. TypeOK
  BY Sizes, StaticIsTap DEF EnableInit, TypeOK, Phase
<1>3. StageOK
  BY Sizes DEF EnableInit, StageOK
<1> QED
  BY <1>1, <1>2, <1>3 DEF SearchInv

LEMMA VfifoIsClock ==
    ASSUME NEW n \in Nat, vf \in 0 .. VFIFO_SIZE - 1, IncrVfifo(n)
    PROVE  vf' \in 0 .. VFIFO_SIZE - 1
  BY Sizes DEF IncrVfifo

LEMMA SearchEndKeeps ==
    ASSUME NEW backed \in Phase, NEW end \in Nat, SearchEnd(backed, end),
           vf \in 0 .. VFIFO_SIZE - 1
    PROVE  /\ pc' = "end" /\ d' = 0 /\ vf' \in 0 .. VFIFO_SIZE - 1 /\ p' \in Phase
           /\ j' \in Nat /\ work_end' \in Nat /\ work_end' >= end + Ptap
<1>1. CASE backed + 2 > IO_DQS_EN_PHASE_MAX
  BY <1>1, Sizes, VfifoIsClock DEF SearchEnd, Phase
<1>2. CASE ~(backed + 2 > IO_DQS_EN_PHASE_MAX)
  BY <1>2, Sizes DEF SearchEnd, Phase
<1> QED
  BY <1>1, <1>2

LEMMA RangeKeeps ==
    ASSUME NEW failing \in 0 .. IO_DQS_EN_DELAY_MAX + 1, NEW end \in Nat,
           failing = 0 \/ end >= Dtap, RangeFound(failing, end),
           work_bgn \in Nat, vf \in 0 .. VFIFO_SIZE - 1, p \in Phase,
           initial_failing_dtap \in 0 .. IO_DQS_EN_DELAY_MAX + 1, result = "none"
    PROVE  /\ d' = failing /\ work_end' \in Nat
           /\ vf' \in 0 .. VFIFO_SIZE - 1 /\ p' \in Phase
           /\ initial_failing_dtap' \in 0 .. IO_DQS_EN_DELAY_MAX + 1
           /\ \/ /\ pc' = "track" /\ result' = "none"
                 /\ initial_failing_dtap' = failing /\ work_bgn <= work_end'
              \/ pc' = "done" /\ result' = "bad"
<1>1. d' = failing /\ work_end' \in Nat
  BY Sizes DEF RangeFound
<1>2. CASE work_end' >= work_bgn
  <2>1. vf' \in 0 .. VFIFO_SIZE - 1 /\ p' \in Phase
    <3>1. CASE p = 1
      BY <1>2, <3>1, Sizes, VfifoIsClock DEF RangeFound, DecrVfifo, Phase
    <3>2. CASE p /= 1
      BY <1>2, <3>2, Sizes DEF RangeFound, Phase
    <3> QED
      BY <3>1, <3>2
  <2> QED
    BY <1>1, <1>2, <2>1 DEF RangeFound
<1>3. CASE ~(work_end' >= work_bgn)
  BY <1>1, <1>3 DEF RangeFound, Give
<1> QED
  BY <1>2, <1>3

LEMMA SearchNext ==
    ASSUME SearchInv, [EnableNext]_enableVars PROVE SearchInv'
<1> USE DEF SearchInv, times, tracking, gate
<1>1. CASE PushVfifo
  <2>1. vf' \in 0 .. VFIFO_SIZE - 1
    BY <1>1, VfifoIsClock DEF PushVfifo, TypeOK
  <2>2. pc' = "push" => vf' = i'
    BY <1>1, Sizes, ModIs DEF PushVfifo, StageOK, TypeOK, IncrVfifo, Give
  <2>3. TypeOK'
    BY <1>1, <2>1, Sizes DEF PushVfifo, StageOK, TypeOK, Give
  <2>4. StageOK'
    BY <1>1, <2>2, Sizes DEF PushVfifo, StageOK, TypeOK, Give
  <2> QED
    BY <1>1, <2>3, <2>4 DEF PushVfifo
<1>2. CASE BeginFails
  <2>1. vf' \in 0 .. VFIFO_SIZE - 1
    BY <1>2, VfifoIsClock DEF BeginFails, TypeOK
  <2>2. CASE p < IO_DQS_EN_PHASE_MAX
    <3>1. TypeOK'
      BY <1>2, <2>2, Sizes DEF BeginFails, StageOK, TypeOK, Phase
    <3>2. work_bgn' = i' * ClockTime + p' * Ptap + d' * Dtap
      <4>1. (p + 1) * Ptap = p * Ptap + Ptap /\ p * Ptap \in Int /\ d * Dtap \in Int
        BY OneMore DEF TypeOK, Phase
      <4>2. i * ClockTime \in Int
        BY Sizes, ProductInt DEF TypeOK
      <4> QED
        BY <1>2, <2>2, <4>1, <4>2, Sizes DEF BeginFails, StageOK, TypeOK
    <3>3. StageOK'
      BY <1>2, <2>2, <3>2 DEF BeginFails, StageOK, TypeOK
    <3> QED
      BY <1>2, <3>1, <3>3 DEF BeginFails
  <2>3. CASE ~(p < IO_DQS_EN_PHASE_MAX)
    <3>0. p = IO_DQS_EN_PHASE_MAX
      BY <2>3, Sizes DEF TypeOK, Phase
    <3>1. work_bgn' \in Nat
      BY <1>2, <2>3, Sizes, OneMore DEF BeginFails, TypeOK
    <3>2. TypeOK'
      BY <1>2, <2>1, <2>3, <3>1, Sizes DEF BeginFails, StageOK, TypeOK, Phase, Give
    <3>3. CASE i + 1 < VFIFO_SIZE
      <4>1. (i + 1) * ClockTime = i * ClockTime + ClockTime /\ i * ClockTime \in Int
        BY Sizes DEF TypeOK
      <4>2. d * Dtap \in Int /\ p * Ptap \in Int
        BY OneMore DEF TypeOK, Phase
      <4>3. i' = i + 1 /\ p' = 1 /\ d' = d /\ work_bgn' = work_bgn + 2 * Ptap /\ pc' = "begin"
        BY <1>2, <2>3, <3>3 DEF BeginFails
      <4>4. work_bgn = i * ClockTime + p * Ptap + d * Dtap /\ p * Ptap + Ptap = ClockTime
        BY <1>2, <3>0, Products DEF BeginFails, StageOK
      <4>5. work_bgn' = i' * ClockTime + p' * Ptap + d' * Dtap
        BY <4>1, <4>2, <4>3, <4>4, Sizes
      <4> QED
        BY <1>2, <2>3, <3>2, <3>3, <4>3, <4>5 DEF BeginFails, StageOK, TypeOK
    <3>4. CASE ~(i + 1 < VFIFO_SIZE)
      <4>1. (d + 1) * Dtap \in Int
        BY OneMore DEF TypeOK
      <4>2. CASE d < dtaps_per_ptap
        <5>1. /\ pc' = "begin" /\ i' = 0 /\ d' = d + 1 /\ p' = 1 /\ result' = result
              /\ work_bgn' = (d + 1) * Dtap + Ptap /\ dtaps_per_ptap' = dtaps_per_ptap
          BY <1>2, <2>3, <3>4, <4>2 DEF BeginFails
        <5>2. work_bgn' = i' * ClockTime + p' * Ptap + d' * Dtap
          BY <4>1, <5>1, Sizes
        <5>3. i' < VFIFO_SIZE /\ d' <= dtaps_per_ptap'
          BY <4>2, <5>1, Sizes DEF TypeOK
        <5> QED
          BY <1>2, <3>2, <5>1, <5>2, <5>3 DEF BeginFails, StageOK
      <4>3. CASE ~(d < dtaps_per_ptap)
        BY <1>2, <2>3, <3>2, <3>4, <4>3 DEF BeginFails, StageOK, Give
      <4> QED
        BY <4>2, <4>3
    <3> QED
      BY <3>3, <3>4
  <2> QED
    BY <2>2, <2>3
<1>3. CASE BeginAtPhase
  <2>1. work_bgn >= p * Ptap /\ work_bgn \in Nat
    <3>1. i * ClockTime >= 0 /\ i * ClockTime \in Int
      BY Sizes DEF TypeOK
    <3>2. d * Dtap >= 0 /\ d * Dtap \in Int /\ p * Ptap \in Int
      BY OneMore DEF TypeOK, Phase
    <3> QED
      BY <1>3, <3>1, <3>2 DEF BeginAtPhase, StageOK, TypeOK
  <2>2. p * Ptap >= Ptap /\ (p > 1 => p * Ptap >= 2 * Ptap)
    BY Sizes DEF TypeOK, Phase
  <2>3. CASE p > 1
    <3>1. TypeOK'
      BY <1>3, <2>3, Sizes DEF BeginAtPhase, StageOK, TypeOK, Phase
    <3>2. d' * Dtap < Ptap /\ d' <= IO_DQS_EN_DELAY_MAX
      BY <1>3, <2>3, Sizes DEF BeginAtPhase
    <3>3. work_end' >= 2 * Ptap /\ work_bgn' = work_end'
      BY <1>3, <2>1, <2>2, <2>3, Sizes, OneMore DEF BeginAtPhase, TypeOK, Phase
    <3>4. StageOK'
      BY <1>3, <2>3, <3>2, <3>3, Sizes DEF BeginAtPhase, StageOK, TypeOK, Phase
    <3> QED
      BY <1>3, <3>1, <3>4 DEF BeginAtPhase
  <2>4. CASE ~(p > 1)
    <3>1. 1 \in Phase /\ SearchEnd(1, work_bgn)
      BY <1>3, <2>4, Sizes DEF BeginAtPhase, Phase
    <3>2. /\ pc' = "end" /\ d' = 0 /\ vf' \in 0 .. VFIFO_SIZE - 1 /\ p' \in Phase
          /\ j' \in Nat /\ work_end' \in Nat /\ work_end' >= work_bgn + Ptap
      BY <3>1, <2>1, SearchEndKeeps DEF TypeOK
    <3>3. work_bgn >= Ptap
      BY <2>1, <2>2, Sizes, OneMore DEF TypeOK, Phase
    <3> QED
      BY <1>3, <3>2, <3>3, Sizes DEF BeginAtPhase, StageOK, TypeOK
  <2> QED
    BY <2>3, <2>4
<1>4. CASE BeginAtDelay
  <2>1. /\ i * ClockTime >= 0 /\ i * ClockTime \in Int
        /\ p * Ptap >= Ptap /\ p * Ptap \in Int
        /\ d * Dtap >= 0 /\ d * Dtap \in Int
    BY Sizes DEF TypeOK, Phase
  <2>2. work_bgn >= Ptap /\ work_bgn >= d * Dtap
    BY <1>4, <2>1, Sizes DEF BeginAtDelay, StageOK
  <2> QED
    BY <1>4, <2>2, Sizes DEF BeginAtDelay, StageOK, TypeOK
<1>5. CASE BeginDelay
  <2> DEFINE tmp_delay == work_end - Ptap + d * Dtap
             more == d < IO_DQS_EN_DELAY_MAX /\ tmp_delay + Dtap < work_end
  <2>0. d * Dtap \in Int /\ d * Dtap >= 0 /\ (d + 1) * Dtap = d * Dtap + Dtap
    BY OneMore DEF TypeOK
  <2>1. work_bgn' = IF ReadPasses THEN tmp_delay ELSE work_bgn
    BY <1>5 DEF BeginDelay
  <2>2. work_bgn' \in Nat /\ work_bgn' >= Ptap
    BY <1>5, <2>0, <2>1, Sizes DEF BeginDelay, StageOK, TypeOK
  <2>3. CASE ~ReadPasses /\ more
    <3>1. d' = d + 1 /\ UNCHANGED <<pc, vf, p, j, work_end>>
      BY <1>5, <2>3 DEF BeginDelay
    <3>2. d' * Dtap < Ptap
      BY <2>0, <2>3, <3>1, Sizes DEF TypeOK
    <3> QED
      BY <1>5, <2>1, <2>2, <2>3, <3>1, <3>2, Sizes DEF BeginDelay, StageOK, TypeOK
  <2>4. CASE ~(~ReadPasses /\ more)
    <3>1. SearchEnd(p, work_end)
      BY <1>5, <2>4 DEF BeginDelay
    <3>2. /\ pc' = "end" /\ d' = 0 /\ vf' \in 0 .. VFIFO_SIZE - 1 /\ p' \in Phase
          /\ j' \in Nat /\ work_end' \in Nat /\ work_end' >= work_end + Ptap
      BY <3>1, SearchEndKeeps DEF TypeOK
    <3>3. UNCHANGED <<window, i, fail_cnt, tracking, result>> /\ pc = "begin2"
      BY <1>5 DEF BeginDelay
    <3>4. work_end' >= 2 * Ptap /\ i <= VFIFO_SIZE
      BY <3>2, <3>3, Sizes DEF StageOK, TypeOK
    <3> QED
      BY <2>2, <3>2, <3>3, <3>4, Sizes DEF StageOK, TypeOK
  <2> QED
    BY <2>3, <2>4
<1>6. CASE EndContinues
  <2>1. vf' \in 0 .. VFIFO_SIZE - 1
    BY <1>6, VfifoIsClock DEF EndContinues, TypeOK
  <2>2. work_bgn' \in Nat /\ work_bgn' >= Ptap
    BY <1>6, Sizes DEF EndContinues, StageOK, TypeOK
  <2>3. work_end' \in Nat /\ work_end' >= 2 * Ptap
    BY <1>6, Sizes DEF EndContinues, StageOK, TypeOK
  <2>4. TypeOK'
    BY <1>6, <2>1, <2>2, <2>3, Sizes DEF EndContinues, StageOK, TypeOK, Phase, Give
  <2> QED
    BY <1>6, <2>2, <2>3, <2>4, Sizes DEF EndContinues, StageOK, TypeOK, Give
<1>7. CASE EndFound
  <2>1. vf' \in 0 .. VFIFO_SIZE - 1
    BY <1>7, Sizes, VfifoIsClock DEF EndFound, TypeOK, DecrVfifo
  <2>2. work_end' \in Nat /\ work_end' >= d' * Dtap
    BY <1>7, Sizes DEF EndFound, StageOK, TypeOK
  <2>3. TypeOK'
    BY <1>7, <2>1, <2>2, Sizes DEF EndFound, StageOK, TypeOK, Phase
  <2> QED
    BY <1>7, <2>2, <2>3, Sizes DEF EndFound, StageOK, TypeOK
<1>8. CASE EndDelay
  <2>0. /\ d * Dtap \in Int /\ d * Dtap >= 0 /\ (d + 1) * Dtap = d * Dtap + Dtap
        /\ d > 0 => d * Dtap >= Dtap
    BY Sizes DEF TypeOK
  <2>1. /\ UNCHANGED <<window, i, j, fail_cnt, work_bgn, dtaps_per_ptap>>
        /\ result = "none" /\ work_bgn >= Ptap /\ d <= IO_DQS_EN_DELAY_MAX
        /\ work_end >= d * Dtap
    BY <1>8 DEF EndDelay, StageOK
  <2>2. ASSUME NEW failing \in 0 .. IO_DQS_EN_DELAY_MAX + 1, NEW end \in Nat,
               failing = 0 \/ end >= Dtap, RangeFound(failing, end)
        PROVE  SearchInv'
    <3>1. /\ d' = failing /\ work_end' \in Nat
          /\ vf' \in 0 .. VFIFO_SIZE - 1 /\ p' \in Phase
          /\ initial_failing_dtap' \in 0 .. IO_DQS_EN_DELAY_MAX + 1
          /\ \/ /\ pc' = "track" /\ result' = "none"
                /\ initial_failing_dtap' = failing /\ work_bgn <= work_end'
             \/ pc' = "done" /\ result' = "bad"
      BY <2>1, <2>2, RangeKeeps DEF TypeOK
    <3> QED
      BY <2>1, <3>1, Sizes DEF StageOK, TypeOK
  <2>3. CASE ~ReadPasses
    <3>1. RangeFound(d, work_end)
      BY <1>8, <2>3 DEF EndDelay
    <3>2. d = 0 \/ work_end >= Dtap
      BY <2>0, <2>1, Sizes DEF TypeOK
    <3> QED
      BY <2>2, <3>1, <3>2 DEF TypeOK
  <2>4. CASE ReadPasses /\ d = IO_DQS_EN_DELAY_MAX
    <3>1. RangeFound(d + 1, work_end + Dtap)
      BY <1>8, <2>4 DEF EndDelay
    <3>2. /\ d + 1 \in 0 .. IO_DQS_EN_DELAY_MAX + 1 /\ work_end + Dtap \in Nat
          /\ work_end + Dtap >= Dtap
      BY <2>4, Sizes DEF TypeOK
    <3> QED
      BY <2>2, <3>1, <3>2
  <2>5. CASE ReadPasses /\ d /= IO_DQS_EN_DELAY_MAX
    <3>1. /\ d' = d + 1 /\ work_end' = work_end + Dtap
          /\ UNCHANGED <<pc, vf, p, initial_failing_dtap, result>>
      BY <1>8, <2>5 DEF EndDelay
    <3>2. work_end' \in Nat /\ work_end' >= d' * Dtap
      BY <2>0, <2>1, <3>1, Sizes DEF TypeOK
    <3> QED
      BY <1>8, <2>1, <2>5, <3>1, <3>2, Sizes DEF EndDelay, StageOK, TypeOK
  <2> QED
    BY <2>3, <2>4, <2>5
<1>9. CASE TrackTap
  BY <1>9, Sizes DEF TrackTap, TapsLeft, StageOK, TypeOK, times
<1>10. CASE TrackEnds
  BY <1>10, Sizes DEF TrackEnds, StageOK, TypeOK, times, tracking, gate
<1>11. CASE Centre
  <2>1. work_mid \in 1 .. ClockTime
    BY <1>11, MidInClock DEF Centre, StageOK, TypeOK
  <2>2. p' \in Phase /\ d' \in 0 .. IO_DQS_EN_DELAY_MAX
    BY <1>11, <2>1, CentreReaches
  <2>3. /\ pc = "centre" /\ pc' = "final" /\ i' = 0
        /\ UNCHANGED <<window, vf, j, fail_cnt, times, tracking, result>>
    BY <1>11 DEF Centre
  <2> QED
    BY <2>2, <2>3, Sizes DEF StageOK, TypeOK, times, tracking
<1>12. CASE FinalPush
  <2>1. vf' \in 0 .. VFIFO_SIZE - 1
    BY <1>12, VfifoIsClock DEF FinalPush, TypeOK
  <2> QED
    BY <1>12, <2>1, Sizes DEF FinalPush, StageOK, TypeOK, times, tracking, Give
<1>13. CASE UNCHANGED enableVars
  BY <1>13 DEF enableVars, StageOK, TypeOK, gate, times, tracking
<1>14. CASE Finished
  BY <1>13, <1>14 DEF Finished
<1> QED
  BY <1>1, <1>2, <1>3, <1>4, <1>5, <1>6, <1>7, <1>8, <1>9, <1>10, <1>11, <1>12,
     <1>13, <1>14 DEF EnableNext

THEOREM SearchInvCorrect == EnableSpec => []SearchInv
  BY SearchInit, SearchNext, PTL DEF EnableSpec

(* The counters and times of the search stay in their types: the phase is a
   phase that is used, the delay at most one past the last tap, no time
   below zero, and the delays of a phase handed to the tracking a number of
   taps, whatever the window.                                              *)
THEOREM SearchTypes == EnableSpec => []TypeOK
  BY SearchInvCorrect, PTL DEF SearchInv

-----------------------------------------------------------------------------
(* The VFIFO's pointer is pushed on by n clocks, around the ring. *)
LEMMA VfifoPushed ==
    ASSUME vf \in 0 .. VFIFO_SIZE - 1, NEW n \in Nat, IncrVfifo(n)
    PROVE  vf' \in Int /\ \E t \in Int : vf' = vf + n + VFIFO_SIZE * t
<1>1. vf + n \in Int /\ vf' = (vf + n) % VFIFO_SIZE
  BY Sizes DEF IncrVfifo
<1> DEFINE q == (vf + n) \div VFIFO_SIZE
<1>2. q \in Int /\ vf' \in Int /\ vf + n = VFIFO_SIZE * q + vf'
  BY <1>1, Sizes, DivMod
<1> HIDE DEF q
<1>3. VFIFO_SIZE * (-q) = -(VFIFO_SIZE * q) /\ VFIFO_SIZE * q \in Int /\ -q \in Int
  BY <1>2, Sizes
<1>4. vf' = vf + n + VFIFO_SIZE * (-q)
  BY <1>1, <1>2, <1>3, Sizes
<1> QED
  BY <1>2, <1>3, <1>4

(* Where the gate is after a step of t, less than a turn. *)
Stepped(t) ==
    /\ FromOpen \in 0 .. Ring - 1 /\ (ReadPasses <=> FromOpen <= window.width)
    /\ FromOpen' \in 0 .. Ring - 1 /\ (ReadPasses' <=> FromOpen' <= window.width)
    /\ FromOpen' = IF FromOpen + t >= Ring THEN FromOpen + t - Ring
                   ELSE IF FromOpen + t < 0 THEN FromOpen + t + Ring ELSE FromOpen + t

LEMMA ClockStep ==
    ASSUME window \in Windows, window' = window, vf \in Int, vf' \in Int,
           p \in Int, d \in Int, p' \in Int, d' \in Int,
           NEW k \in Int, NEW n \in Int, vf' = vf + k + VFIFO_SIZE * n,
           NEW t \in -Ring .. Ring,
           t = k * ClockTime + (p' - p) * Ptap + (d' - d) * Dtap
    PROVE  Stepped(t)
<1>1. FromOpen = GateAt(vf, p, d) /\ FromOpen' = GateAt(vf', p', d')
      /\ (ReadPasses <=> FromOpen <= window.width)
      /\ (ReadPasses' <=> FromOpen' <= window.width)
  BY GateIs, GateIsNext
<1>2. FromOpen \in 0 .. Ring - 1 /\ FromOpen' \in 0 .. Ring - 1
  BY <1>1, GateInRing
<1>3. GateAt(vf', p', d') = (GateAt(vf, p, d) + t) % Ring
  BY GateMoves
<1>4. FromOpen' = (FromOpen + t) % Ring
  BY <1>1, <1>3
<1>5. (FromOpen + t) % Ring = IF FromOpen + t >= Ring THEN FromOpen + t - Ring
                   ELSE IF FromOpen + t < 0 THEN FromOpen + t + Ring ELSE FromOpen + t
  BY <1>2, Around, Sizes
<1> QED
  BY <1>1, <1>2, <1>4, <1>5 DEF Stepped

(* In a clock, into the next one, and into the one before. *)
LEMMA StepInClock ==
    ASSUME window \in Windows, window' = window, vf \in 0 .. VFIFO_SIZE - 1, vf' = vf,
           p \in Int, d \in Int, p' \in Int, d' \in Int,
           NEW t \in -Ring .. Ring, t = (p' - p) * Ptap + (d' - d) * Dtap
    PROVE  Stepped(t)
<1>1. vf' = vf + 0 + VFIFO_SIZE * 0 /\ vf \in Int /\ vf' \in Int
  BY Sizes
<1>2. t = 0 * ClockTime + (p' - p) * Ptap + (d' - d) * Dtap
  <2>1. 0 * ClockTime = 0 /\ (p' - p) * Ptap \in Int
    BY Sizes, ProductInt
  <2> QED
    BY <2>1
<1> QED
  BY <1>1, <1>2, ClockStep

LEMMA StepOn ==
    ASSUME window \in Windows, window' = window, vf \in 0 .. VFIFO_SIZE - 1, IncrVfifo(1),
           p \in Int, d \in Int, p' \in Int, d' \in Int,
           NEW t \in -Ring .. Ring, t = ClockTime + (p' - p) * Ptap + (d' - d) * Dtap
    PROVE  Stepped(t)
<1>1. PICK n \in Int : vf' = vf + 1 + VFIFO_SIZE * n
  BY VfifoPushed
<1>2. vf \in Int /\ vf' \in Int
  BY VfifoPushed, Sizes
<1>3. t = 1 * ClockTime + (p' - p) * Ptap + (d' - d) * Dtap
  BY Sizes
<1> QED
  BY <1>1, <1>2, <1>3, ClockStep

LEMMA StepBack ==
    ASSUME window \in Windows, window' = window, vf \in 0 .. VFIFO_SIZE - 1, DecrVfifo,
           p \in Int, d \in Int, p' \in Int, d' \in Int,
           NEW t \in -Ring .. Ring, t = (p' - p) * Ptap + (d' - d) * Dtap - ClockTime
    PROVE  Stepped(t)
<1>1. VFIFO_SIZE - 1 \in Nat /\ IncrVfifo(VFIFO_SIZE - 1)
  BY Sizes DEF DecrVfifo
<1>2. PICK n \in Int : vf' = vf + (VFIFO_SIZE - 1) + VFIFO_SIZE * n
  BY <1>1, VfifoPushed
<1>3. vf \in Int /\ vf' \in Int
  BY <1>1, VfifoPushed, Sizes
<1>4. VFIFO_SIZE * (n + 1) = VFIFO_SIZE * n + VFIFO_SIZE /\ VFIFO_SIZE * n \in Int
  BY Sizes
<1>5. vf' = vf + (-1) + VFIFO_SIZE * (n + 1)
  BY <1>2, <1>3, <1>4, Sizes
<1>6. t = (-1) * ClockTime + (p' - p) * Ptap + (d' - d) * Dtap
  <2>1. (p' - p) * Ptap \in Int /\ (d' - d) * Dtap \in Int /\ (-1) * ClockTime = -ClockTime
    BY Sizes, ProductInt
  <2> QED
    BY <2>1, Sizes
<1>7. n + 1 \in Int /\ -1 \in Int
  OBVIOUS
<1> QED
  BY <1>3, <1>5, <1>6, <1>7, ClockStep

-----------------------------------------------------------------------------
(* What the search knows at each stage, in a clear window.  The times count
   from the clock the search began with, which the firmware does not know;
   what it knows is the distance between them.  FromOpen is that distance
   from the window's open, so the begin is late by Late, and the end is
   short by Skew, a phase, where the begin was met at phase 1: the phase
   before is then the unused one, and the firmware does not count it.      *)
AfterPhase1 == window.open % ClockTime \in Ptap + 1 .. IO_DQS_EN_PHASE_MAX * Ptap
Skew == IF AfterPhase1 THEN 0 ELSE Ptap
Late == (work_bgn - window.open) % ClockTime

BeginMeasured ==
    IF AfterPhase1 THEN Late < Dtap
    ELSE Late < 2 * Ptap /\ work_bgn % ClockTime = Ptap

EndCounted == FromOpen = (work_end - work_bgn) + Late + Skew

(* How far the gate has gone since the search of the begin, and how far the
   phase before is.                                                        *)
Gone == i * ClockTime + (p - 1) * Ptap
Back == IF p = 1 THEN 2 * Ptap ELSE Ptap

PushClear ==
    /\ fail_cnt = 0 => \A v \in 0 .. i - 1 : GateAt(v, 1, 0) <= window.width
    /\ fail_cnt = 1 => \E u \in 0 .. i - 1 : \A v \in 0 .. i - 1 :
                           v /= u => GateAt(v, 1, 0) <= window.width

(* The gate started where reads fail, and has not been around. *)
BeginClear ==
    /\ d = 0
    /\ IF ReadPasses THEN FromOpen < Back /\ FromOpen + Ring - Gone > window.width
       ELSE FromOpen - Gone > window.width

(* At the phase before the begin, whose delays are tried: those that passed
   before the current one are none.                                        *)
Begin2Clear ==
    LET late == (work_end - window.open) % ClockTime
        left == Ptap - d * Dtap
    IN  /\ AfterPhase1 /\ late < Ptap /\ late - left < Dtap
        /\ FromOpen = IF late >= left THEN late - left ELSE late - left + Ring
        /\ late + Ring - i * ClockTime - p * Ptap > window.width

EndClear ==
    /\ BeginMeasured /\ EndCounted
    /\ FromOpen - Back \in 0 .. window.width
    /\ j = 0 => ReadPasses
    /\ FromOpen + Ring - Gone > window.width

End2Clear ==
    /\ BeginMeasured /\ EndCounted
    /\ IF d = 0 THEN ReadPasses ELSE FromOpen - Dtap <= window.width
    /\ FromOpen - d * Dtap \in 0 .. window.width
    /\ FromOpen - d * Dtap + 2 * Ptap > window.width

(* The end is early by less than a phase. *)
Measured ==
    /\ BeginMeasured
    /\ window.width - (work_end - work_bgn) - Late - Skew \in 0 .. Ptap - 1

(* The window is too narrow for two clocks to pass at the same phase near
   its middle.                                                             *)
NarrowWindow == window.width < 2 * (ClockTime - Ptap)

InMiddle(t) ==
    /\ t \in 0 .. window.width
    /\ NarrowWindow => /\ t < ClockTime /\ t + ClockTime > window.width
                       /\ 2 * t - window.width \in -2 * Ptap .. 2 * Ptap + Dtap

(* In one of the clocks, none of those tried, the gate is in the middle. *)
FinalClear ==
    /\ \E t \in 0 .. window.width : InMiddle(t) /\ FromOpen % ClockTime = t % ClockTime
    /\ \A k \in 1 .. i : ~(GateAt((vf - k) % VFIFO_SIZE, p, d) <= window.width)

DoneClear == result = "ok" /\ (NarrowWindow => InMiddle(FromOpen))

ClearOK ==
    ClearWindow =>
        /\ pc = "push" => PushClear
        /\ pc = "begin" => BeginClear
        /\ pc = "begin2" => Begin2Clear
        /\ pc = "end" => EndClear
        /\ pc = "end2" => End2Clear
        /\ pc \in {"track", "track2", "centre"} => Measured
        /\ pc = "final" => FinalClear
        /\ pc = "done" => DoneClear

GateInv == SearchInv /\ ClearOK

LEMMA WindowFits ==
    ASSUME ClearWindow, window \in Windows
    PROVE  /\ window.width \in Nat /\ window.width >= 4 * Ptap
           /\ window.width + 2 * ClockTime < Ring
  BY WindowIs DEF ClearWindow

(* A time whose place in the clock is that of phase q and tap e is the time
   of the gate in one of the clocks.                                       *)
LEMMA ClockOfTime ==
    ASSUME window \in Windows, NEW q \in Int, NEW e \in Int, NEW x \in 0 .. Ring - 1,
           ((q * Ptap + e * Dtap) - window.open) % ClockTime = x % ClockTime
    PROVE  \E v \in 0 .. VFIFO_SIZE - 1 : GateAt(v, q, e) = x
<1> DEFINE y == (q * Ptap + e * Dtap) - window.open
<1>1. y \in Int /\ x \in Int
  BY OneMore, WindowIs, Sizes
<1>2. PICK k \in Int : x = y + ClockTime * k
  <2>1. y % ClockTime = x % ClockTime
    OBVIOUS
  <2> HIDE DEF y
  <2> QED
    BY <1>1, <2>1, Sizes, ApartByMultiple
<1> DEFINE v == k % VFIFO_SIZE
           m == k \div VFIFO_SIZE
<1>3. v \in 0 .. VFIFO_SIZE - 1 /\ m \in Int /\ k = VFIFO_SIZE * m + v
  BY Sizes, DivMod
<1>4. GateAt(v, q, e) = x
  <2>1. (v * ClockTime + q * Ptap + e * Dtap) - window.open = v * ClockTime + y
    BY <1>3, OneMore, WindowIs, Sizes, ProductInt
  <2> HIDE DEF y, v, m
  <2>2. ClockTime * k = v * ClockTime + Ring * m
    BY <1>3, Sizes, Products
  <2>3. Ring * m \in Int /\ v * ClockTime \in Int /\ Ring * (-m) = -(Ring * m)
    BY <1>3, Sizes, ProductInt
  <2>4. v * ClockTime + y = x + Ring * (-m)
    BY <1>1, <1>2, <2>2, <2>3
  <2>5. (v * ClockTime + y) % Ring = x % Ring
    <3>1. v * ClockTime + y \in Int /\ -m \in Int
      BY <1>1, <1>3, <2>3
    <3> QED
      BY <1>1, <2>4, <3>1, Sizes, SameMod
  <2>6. x % Ring = x
    BY Sizes, ModIs, x = Ring * 0 + x, 0 \in Int
  <2> QED
    BY <2>1, <2>5, <2>6 DEF GateAt
<1> QED
  BY <1>3, <1>4

(* Two clocks are free: reads fail at phase 1 of two of them. *)
LEMMA TwoFail ==
    ASSUME ClearWindow, window \in Windows
    PROVE  \E u \in 0 .. VFIFO_SIZE - 1, v \in 0 .. VFIFO_SIZE - 1 :
               /\ u /= v
               /\ GateAt(u, 1, 0) > window.width /\ GateAt(v, 1, 0) > window.width
<1> DEFINE y == Ptap - window.open
           r == (window.width - y) % ClockTime
           x == window.width + ClockTime - r
<1>1. y \in Int /\ window.width - y \in Int
  BY Sizes, WindowIs
<1>2. r \in 0 .. ClockTime - 1
  BY <1>1, Sizes, DivMod
<1>3. x \in 0 .. Ring - 1 /\ x + ClockTime \in 0 .. Ring - 1 /\ x > window.width
  BY <1>2, WindowFits, Sizes
<1>4. \E k \in Int : x = y + ClockTime * k
  <2>1. PICK q \in Int : window.width - y = ClockTime * q + r
    BY <1>1, Sizes, DivMod
  <2>2. ClockTime * (q + 1) = ClockTime * q + ClockTime /\ ClockTime * q \in Int
    BY Sizes
  <2>3. x = y + ClockTime * (q + 1)
    <3>1. window.width \in Int
      BY WindowIs
    <3> HIDE DEF r, y
    <3>2. window.width + ClockTime - r = y + ClockTime * (q + 1)
      BY <1>1, <1>2, <2>1, <2>2, <3>1, Sizes
    <3> QED
      BY <3>2
  <2> QED
    BY <2>3
<1>5. x % ClockTime = y % ClockTime /\ (x + ClockTime) % ClockTime = y % ClockTime
  <2>1. PICK k \in Int : x = y + ClockTime * k
    BY <1>4
  <2> HIDE DEF y, x
  <2>2. ClockTime * (k + 1) = ClockTime * k + ClockTime /\ ClockTime * k \in Int
    BY Sizes
  <2>3. x + ClockTime = y + ClockTime * (k + 1) /\ x + ClockTime \in Int /\ x \in Int
    BY <1>1, <2>1, <2>2, Sizes
  <2> QED
    BY <1>1, <2>1, <2>3, k + 1 \in Int, SameMod, Sizes
<1>6. (1 * Ptap + 0 * Dtap) - window.open = y
  BY Sizes, WindowIs
<1> HIDE DEF x, y, r
<1>7. PICK u \in 0 .. VFIFO_SIZE - 1 : GateAt(u, 1, 0) = x
  BY <1>3, <1>5, <1>6, ClockOfTime
<1>8. PICK v \in 0 .. VFIFO_SIZE - 1 : GateAt(v, 1, 0) = x + ClockTime
  BY <1>3, <1>5, <1>6, ClockOfTime
<1>9. x /= x + ClockTime /\ x + ClockTime > window.width
  BY <1>3, WindowFits, Sizes
<1> QED
  BY <1>3, <1>7, <1>8, <1>9

LEMMA GateInit ==
    ASSUME EnableInit PROVE GateInv
  BY SearchInit, Sizes DEF GateInv, EnableInit, ClearOK, PushClear

(* What the steps below start from. *)
Searching(stage) == GateInv /\ ClearWindow /\ pc = stage

LEMMA InSearch ==
    ASSUME NEW stage, Searching(stage)
    PROVE  /\ SearchInv /\ TypeOK /\ window \in Windows /\ StageOK /\ ClearOK
           /\ window.width \in Nat /\ window.width >= 4 * Ptap
           /\ window.width + 2 * ClockTime < Ring
           /\ vf \in 0 .. VFIFO_SIZE - 1 /\ p \in Int /\ p \in Phase /\ d \in Nat
           /\ i \in Nat /\ work_bgn \in Nat /\ work_end \in Nat
           /\ FromOpen \in 0 .. Ring - 1 /\ (ReadPasses <=> FromOpen <= window.width)
           /\ p * Ptap \in Int /\ d * Dtap \in Nat /\ i * ClockTime \in Nat
<1>1. SearchInv /\ TypeOK /\ window \in Windows /\ StageOK /\ ClearOK
  BY DEF Searching, GateInv, SearchInv
<1>2. /\ vf \in 0 .. VFIFO_SIZE - 1 /\ p \in Int /\ p \in Phase /\ d \in Nat
      /\ i \in Nat /\ work_bgn \in Nat /\ work_end \in Nat
  BY <1>1, Sizes DEF TypeOK, Phase
<1>3. FromOpen \in 0 .. Ring - 1 /\ (ReadPasses <=> FromOpen <= window.width)
  BY <1>1, <1>2, GateIs, GateInRing
<1>4. p * Ptap \in Int /\ d * Dtap \in Nat /\ i * ClockTime \in Nat
  BY <1>2, Sizes
<1>5. ClearWindow
  BY DEF Searching
<1> QED
  BY <1>1, <1>2, <1>3, <1>4, <1>5, WindowFits

(* Step 1: at the second failing read the search begins; it cannot run out
   of clocks before.                                                       *)
LEMMA PushClearNext ==
    ASSUME Searching("push"), PushVfifo
    PROVE  /\ pc' = "push" => PushClear'
           /\ pc' = "begin" => BeginClear'
           /\ pc' /= "done"
<1>1. /\ SearchInv /\ TypeOK /\ window \in Windows /\ StageOK /\ ClearOK
      /\ window.width \in Nat /\ i \in Nat
      /\ FromOpen \in 0 .. Ring - 1 /\ (ReadPasses <=> FromOpen <= window.width)
  BY InSearch
<1>2. PushClear /\ vf = i /\ p = 1 /\ d = 0 /\ fail_cnt \in {0, 1} /\ i < VFIFO_SIZE
  BY <1>1 DEF Searching, ClearOK, StageOK, TypeOK
<1>3. window' = window /\ p' = p /\ d' = d
  BY DEF PushVfifo
<1>4. ReadPasses <=> GateAt(i, 1, 0) <= window.width
  BY <1>1, <1>2, GateIs
<1>5. \A v \in Int : GateAt(v, 1, 0)' = GateAt(v, 1, 0)
  BY <1>3 DEF GateAt
<1>6. CASE fail_cnt' = 2
  <2>1. ~ReadPasses /\ pc' = "begin" /\ i' = 0 /\ vf' = vf
    BY <1>2, <1>6 DEF PushVfifo
  <2>2. FromOpen' = FromOpen /\ (ReadPasses' <=> ReadPasses)
    BY <1>1, <1>3, <2>1, GateIs, GateIsNext
  <2>3. Gone' = 0
    BY <1>2, <1>3, <2>1, Sizes DEF Gone
  <2>4. BeginClear'
    BY <1>1, <1>2, <1>3, <2>1, <2>2, <2>3 DEF BeginClear
  <2> QED
    BY <2>1, <2>4
<1>7. CASE fail_cnt' /= 2
  <2>1. /\ i' = i + 1 /\ fail_cnt' \in {0, 1}
        /\ fail_cnt' = IF ReadPasses THEN fail_cnt ELSE fail_cnt + 1
        /\ IF i + 1 = VFIFO_SIZE THEN pc' = "done" ELSE pc' = "push"
    BY <1>2, <1>7 DEF PushVfifo, Give, Searching
  <2>2. fail_cnt' = 0 => \A v \in 0 .. i : GateAt(v, 1, 0) <= window.width
    BY <1>1, <1>2, <1>4, <2>1 DEF PushClear
  <2>3. fail_cnt' = 1 => \E u \in 0 .. i : \A v \in 0 .. i :
                             v /= u => GateAt(v, 1, 0) <= window.width
    <3> SUFFICES ASSUME fail_cnt' = 1
                 PROVE  \E u \in 0 .. i : \A v \in 0 .. i :
                            v /= u => GateAt(v, 1, 0) <= window.width
      OBVIOUS
    <3>1. CASE ReadPasses
      <4>1. PICK u \in 0 .. i - 1 : \A v \in 0 .. i - 1 :
                v /= u => GateAt(v, 1, 0) <= window.width
        BY <2>1, <3>1, <1>2 DEF PushClear
      <4>2. u \in 0 .. i /\ \A v \in 0 .. i : v /= u => GateAt(v, 1, 0) <= window.width
        BY <1>1, <1>4, <3>1, <4>1
      <4> QED
        BY <4>2
    <3>2. CASE ~ReadPasses
      <4>1. fail_cnt = 0
        BY <1>2, <2>1, <3>2
      <4>2. i \in 0 .. i /\ \A v \in 0 .. i : v /= i => GateAt(v, 1, 0) <= window.width
        BY <1>1, <1>2, <4>1 DEF PushClear
      <4> QED
        BY <4>2
    <3> QED
      BY <3>1, <3>2
  <2>4. PushClear'
    <3>1. i' - 1 = i /\ window' = window
      BY <1>1, <1>3, <2>1
    <3>2. \A v \in 0 .. i : v \in Int
      BY <1>1
    <3> QED
      BY <1>5, <2>2, <2>3, <3>1, <3>2 DEF PushClear
  <2>5. i + 1 /= VFIFO_SIZE
    <3> SUFFICES ASSUME i + 1 = VFIFO_SIZE PROVE FALSE
      OBVIOUS
    <3>1. VFIFO_SIZE - 1 = i
      BY <1>1
    <3>2. PICK u \in 0 .. i, v \in 0 .. i :
              u /= v /\ GateAt(u, 1, 0) > window.width /\ GateAt(v, 1, 0) > window.width
      BY <1>1, <3>1, TwoFail DEF Searching
    <3>3. GateAt(u, 1, 0) \in Int /\ GateAt(v, 1, 0) \in Int
      <4>1. u \in Int /\ v \in Int /\ 1 \in Int /\ 0 \in Int
        BY <1>1
      <4>2. GateAt(u, 1, 0) \in 0 .. Ring - 1 /\ GateAt(v, 1, 0) \in 0 .. Ring - 1
        BY <1>1, <4>1, GateInRing
      <4> QED
        BY <4>2, Sizes
    <3>4. ~(GateAt(u, 1, 0) <= window.width) /\ ~(GateAt(v, 1, 0) <= window.width)
      BY <1>1, <3>2, <3>3
    <3> QED
      BY <2>1, <2>2, <2>3, <3>2, <3>4
  <2> QED
    BY <2>1, <2>4, <2>5
<1> QED
  BY <1>6, <1>7

(* Step 2: the gate meets the window at the latest when it has been all
   around, so that no delay is tried.                                      *)
LEMMA BeginClearNext ==
    ASSUME Searching("begin"), BeginFails
    PROVE  pc' = "begin" /\ BeginClear'
<1>1. /\ SearchInv /\ TypeOK /\ window \in Windows /\ StageOK /\ ClearOK
      /\ window.width \in Nat /\ window.width >= 4 * Ptap
      /\ window.width + 2 * ClockTime < Ring
      /\ vf \in 0 .. VFIFO_SIZE - 1 /\ p \in Int /\ p \in Phase /\ i \in Nat
      /\ FromOpen \in 0 .. Ring - 1 /\ (ReadPasses <=> FromOpen <= window.width)
      /\ p * Ptap \in Int /\ i * ClockTime \in Nat
  BY InSearch
<1>2. BeginClear /\ ~ReadPasses /\ window' = window /\ pc = "begin" /\ i < VFIFO_SIZE
  BY <1>1 DEF Searching, ClearOK, BeginFails, StageOK
<1>3. d = 0 /\ FromOpen > window.width /\ FromOpen - Gone > window.width
  BY <1>1, <1>2 DEF BeginClear
<1>4. Gone = i * ClockTime + p * Ptap - Ptap /\ Gone \in Int
  BY <1>1, OneMore, Sizes DEF Gone
<1>5. CASE p < IO_DQS_EN_PHASE_MAX
  <2>1. p' = p + 1 /\ vf' = vf /\ d' = d /\ i' = i /\ pc' = pc
    BY <1>5 DEF BeginFails
  <2>2. Stepped(Ptap)
    <3>1. Ptap = (p' - p) * Ptap + (d' - d) * Dtap /\ Ptap \in -Ring .. Ring
      BY <1>1, <1>3, <2>1, Sizes
    <3> QED
      BY <1>1, <1>2, <1>3, <2>1, <3>1, StepInClock
  <2>3. Gone' = Gone + Ptap /\ Back' = Ptap
    BY <1>1, <1>4, <2>1, OneMore, Sizes DEF Gone, Back, Phase
  <2> QED
    BY <1>1, <1>2, <1>3, <1>4, <2>1, <2>2, <2>3, Sizes DEF BeginClear, Stepped
<1>6. CASE ~(p < IO_DQS_EN_PHASE_MAX)
  <2>1. p = IO_DQS_EN_PHASE_MAX /\ p * Ptap = ClockTime - Ptap
    <3>1. p = IO_DQS_EN_PHASE_MAX
      BY <1>1, <1>6, Sizes DEF Phase
    <3> QED
      BY <1>1, <3>1, Products, Sizes
  <2>2. i + 1 < VFIFO_SIZE
    <3> SUFFICES ASSUME i + 1 = VFIFO_SIZE PROVE FALSE
      BY <1>1, <1>2, Sizes
    <3>1. i * ClockTime = Ring - ClockTime
      <4>1. (i + 1) * ClockTime = i * ClockTime + ClockTime
        BY <1>1, Sizes
      <4> QED
        BY <1>1, <4>1, Products, Sizes
    <3>2. Gone = Ring - 2 * Ptap
      BY <1>1, <1>4, <2>1, <3>1, Sizes
    <3> QED
      BY <1>1, <1>3, <3>2, Sizes
  <2>3. IncrVfifo(1) /\ p' = 1 /\ d' = d /\ i' = i + 1 /\ pc' = pc
    BY <1>6, <2>2 DEF BeginFails
  <2>4. Stepped(2 * Ptap)
    <3>1. (p' - p) * Ptap = 2 * Ptap - ClockTime
      BY <1>1, <2>1, <2>3, OneMore, Sizes
    <3>2. 2 * Ptap = ClockTime + (p' - p) * Ptap + (d' - d) * Dtap
      BY <1>3, <2>3, <3>1, Sizes
    <3>3. 2 * Ptap \in -Ring .. Ring /\ p' \in Int /\ d' \in Int /\ d \in Int
      BY <1>1, <1>3, <2>3, Sizes
    <3> QED
      BY <1>1, <1>2, <2>3, <3>2, <3>3, StepOn
  <2>5. Gone' = Gone + 2 * Ptap /\ Back' = 2 * Ptap
    <3>1. (i + 1) * ClockTime = i * ClockTime + ClockTime
      BY <1>1, Sizes
    <3>2. Gone' = (i + 1) * ClockTime
      BY <2>3, <3>1, <1>1, Sizes DEF Gone
    <3> QED
      BY <1>1, <1>4, <2>1, <2>3, <3>1, <3>2, Sizes DEF Back
  <2> QED
    BY <1>1, <1>2, <1>3, <1>4, <2>3, <2>4, <2>5, Sizes DEF BeginClear, Stepped
<1> QED
  BY <1>5, <1>6

(* Where the search of the begin ends: how late the begin is, and on which
   side of phase 1 of its clock the window opens.                          *)
LEMMA BeginMet ==
    ASSUME Searching("begin"), ReadPasses
    PROVE  /\ d = 0 /\ Late = FromOpen /\ FromOpen < Back
           /\ p > 1 => AfterPhase1
           /\ p = 1 => ~AfterPhase1 /\ work_bgn % ClockTime = Ptap
<1>1. /\ TypeOK /\ window \in Windows /\ StageOK /\ ClearOK
      /\ vf \in 0 .. VFIFO_SIZE - 1 /\ p \in Int /\ p \in Phase /\ i \in Nat
      /\ FromOpen \in 0 .. Ring - 1 /\ work_bgn \in Nat
      /\ p * Ptap \in Int /\ i * ClockTime \in Nat
  BY InSearch
<1>2. BeginClear /\ work_bgn = i * ClockTime + p * Ptap + d * Dtap
  BY <1>1 DEF Searching, ClearOK, StageOK
<1>3. d = 0 /\ FromOpen < Back
  BY <1>2 DEF BeginClear
<1>4. work_bgn = i * ClockTime + p * Ptap
  BY <1>1, <1>2, <1>3, Sizes
<1>5. FromOpen < 2 * Ptap /\ FromOpen \in 0 .. ClockTime - 1
  BY <1>1, <1>3, Sizes DEF Back
<1>6. FromOpen % ClockTime = FromOpen
  BY <1>5, Sizes, ModIs, FromOpen = ClockTime * 0 + FromOpen, 0 \in Int
<1>7. vf \in Int /\ vf * ClockTime \in Int /\ window.open \in Int
  BY <1>1, Sizes, ProductInt, WindowIs
<1>8. FromOpen % ClockTime = ((vf * ClockTime + p * Ptap) - window.open) % ClockTime
  <2>1. FromOpen = GateAt(vf, p, 0)
    BY <1>3, GateIs
  <2>2. 0 * Dtap = 0
    BY Sizes
  <2>3. (vf * ClockTime + p * Ptap + 0 * Dtap) - window.open
          = (vf * ClockTime + p * Ptap) - window.open
    BY <1>1, <1>7, <2>2
  <2>4. GateAt(vf, p, 0) % ClockTime
          = ((vf * ClockTime + p * Ptap + 0 * Dtap) - window.open) % ClockTime
    BY <1>1, <1>7, GateInRing, 0 \in Int
  <2> QED
    BY <2>1, <2>3, <2>4
<1>9. Late = FromOpen
  <2>1. (i - vf) * ClockTime = i * ClockTime - vf * ClockTime
        /\ ClockTime * (i - vf) = (i - vf) * ClockTime /\ i - vf \in Int
    BY <1>1, <1>7, Sizes
  <2>2. work_bgn - window.open
          = ((vf * ClockTime + p * Ptap) - window.open) + ClockTime * (i - vf)
    BY <1>1, <1>4, <1>7, <2>1
  <2>3. (vf * ClockTime + p * Ptap) - window.open \in Int /\ work_bgn - window.open \in Int
    BY <1>1, <1>7
  <2>4. (work_bgn - window.open) % ClockTime
          = ((vf * ClockTime + p * Ptap) - window.open) % ClockTime
    BY <2>1, <2>2, <2>3, Sizes, SameMod
  <2> QED
    BY <1>6, <1>8, <2>4 DEF Late
<1>10. PICK k \in Int : window.open = (p * Ptap - FromOpen) + ClockTime * k
  <2>1. (vf * ClockTime + p * Ptap) - window.open \in Int /\ FromOpen \in Int
    BY <1>1, <1>7, Sizes
  <2>2. PICK n \in Int :
            (vf * ClockTime + p * Ptap) - window.open = FromOpen + ClockTime * n
    BY <1>8, <2>1, Sizes, ApartByMultiple
  <2>3. ClockTime * (vf - n) = vf * ClockTime - ClockTime * n /\ ClockTime * n \in Int
    BY <1>7, Sizes
  <2>4. window.open = (p * Ptap - FromOpen) + ClockTime * (vf - n)
    <3> DEFINE a == vf * ClockTime
               b == ClockTime * n
               c == p * Ptap
               e == ClockTime * (vf - n)
    <3>1. a \in Int /\ b \in Int /\ c \in Int /\ e = a - b
      BY <1>1, <1>7, <2>3
    <3>2. (a + c) - window.open = FromOpen + b
      BY <2>2
    <3> HIDE DEF a, b, c, e
    <3>3. window.open = (c - FromOpen) + e
      BY <1>7, <2>1, <3>1, <3>2
    <3> QED
      BY <3>3 DEF c, e
  <2> QED
    BY <1>7, <2>4, vf - n \in Int
<1>11. p > 1 => AfterPhase1
  <2> SUFFICES ASSUME p > 1 PROVE AfterPhase1
    OBVIOUS
  <2>1. FromOpen < Ptap
    BY <1>3 DEF Back
  <2>2. p * Ptap >= 2 * Ptap /\ p * Ptap <= IO_DQS_EN_PHASE_MAX * Ptap
    BY <1>1, Sizes DEF Phase
  <2>3. p * Ptap - FromOpen \in Ptap + 1 .. IO_DQS_EN_PHASE_MAX * Ptap
    BY <1>1, <1>5, <2>1, <2>2, Sizes
  <2>4. p * Ptap - FromOpen \in 0 .. ClockTime - 1
    BY <2>3, Sizes, Products
  <2>5. window.open % ClockTime = p * Ptap - FromOpen
    <3>1. window.open = ClockTime * k + (p * Ptap - FromOpen)
      <4>1. ClockTime * k \in Int
        BY Sizes, ProductInt
      <4> QED
        BY <1>10, <2>4, <4>1
    <3> QED
      BY <1>7, <2>4, <3>1, Sizes, ModIs
  <2> QED
    BY <2>3, <2>5 DEF AfterPhase1
<1>12. p = 1 => ~AfterPhase1 /\ work_bgn % ClockTime = Ptap
  <2> SUFFICES ASSUME p = 1 PROVE ~AfterPhase1 /\ work_bgn % ClockTime = Ptap
    OBVIOUS
  <2>1. p * Ptap = Ptap /\ ClockTime * k \in Int /\ ClockTime * (k - 1) = ClockTime * k - ClockTime
    BY Sizes
  <2>2. work_bgn % ClockTime = Ptap
    <3>1. work_bgn = ClockTime * i + Ptap /\ Ptap \in 0 .. ClockTime - 1 /\ i \in Int
      BY <1>1, <1>4, <2>1, Sizes
    <3> QED
      BY <1>1, <3>1, Sizes, ModIs
  <2>3. CASE FromOpen <= Ptap
    <3>1. Ptap - FromOpen \in 0 .. ClockTime - 1
      BY <1>5, <2>3, Sizes
    <3>2. window.open = ClockTime * k + (Ptap - FromOpen)
      BY <1>10, <2>1, <3>1
    <3>3. window.open % ClockTime = Ptap - FromOpen
      BY <1>7, <1>10, <3>1, <3>2, Sizes, ModIs
    <3> QED
      BY <2>2, <1>5, <3>3, Sizes DEF AfterPhase1
  <2>4. CASE FromOpen > Ptap
    <3>1. Ptap - FromOpen + ClockTime \in 0 .. ClockTime - 1
      BY <1>5, <2>4, Sizes
    <3>2. window.open = ClockTime * (k - 1) + (Ptap - FromOpen + ClockTime)
      BY <1>5, <1>10, <2>1, Sizes
    <3>3. window.open % ClockTime = Ptap - FromOpen + ClockTime
      BY <1>7, <1>10, <3>1, <3>2, Sizes, ModIs, k - 1 \in Int
    <3>4. ~(Ptap - FromOpen + ClockTime <= IO_DQS_EN_PHASE_MAX * Ptap)
      BY <1>5, Products, Sizes
    <3> QED
      BY <2>2, <3>3, <3>4 DEF AfterPhase1
  <2> QED
    BY <1>5, <2>2, <2>3, <2>4, Sizes
<1> QED
  BY <1>3, <1>9, <1>11, <1>12

(* Two phases on, or three where phase 0 lies between. *)
LEMMA SearchEndMoves ==
    ASSUME window \in Windows, window' = window, i' = i, i \in Nat,
           vf \in 0 .. VFIFO_SIZE - 1, p \in Phase, p < IO_DQS_EN_PHASE_MAX,
           d \in Nat, d * Dtap < Ptap, NEW end \in Nat, SearchEnd(p, end)
    PROVE  \/ /\ Stepped(2 * Ptap - d * Dtap) /\ work_end' = end + Ptap /\ j' = 0
              /\ Back' = Ptap /\ Gone' = i * ClockTime + p * Ptap + Ptap
           \/ /\ Stepped(3 * Ptap - d * Dtap) /\ work_end' = end + 2 * Ptap /\ j' = 1
              /\ Back' = 2 * Ptap /\ Gone' = i * ClockTime
<1>1. /\ p \in Int /\ p >= 1 /\ p * Ptap \in Int /\ d * Dtap \in Nat /\ i * ClockTime \in Nat
      /\ d' = 0 /\ pc' = "end" /\ d \in Int
  BY Sizes DEF SearchEnd, Phase
<1>2. (d' - d) * Dtap = -(d * Dtap)
  BY <1>1, Sizes
<1>3. CASE p + 2 > IO_DQS_EN_PHASE_MAX
  <2>1. IncrVfifo(1) /\ p' = 1 /\ j' = 1 /\ work_end' = end + 2 * Ptap
    BY <1>3 DEF SearchEnd
  <2>2. p * Ptap = ClockTime - 2 * Ptap
    <3>1. p = IO_DQS_EN_PHASE_MAX - 1
      BY <1>1, <1>3, Sizes
    <3>2. (IO_DQS_EN_PHASE_MAX - 1) * Ptap = IO_DQS_EN_PHASE_MAX * Ptap - Ptap
          /\ IO_DQS_EN_PHASE_MAX * Ptap \in Int
      BY OneMore, Sizes
    <3> QED
      BY <3>1, <3>2, Products, Sizes
  <2>3. (p' - p) * Ptap = 3 * Ptap - ClockTime
    <3>1. (1 - p) * Ptap = Ptap - p * Ptap
      BY <1>1, Sizes
    <3> QED
      BY <2>1, <2>2, <3>1, Sizes
  <2>4. 3 * Ptap - d * Dtap = ClockTime + (p' - p) * Ptap + (d' - d) * Dtap
    BY <1>1, <1>2, <2>3, Sizes
  <2>5. 3 * Ptap - d * Dtap \in -Ring .. Ring /\ p' \in Int /\ d' \in Int
    BY <1>1, <2>1, Sizes
  <2>6. Stepped(3 * Ptap - d * Dtap)
    BY <1>1, <2>1, <2>4, <2>5, StepOn
  <2>7. Gone' = i * ClockTime /\ Back' = 2 * Ptap
    BY <1>1, <2>1, Sizes DEF Gone, Back
  <2> QED
    BY <2>1, <2>6, <2>7
<1>4. CASE ~(p + 2 > IO_DQS_EN_PHASE_MAX)
  <2>1. vf' = vf /\ p' = p + 2 /\ j' = 0 /\ work_end' = end + Ptap
    BY <1>4 DEF SearchEnd
  <2>2. (p' - p) * Ptap = 2 * Ptap
    BY <1>1, <2>1, Sizes
  <2>3. 2 * Ptap - d * Dtap = (p' - p) * Ptap + (d' - d) * Dtap
    BY <1>1, <1>2, <2>2, Sizes
  <2>4. 2 * Ptap - d * Dtap \in -Ring .. Ring /\ p' \in Int /\ d' \in Int
    BY <1>1, <2>1, Sizes
  <2>5. Stepped(2 * Ptap - d * Dtap)
    BY <1>1, <2>1, <2>3, <2>4, StepInClock
  <2>6. Gone' = i * ClockTime + p * Ptap + Ptap /\ Back' = Ptap
    <3>1. (p' - 1) * Ptap = p * Ptap + Ptap
      BY <1>1, <2>1, OneMore
    <3> QED
      BY <1>1, <2>1, <3>1, Sizes DEF Gone, Back
  <2> QED
    BY <2>1, <2>5, <2>6
<1> QED
  BY <1>3, <1>4

(* The first working phase: back to the one before it, or, where that is
   phase 0, straight to the search of the end.                             *)
LEMMA BeginPhaseClear ==
    ASSUME Searching("begin"), BeginAtPhase
    PROVE  /\ pc' = "begin2" => Begin2Clear'
           /\ pc' = "end" => EndClear'
           /\ pc' \in {"begin2", "end"}
<1>1. /\ TypeOK /\ window \in Windows /\ StageOK /\ ClearOK
      /\ window.width \in Nat /\ window.width >= 4 * Ptap
      /\ window.width + 2 * ClockTime < Ring
      /\ vf \in 0 .. VFIFO_SIZE - 1 /\ p \in Int /\ p \in Phase /\ i \in Nat
      /\ FromOpen \in 0 .. Ring - 1 /\ work_bgn \in Nat
      /\ p * Ptap \in Int /\ i * ClockTime \in Nat
  BY InSearch
<1>2. ReadPasses /\ window' = window /\ i' = i /\ work_bgn' = work_bgn
  BY DEF BeginAtPhase
<1>3. /\ d = 0 /\ Late = FromOpen /\ FromOpen < Back
      /\ p > 1 => AfterPhase1
      /\ p = 1 => ~AfterPhase1 /\ work_bgn % ClockTime = Ptap
  BY <1>2, BeginMet
<1>4. FromOpen + Ring - Gone > window.width
  BY <1>1, <1>2 DEF Searching, ClearOK, BeginClear
<1>5. Gone = i * ClockTime + p * Ptap - Ptap
  BY <1>1, OneMore, Sizes DEF Gone
<1>6. Late' = Late /\ Skew' = Skew /\ (AfterPhase1' <=> AfterPhase1)
  BY <1>2 DEF Late, Skew, AfterPhase1
<1>7. CASE p > 1
  <2>1. pc' = "begin2" /\ p' = p - 1 /\ work_end' = work_bgn /\ vf' = vf /\ d' = 0
    BY <1>3, <1>7 DEF BeginAtPhase
  <2>2. FromOpen < Ptap
    BY <1>3, <1>7 DEF Back
  <2>3. Stepped(-Ptap)
    <3>1. (p' - p) * Ptap = -Ptap /\ (d' - d) * Dtap = 0
      BY <1>1, <1>3, <2>1, Sizes
    <3>2. -Ptap = (p' - p) * Ptap + (d' - d) * Dtap /\ -Ptap \in -Ring .. Ring
      BY <3>1, Sizes
    <3> QED
      BY <1>1, <1>2, <1>3, <2>1, <3>2, StepInClock
  <2>4. FromOpen' = FromOpen - Ptap + Ring
    BY <1>1, <2>2, <2>3, Sizes DEF Stepped
  <2>5. (work_end' - window'.open) % ClockTime = FromOpen
    BY <1>2, <1>3, <2>1 DEF Late
  <2>6. Ptap - d' * Dtap = Ptap
    BY <2>1, Sizes
  <2>7. p' * Ptap = p * Ptap - Ptap
    BY <1>1, <2>1, OneMore
  <2>8. FromOpen + Ring - i' * ClockTime - p' * Ptap > window'.width
    BY <1>1, <1>2, <1>4, <1>5, <2>7, Sizes
  <2>9. FromOpen - Ptap < Dtap /\ ~(FromOpen >= Ptap)
    BY <1>1, <2>2, Sizes
  <2>10. Begin2Clear'
    BY <1>3, <1>6, <1>7, <2>2, <2>4, <2>5, <2>6, <2>8, <2>9 DEF Begin2Clear
  <2> QED
    BY <2>1, <2>10
<1>8. CASE p = 1
  <2>1. SearchEnd(1, work_bgn) /\ pc' = "end"
    BY <1>8 DEF BeginAtPhase, SearchEnd
  <2>2. FromOpen < 2 * Ptap /\ Skew = Ptap
    BY <1>3, <1>8 DEF Back, Skew
  <2>3. d * Dtap = 0 /\ p * Ptap = Ptap
    BY <1>3, <1>8, Sizes
  <2>4. BeginMeasured'
    BY <1>2, <1>3, <1>6, <1>8, <2>2 DEF BeginMeasured
  <2>5. \/ /\ Stepped(2 * Ptap) /\ work_end' = work_bgn + Ptap /\ j' = 0
           /\ Back' = Ptap /\ Gone' = i * ClockTime + 2 * Ptap
        \/ /\ Stepped(3 * Ptap) /\ work_end' = work_bgn + 2 * Ptap /\ j' = 1
           /\ Back' = 2 * Ptap /\ Gone' = i * ClockTime
    <3>1. \/ /\ Stepped(2 * Ptap - d * Dtap) /\ work_end' = work_bgn + Ptap /\ j' = 0
             /\ Back' = Ptap /\ Gone' = i * ClockTime + p * Ptap + Ptap
          \/ /\ Stepped(3 * Ptap - d * Dtap) /\ work_end' = work_bgn + 2 * Ptap /\ j' = 1
             /\ Back' = 2 * Ptap /\ Gone' = i * ClockTime
      <4>1. p < IO_DQS_EN_PHASE_MAX /\ d \in Nat /\ d * Dtap < Ptap
        BY <1>3, <1>8, <2>3, Sizes
      <4> QED
        BY <1>1, <1>2, <1>8, <2>1, <4>1, SearchEndMoves
    <3>2. 2 * Ptap - d * Dtap = 2 * Ptap /\ 3 * Ptap - d * Dtap = 3 * Ptap
          /\ i * ClockTime + p * Ptap + Ptap = i * ClockTime + 2 * Ptap
      BY <1>1, <2>3, Sizes
    <3> QED
      BY <3>1, <3>2
  <2>6. EndCounted' /\ FromOpen' - Back' \in 0 .. window.width
        /\ (j' = 0 => FromOpen' <= window.width)
        /\ FromOpen' + Ring - Gone' > window.width
        /\ (ReadPasses' <=> FromOpen' <= window.width)
    BY <1>1, <1>2, <1>3, <1>4, <1>5, <1>6, <2>2, <2>3, <2>5, Sizes DEF Stepped, EndCounted
  <2> QED
    BY <1>2, <2>1, <2>4, <2>6 DEF EndClear
<1> QED
  BY <1>1, <1>7, <1>8, Sizes DEF Phase

(* Step 3a: the delays of the phase before the begin.  The begin is taken
   at the first that passes, or at the phase itself, which is less than a
   tap later than the last one tried: the delay chain reaches over a phase. *)
LEMMA BeginDelayClear ==
    ASSUME Searching("begin2"), BeginDelay
    PROVE  /\ pc' = "begin2" => Begin2Clear'
           /\ pc' = "end" => EndClear'
           /\ pc' \in {"begin2", "end"}
<1> DEFINE late == (work_end - window.open) % ClockTime
           left == Ptap - d * Dtap
           more == d < IO_DQS_EN_DELAY_MAX /\ work_end - Ptap + d * Dtap + Dtap < work_end
<1>1. /\ TypeOK /\ window \in Windows /\ StageOK /\ ClearOK
      /\ window.width \in Nat /\ window.width >= 4 * Ptap
      /\ window.width + 2 * ClockTime < Ring
      /\ vf \in 0 .. VFIFO_SIZE - 1 /\ p \in Int /\ p \in Phase /\ i \in Nat /\ d \in Nat
      /\ FromOpen \in 0 .. Ring - 1 /\ work_bgn \in Nat /\ work_end \in Nat
      /\ (ReadPasses <=> FromOpen <= window.width)
      /\ p * Ptap \in Int /\ i * ClockTime \in Nat /\ d * Dtap \in Nat
  BY InSearch
<1>2. /\ window' = window /\ i' = i
      /\ p < IO_DQS_EN_PHASE_MAX /\ d <= IO_DQS_EN_DELAY_MAX /\ d * Dtap < Ptap
      /\ work_bgn = work_end
  BY <1>1 DEF BeginDelay, Searching, StageOK
<1>3. late \in 0 .. ClockTime - 1 /\ left \in 1 .. Ptap
  <2>1. work_end - window.open \in Int
    BY <1>1, WindowIs
  <2> QED
    BY <1>1, <1>2, <2>1, Sizes, DivMod
<1>4. /\ AfterPhase1 /\ late < Ptap /\ late - left < Dtap
      /\ FromOpen = IF late >= left THEN late - left ELSE late - left + Ring
      /\ late + Ring - i * ClockTime - p * Ptap > window.width
  BY <1>1 DEF Searching, ClearOK, Begin2Clear
<1>5. ReadPasses <=> late >= left
  BY <1>1, <1>3, <1>4, Sizes
<1>6. (d + 1) * Dtap = d * Dtap + Dtap /\ d * Dtap >= 0
  BY <1>1, OneMore
<1>7. AfterPhase1' /\ Skew' = 0
  BY <1>2, <1>4 DEF AfterPhase1, Skew
<1>8. work_bgn' = IF ReadPasses THEN work_end - left ELSE work_end
  <2>1. work_bgn' = IF ReadPasses THEN work_end - Ptap + d * Dtap ELSE work_bgn
    BY DEF BeginDelay
  <2>2. work_end - Ptap + d * Dtap = work_end - left
    BY <1>1, Sizes
  <2> QED
    BY <1>2, <2>1, <2>2
<1>9. CASE ~ReadPasses /\ more
  <2>1. d' = d + 1 /\ UNCHANGED <<pc, vf, p, j, work_end>>
    BY <1>9 DEF BeginDelay
  <2>2. Stepped(Dtap)
    <3>1. Dtap = (p' - p) * Ptap + (d' - d) * Dtap /\ Dtap \in -Ring .. Ring
      BY <1>1, <2>1, Sizes
    <3> QED
      BY <1>1, <1>2, <2>1, <3>1, StepInClock
  <2>3. Ptap - d' * Dtap = left - Dtap
    BY <1>1, <1>6, <2>1, Sizes
  <2>4. (work_end' - window'.open) % ClockTime = late
    BY <1>2, <2>1
  <2> HIDE DEF late, left
  <2>5. FromOpen' = IF late >= left - Dtap THEN late - (left - Dtap)
                    ELSE late - (left - Dtap) + Ring
    BY <1>1, <1>3, <1>4, <1>5, <1>9, <2>2, Sizes DEF Stepped
  <2>6. late - (left - Dtap) < Dtap
    BY <1>3, <1>5, <1>9, Sizes
  <2>7. Begin2Clear'
    BY <1>2, <1>4, <1>7, <2>1, <2>3, <2>4, <2>5, <2>6 DEF Begin2Clear
  <2> QED
    BY <2>1, <2>7 DEF BeginDelay
<1>10. CASE ~(~ReadPasses /\ more)
  <2>1. SearchEnd(p, work_end) /\ pc' = "end"
    BY <1>10 DEF BeginDelay, SearchEnd
  <2>2. Late' \in 0 .. Dtap - 1 /\ Late' + (work_end - work_bgn') = late
    <3>1. CASE ReadPasses
      <4>1. work_bgn' - window'.open = (work_end - window.open) + (-left)
            /\ work_end - window.open \in Int /\ -left \in Int
        BY <1>1, <1>2, <1>3, <1>8, <3>1, WindowIs
      <4>2. Late' = (late + (-left)) % ClockTime
        BY <4>1, Sizes, AddInsideMod DEF Late
      <4> HIDE DEF late, left
      <4>3. (late + (-left)) % ClockTime = late - left
        <5>1. late + (-left) = ClockTime * 0 + (late - left) /\ late + (-left) \in Int
              /\ late - left \in 0 .. ClockTime - 1
          BY <1>3, <1>5, <3>1, Sizes
        <5> QED
          BY <5>1, Sizes, ModIs, 0 \in Int
      <4> QED
        BY <1>1, <1>3, <1>4, <1>5, <1>8, <3>1, <4>2, <4>3, Sizes
    <3>2. CASE ~ReadPasses
      <4>1. Late' = late /\ work_bgn' = work_end
        BY <1>2, <1>8, <3>2 DEF Late
      <4>2. left <= Dtap
        <5>1. d /= IO_DQS_EN_DELAY_MAX
          <6> SUFFICES ASSUME d = IO_DQS_EN_DELAY_MAX PROVE FALSE
            OBVIOUS
          <6>1. d * Dtap >= Ptap
            BY Products
          <6> QED
            BY <1>1, <1>2, <6>1, Sizes
        <5>2. ~(work_end - Ptap + d * Dtap + Dtap < work_end)
          BY <1>1, <1>2, <1>10, <3>2, <5>1, Sizes
        <5> QED
          BY <1>1, <5>2, Sizes
      <4> HIDE DEF late, left
      <4> QED
        BY <1>1, <1>3, <1>5, <3>2, <4>1, <4>2, Sizes
    <3> QED
      BY <3>1, <3>2
  <2>3. \/ /\ Stepped(2 * Ptap - d * Dtap) /\ work_end' = work_end + Ptap /\ j' = 0
           /\ Back' = Ptap /\ Gone' = i * ClockTime + p * Ptap + Ptap
        \/ /\ Stepped(3 * Ptap - d * Dtap) /\ work_end' = work_end + 2 * Ptap /\ j' = 1
           /\ Back' = 2 * Ptap /\ Gone' = i * ClockTime
    BY <1>1, <1>2, <2>1, SearchEndMoves
  <2>4. 2 * Ptap - d * Dtap = left + Ptap /\ 3 * Ptap - d * Dtap = left + 2 * Ptap
    BY <1>1, Sizes
  <2> HIDE DEF late, left
  <2>5. \/ /\ FromOpen' = late + Ptap /\ work_end' = work_end + Ptap /\ j' = 0
           /\ Back' = Ptap /\ Gone' = i * ClockTime + p * Ptap + Ptap
        \/ /\ FromOpen' = late + 2 * Ptap /\ work_end' = work_end + 2 * Ptap /\ j' = 1
           /\ Back' = 2 * Ptap /\ Gone' = i * ClockTime
    BY <1>1, <1>3, <1>4, <2>3, <2>4, Sizes DEF Stepped
  <2>6. ReadPasses' <=> FromOpen' <= window.width
    BY <2>3 DEF Stepped
  <2>7. BeginMeasured'
    BY <1>7, <2>2, Sizes DEF BeginMeasured
  <2>8. work_bgn' \in Int
    BY <1>1, <1>3, <1>8
  <2>9. EndCounted'
    <3>1. work_end' \in Int /\ FromOpen' = late + (work_end' - work_end)
      BY <1>1, <1>3, <2>5, Sizes
    <3>2. late \in Int /\ Late' \in Int /\ work_end \in Int
      BY <1>1, <1>3, <2>2, Sizes
    <3>3. FromOpen' = (work_end' - work_bgn') + Late' + 0
      <4> DEFINE a == Late'
                 b == work_bgn'
                 c == work_end'
                 f == FromOpen'
      <4>1. a \in Int /\ b \in Int /\ c \in Int /\ work_end \in Int /\ late \in Int
        BY <2>8, <3>1, <3>2
      <4>2. a + (work_end - b) = late /\ f = late + (c - work_end)
        BY <2>2, <3>1
      <4> HIDE DEF a, b, c, f
      <4>3. f = (c - b) + a + 0
        BY <4>1, <4>2
      <4> QED
        BY <4>3 DEF a, b, c, f
    <3> QED
      BY <1>7, <3>3 DEF EndCounted
  <2>10. FromOpen' - Back' \in 0 .. window.width
         /\ (j' = 0 => FromOpen' <= window.width)
         /\ FromOpen' + Ring - Gone' > window.width
    <3> DEFINE c == i * ClockTime
               q == p * Ptap
    <3>1. c \in Nat /\ q \in Int /\ late + Ring - c - q > window.width
      BY <1>1, <1>4
    <3>2. q >= Ptap
      BY <1>1, Sizes DEF Phase
    <3>3. \/ /\ FromOpen' = late + Ptap /\ j' = 0 /\ Back' = Ptap /\ Gone' = c + q + Ptap
          \/ /\ FromOpen' = late + 2 * Ptap /\ j' = 1 /\ Back' = 2 * Ptap /\ Gone' = c
      BY <2>5
    <3>4. late \in Nat /\ late < Ptap
      BY <1>3, <1>4, Sizes
    <3> HIDE DEF c, q
    <3> QED
      BY <1>1, <3>1, <3>2, <3>3, <3>4, Sizes
  <2> QED
    BY <1>2, <2>1, <2>6, <2>7, <2>9, <2>10 DEF EndClear
<1> QED
  BY <1>9, <1>10

(* Step 4a: the end of the window comes before the gate is around. *)
LEMMA EndPhaseClear ==
    ASSUME Searching("end"), EndContinues
    PROVE  pc' = "end" /\ EndClear'
<1>1. /\ TypeOK /\ window \in Windows /\ StageOK /\ ClearOK
      /\ window.width \in Nat /\ window.width >= 4 * Ptap
      /\ window.width + 2 * ClockTime < Ring
      /\ vf \in 0 .. VFIFO_SIZE - 1 /\ p \in Int /\ p \in Phase /\ i \in Nat
      /\ FromOpen \in 0 .. Ring - 1 /\ work_bgn \in Nat /\ work_end \in Nat
      /\ (ReadPasses <=> FromOpen <= window.width)
      /\ p * Ptap \in Int /\ i * ClockTime \in Nat
  BY InSearch
<1>2. EndClear /\ d = 0 /\ i <= VFIFO_SIZE /\ pc = "end"
  BY <1>1 DEF Searching, ClearOK, StageOK
<1>3. ReadPasses /\ FromOpen <= window.width
  BY <1>1, <1>2 DEF EndContinues, EndClear
<1>4. window' = window /\ work_bgn' = work_bgn /\ d' = d
  BY <1>3 DEF EndContinues
<1>5. Late' = Late /\ Skew' = Skew /\ BeginMeasured'
  BY <1>2, <1>4 DEF EndClear, Late, Skew, AfterPhase1, BeginMeasured
<1>6. Late \in Int /\ Skew \in Int
  <2>1. work_bgn - window.open \in Int
    BY <1>1, WindowIs
  <2> QED
    BY <2>1, Sizes, DivMod DEF Late, Skew
<1>7. Gone = i * ClockTime + p * Ptap - Ptap
  BY <1>1, OneMore, Sizes DEF Gone
<1>8. CASE p < IO_DQS_EN_PHASE_MAX
  <2>1. p' = p + 1 /\ work_end' = work_end + Ptap /\ j' = j + 1 /\ vf' = vf /\ i' = i /\ pc' = pc
    BY <1>8 DEF EndContinues
  <2>2. Stepped(Ptap)
    <3>1. Ptap = (p' - p) * Ptap + (d' - d) * Dtap /\ Ptap \in -Ring .. Ring
      BY <1>1, <1>2, <1>4, <2>1, Sizes
    <3> QED
      BY <1>1, <1>2, <1>4, <2>1, <3>1, StepInClock
  <2>3. Back' = Ptap /\ Gone' = Gone + Ptap
    BY <1>1, <1>7, <2>1, OneMore, Sizes DEF Back, Gone, Phase
  <2>4. FromOpen' = FromOpen + Ptap
    BY <1>1, <1>3, <2>2, Sizes DEF Stepped
  <2>5. j' /= 0
    BY <1>1, <2>1 DEF TypeOK
  <2>6. EndCounted'
    BY <1>1, <1>2, <1>4, <1>5, <1>6, <2>1, <2>4, Sizes DEF EndClear, EndCounted
  <2>7. FromOpen' - Back' \in 0 .. window.width /\ FromOpen' + Ring - Gone' > window.width
    BY <1>1, <1>2, <1>3, <1>7, <2>3, <2>4, Sizes DEF EndClear
  <2> QED
    BY <1>2, <1>4, <1>5, <2>1, <2>5, <2>6, <2>7 DEF EndClear
<1>9. CASE ~(p < IO_DQS_EN_PHASE_MAX)
  <2>1. p * Ptap = ClockTime - Ptap
    <3>1. p = IO_DQS_EN_PHASE_MAX
      BY <1>1, <1>9, Sizes DEF Phase
    <3> QED
      BY <1>1, <3>1, Products, Sizes
  <2>2. i /= VFIFO_SIZE
    <3> SUFFICES ASSUME i = VFIFO_SIZE PROVE FALSE
      OBVIOUS
    <3>1. i * ClockTime = Ring
      BY Products
    <3> QED
      BY <1>1, <1>2, <1>3, <1>7, <2>1, <3>1, Sizes DEF EndClear
  <2>3. /\ IncrVfifo(1) /\ i' = i + 1 /\ p' = 1 /\ work_end' = work_end + 2 * Ptap
        /\ j' = j + 2 /\ pc' = pc
    BY <1>9, <2>2 DEF EndContinues
  <2>4. Stepped(2 * Ptap)
    <3>1. (p' - p) * Ptap = 2 * Ptap - ClockTime
      BY <1>1, <2>1, <2>3, OneMore, Sizes
    <3>2. 2 * Ptap = ClockTime + (p' - p) * Ptap + (d' - d) * Dtap
      BY <1>2, <1>4, <3>1, Sizes
    <3>3. 2 * Ptap \in -Ring .. Ring /\ p' \in Int /\ d' \in Int /\ d \in Int
      BY <1>1, <1>2, <1>4, <2>3, Sizes
    <3> QED
      BY <1>1, <1>4, <2>3, <3>2, <3>3, StepOn
  <2>5. Gone' = Gone + 2 * Ptap /\ Back' = 2 * Ptap
    <3>1. (i + 1) * ClockTime = i * ClockTime + ClockTime
      BY <1>1, Sizes
    <3>2. Gone' = (i + 1) * ClockTime
      BY <2>3, <3>1, <1>1, Sizes DEF Gone
    <3> QED
      BY <1>1, <1>7, <2>1, <2>3, <3>1, <3>2, Sizes DEF Back
  <2>6. FromOpen' = FromOpen + 2 * Ptap
    BY <1>1, <1>3, <2>4, Sizes DEF Stepped
  <2>7. j' /= 0
    BY <1>1, <2>3 DEF TypeOK
  <2>8. EndCounted'
    BY <1>1, <1>2, <1>4, <1>5, <1>6, <2>3, <2>6, Sizes DEF EndClear, EndCounted
  <2>9. FromOpen' - Back' \in 0 .. window.width /\ FromOpen' + Ring - Gone' > window.width
    BY <1>1, <1>2, <1>3, <1>7, <2>5, <2>6, Sizes DEF EndClear
  <2> QED
    BY <1>2, <1>4, <1>5, <2>3, <2>7, <2>8, <2>9 DEF EndClear
<1> QED
  BY <1>8, <1>9

(* Step 5a: back to the last phase that passes. *)
LEMMA EndFoundClear ==
    ASSUME Searching("end"), EndFound
    PROVE  pc' = "end2" /\ End2Clear'
<1>1. /\ TypeOK /\ window \in Windows /\ StageOK /\ ClearOK
      /\ window.width \in Nat /\ window.width >= 4 * Ptap
      /\ window.width + 2 * ClockTime < Ring
      /\ vf \in 0 .. VFIFO_SIZE - 1 /\ p \in Int /\ p \in Phase
      /\ FromOpen \in 0 .. Ring - 1 /\ work_bgn \in Nat /\ work_end \in Nat
      /\ (ReadPasses <=> FromOpen <= window.width) /\ p * Ptap \in Int
  BY InSearch
<1>2. EndClear /\ d = 0
  BY <1>1 DEF Searching, ClearOK, StageOK
<1>3. /\ FromOpen > window.width /\ window' = window /\ work_bgn' = work_bgn /\ d' = d
      /\ pc' = "end2"
  BY <1>1 DEF EndFound
<1>4. Late' = Late /\ Skew' = Skew /\ BeginMeasured'
  BY <1>2, <1>3 DEF EndClear, Late, Skew, AfterPhase1, BeginMeasured
<1>5. Late \in Int /\ Skew \in Int
  <2>1. work_bgn - window.open \in Int
    BY <1>1, WindowIs
  <2> QED
    BY <2>1, Sizes, DivMod DEF Late, Skew
<1>6. Stepped(-Back) /\ work_end' = work_end - Back /\ Back \in 0 .. 2 * Ptap
  <2>1. CASE p = 1
    <3>1. DecrVfifo /\ p' = IO_DQS_EN_PHASE_MAX /\ work_end' = work_end - 2 * Ptap
      BY <2>1 DEF EndFound
    <3>2. (p' - p) * Ptap = ClockTime - 2 * Ptap
      <4>1. (IO_DQS_EN_PHASE_MAX - 1) * Ptap = IO_DQS_EN_PHASE_MAX * Ptap - Ptap
            /\ IO_DQS_EN_PHASE_MAX * Ptap \in Int
        BY OneMore, Sizes
      <4> QED
        BY <2>1, <3>1, <4>1, Products, Sizes
    <3>3. -(2 * Ptap) = (p' - p) * Ptap + (d' - d) * Dtap - ClockTime
      BY <1>2, <1>3, <3>2, Sizes
    <3>4. -(2 * Ptap) \in -Ring .. Ring /\ p' \in Int /\ d' \in Int /\ d \in Int
      BY <1>2, <1>3, <3>1, Sizes
    <3>5. Stepped(-(2 * Ptap))
      BY <1>1, <1>3, <3>1, <3>3, <3>4, StepBack
    <3> QED
      BY <2>1, <3>1, <3>5, Sizes DEF Back
  <2>2. CASE p /= 1
    <3>1. p' = p - 1 /\ vf' = vf /\ work_end' = work_end - Ptap
      BY <2>2 DEF EndFound
    <3>2. -Ptap = (p' - p) * Ptap + (d' - d) * Dtap /\ -Ptap \in -Ring .. Ring
      BY <1>1, <1>2, <1>3, <3>1, Sizes
    <3>3. Stepped(-Ptap)
      BY <1>1, <1>2, <1>3, <3>1, <3>2, StepInClock
    <3> QED
      BY <2>2, <3>1, <3>3, Sizes DEF Back
  <2> QED
    BY <2>1, <2>2
<1>7. /\ FromOpen' = FromOpen - Back /\ FromOpen - Back \in 0 .. window.width
      /\ (ReadPasses' <=> FromOpen' <= window.width)
  BY <1>1, <1>2, <1>6, Sizes DEF Stepped, EndClear
<1>8. EndCounted'
  BY <1>1, <1>2, <1>3, <1>4, <1>5, <1>6, <1>7, Sizes DEF EndClear, EndCounted
<1>9. d' * Dtap = 0 /\ FromOpen' - 0 = FromOpen' /\ FromOpen' + 2 * Ptap > window.width
  BY <1>1, <1>2, <1>3, <1>6, <1>7, Sizes
<1> QED
  BY <1>2, <1>3, <1>4, <1>7, <1>8, <1>9, Sizes DEF End2Clear

(* Its delays: the end is before the first that fails; when none does, it is
   less than a phase after the last.                                       *)
LEMMA EndDelayClear ==
    ASSUME Searching("end2"), EndDelay
    PROVE  /\ pc' = "end2" => End2Clear'
           /\ pc' = "track" => Measured'
           /\ pc' \in {"end2", "track"}
<1>1. /\ TypeOK /\ window \in Windows /\ StageOK /\ ClearOK
      /\ window.width \in Nat /\ window.width >= 4 * Ptap
      /\ window.width + 2 * ClockTime < Ring
      /\ vf \in 0 .. VFIFO_SIZE - 1 /\ p \in Int /\ p \in Phase /\ d \in Nat
      /\ FromOpen \in 0 .. Ring - 1 /\ work_bgn \in Nat /\ work_end \in Nat
      /\ (ReadPasses <=> FromOpen <= window.width) /\ d * Dtap \in Nat
  BY InSearch
<1>2. End2Clear /\ d <= IO_DQS_EN_DELAY_MAX /\ pc = "end2"
  BY <1>1 DEF Searching, ClearOK, StageOK
<1>3. window' = window /\ work_bgn' = work_bgn
  BY DEF EndDelay
<1>4. Late' = Late /\ Skew' = Skew /\ BeginMeasured'
  BY <1>2, <1>3 DEF End2Clear, Late, Skew, AfterPhase1, BeginMeasured
<1>5. Late \in Nat /\ Skew \in Nat /\ Late + Skew < 3 * Ptap
  <2>1. work_bgn - window.open \in Int
    BY <1>1, WindowIs
  <2>2. Late \in Nat
    BY <2>1, Sizes, DivMod DEF Late
  <2>3. BeginMeasured
    BY <1>2 DEF End2Clear
  <2>4. CASE AfterPhase1
    BY <2>2, <2>3, <2>4, Sizes DEF BeginMeasured, Skew
  <2>5. CASE ~AfterPhase1
    BY <2>2, <2>3, <2>5, Sizes DEF BeginMeasured, Skew
  <2> QED
    BY <2>4, <2>5
<1>6. FromOpen = (work_end - work_bgn) + Late + Skew
  BY <1>2 DEF End2Clear, EndCounted
<1>7. ASSUME NEW failing \in Nat, NEW end \in Nat, failing /= 0, RangeFound(failing, end),
             window.width - (FromOpen + (end - Dtap - work_end)) \in 0 .. Ptap - 1
      PROVE  pc' = "track" /\ Measured'
  <2>1. work_end' = end - Dtap
    BY <1>7 DEF RangeFound
  <2>2. work_end' >= work_bgn
    BY <1>1, <1>5, <1>6, <1>7, <2>1, Sizes
  <2>3. pc' = "track"
    BY <1>7, <2>1, <2>2 DEF RangeFound
  <2>4. window.width - (work_end' - work_bgn) - Late - Skew \in 0 .. Ptap - 1
    BY <1>1, <1>5, <1>6, <1>7, <2>1, Sizes
  <2> QED
    BY <1>3, <1>4, <2>3, <2>4 DEF Measured
<1>8. CASE ~ReadPasses
  <2>1. RangeFound(d, work_end)
    BY <1>8 DEF EndDelay
  <2>2. d /= 0 /\ FromOpen - Dtap <= window.width /\ FromOpen > window.width
    BY <1>1, <1>2, <1>8 DEF End2Clear
  <2>3. window.width - (FromOpen + (work_end - Dtap - work_end)) \in 0 .. Ptap - 1
    BY <1>1, <2>2, Sizes
  <2> QED
    BY <1>1, <1>7, <2>1, <2>2, <2>3
<1>9. CASE ReadPasses /\ d = IO_DQS_EN_DELAY_MAX
  <2>1. RangeFound(d + 1, work_end + Dtap)
    BY <1>9 DEF EndDelay
  <2>2. d * Dtap >= Ptap
    BY <1>9, Products
  <2>3. FromOpen - d * Dtap + 2 * Ptap > window.width /\ FromOpen <= window.width
    BY <1>1, <1>2, <1>9 DEF End2Clear
  <2>4. window.width - (FromOpen + ((work_end + Dtap) - Dtap - work_end)) \in 0 .. Ptap - 1
    BY <1>1, <2>2, <2>3, Sizes
  <2>5. d + 1 \in Nat /\ d + 1 /= 0 /\ work_end + Dtap \in Nat
    BY <1>1, Sizes
  <2> QED
    BY <1>7, <2>1, <2>4, <2>5
<1>10. CASE ReadPasses /\ d /= IO_DQS_EN_DELAY_MAX
  <2>1. d' = d + 1 /\ work_end' = work_end + Dtap /\ pc' = pc /\ vf' = vf /\ p' = p
    BY <1>10 DEF EndDelay
  <2>2. Stepped(Dtap)
    <3>1. Dtap = (p' - p) * Ptap + (d' - d) * Dtap /\ Dtap \in -Ring .. Ring
      BY <1>1, <2>1, Sizes
    <3> QED
      BY <1>1, <1>3, <2>1, <3>1, StepInClock
  <2>3. d' * Dtap = d * Dtap + Dtap
    BY <1>1, <2>1, OneMore
  <2>4. FromOpen' = FromOpen + Dtap
    BY <1>1, <1>10, <2>2, Sizes DEF Stepped
  <2>5. EndCounted'
    BY <1>1, <1>3, <1>4, <1>5, <1>6, <2>1, <2>4, Sizes DEF EndCounted
  <2>6. FromOpen' - d' * Dtap = FromOpen - d * Dtap /\ FromOpen' - Dtap <= window.width
    BY <1>1, <1>10, <2>3, <2>4, Sizes
  <2>7. d' /= 0
    BY <1>1, <2>1
  <2>8. End2Clear'
    BY <1>2, <1>3, <1>4, <2>5, <2>6, <2>7 DEF End2Clear
  <2> QED
    BY <1>2, <2>1, <2>8
<1> QED
  BY <1>8, <1>9, <1>10

(* More multiples of a clock are at least a clock more. *)
LEMMA ClocksApart ==
    ASSUME NEW k \in Int, NEW a \in Int
    PROVE  /\ ClockTime * k \in Int /\ ClockTime * a \in Int
           /\ k = a \/ ClockTime * k >= ClockTime * a + ClockTime
                    \/ ClockTime * a >= ClockTime * k + ClockTime
           /\ k > a => ClockTime * k >= ClockTime * a + ClockTime
<1>1. ClockTime * k \in Int /\ ClockTime * a \in Int
  BY Sizes, ProductInt
<1>2. ASSUME NEW x \in Int, NEW y \in Int, x > y
      PROVE  ClockTime * x >= ClockTime * y + ClockTime
  <2>1. x >= y + 1 /\ y + 1 \in Int
    BY <1>2
  <2>2. ClockTime * x >= ClockTime * (y + 1)
    BY <2>1, Sizes
  <2>3. ClockTime * (y + 1) = ClockTime * y + ClockTime
    BY Sizes
  <2> QED
    BY <2>2, <2>3
<1>3. k = a \/ k > a \/ a > k
  OBVIOUS
<1> QED
  BY <1>1, <1>2, <1>3

(* A time over the middle by less than a tap, or less than a phase in phase
   0, is in the middle of the window: what the begin is late and the end is
   early add up to less than the tolerance.                                *)
LEMMA MiddleIs ==
    ASSUME window \in Windows, ClearWindow, Measured, TypeOK, work_bgn <= work_end,
           NEW mid \in Int, 2 * mid \in {work_bgn + work_end, work_bgn + work_end - 1},
           NEW m \in 1 .. ClockTime, NEW k \in Int, mid = m + ClockTime * k,
           NEW over \in Nat,
           \/ m <= Ptap /\ over = Ptap - m
           \/ m > Ptap /\ over < Dtap
    PROVE  InMiddle((mid + over - work_bgn) + Late)
<1> DEFINE t == (mid + over - work_bgn) + Late
           e == 2 * t - window.width
           early == window.width - (work_end - work_bgn) - Late - Skew
<1>1. /\ window.width \in Nat /\ window.width >= 4 * Ptap /\ window.open \in Int
      /\ work_bgn \in Nat /\ work_end \in Nat
  BY WindowFits, WindowIs DEF TypeOK
<1>2. Late \in 0 .. ClockTime - 1
  <2>1. work_bgn - window.open \in Int
    BY <1>1
  <2> QED
    BY <2>1, Sizes, DivMod DEF Late
<1>3. /\ early \in 0 .. Ptap - 1
      /\ \/ AfterPhase1 /\ Skew = 0 /\ Late < Dtap
         \/ ~AfterPhase1 /\ Skew = Ptap /\ Late < 2 * Ptap /\ work_bgn % ClockTime = Ptap
  BY DEF Measured, BeginMeasured, Skew
<1>4. over \in 0 .. Ptap - 1
  BY Sizes
<1>5. \/ e = Late - Skew - early + 2 * over
      \/ e = Late - Skew - early + 2 * over - 1
  <2> DEFINE L == Late
             s == Skew
             c == early
  <2>1. /\ L \in Int /\ s \in Int /\ c \in Int
        /\ c = window.width - (work_end - work_bgn) - L - s
        /\ t = (mid + over - work_bgn) + L /\ e = 2 * t - window.width
    BY <1>1, <1>2, <1>3, Sizes
  <2> HIDE DEF L, s, c, t, e
  <2>2. \/ e = L - s - c + 2 * over
        \/ e = L - s - c + 2 * over - 1
    BY <1>1, <2>1
  <2> QED
    BY <2>2 DEF L, s, c
<1>6. t \in Int /\ e \in Int /\ e = 2 * t - window.width /\ early \in Int /\ Skew \in Int
  BY <1>1, <1>2, <1>3, Sizes
<1>7. e >= -2 * Ptap /\ e < 3 * Ptap
  <2> HIDE DEF e, t, early
  <2> QED
    BY <1>2, <1>3, <1>4, <1>5, <1>6, Sizes
<1>8. t \in 0 .. window.width
  <2> HIDE DEF e, t, early
  <2> QED
    BY <1>1, <1>6, <1>7, Sizes
<1>9. ASSUME NarrowWindow
      PROVE  /\ t < ClockTime /\ t + ClockTime > window.width
             /\ e \in -2 * Ptap .. 2 * Ptap + Dtap
  <2>1. window.width < 2 * ClockTime - 2 * Ptap
    BY <1>9, Sizes DEF NarrowWindow
  <2>2. t + ClockTime > window.width
    <3> HIDE DEF e, t, early
    <3> QED
      BY <1>1, <1>6, <1>7, <2>1, Sizes
  <2>3. ASSUME e <= 2 * Ptap PROVE t < ClockTime /\ e \in -2 * Ptap .. 2 * Ptap + Dtap
    <3> HIDE DEF e, t, early
    <3> QED
      BY <1>1, <1>6, <1>7, <2>1, <2>3, Sizes
  <2>4. CASE m > Ptap
    <3>1. over < Dtap
      BY <2>4, Sizes
    <3> HIDE DEF e, t, early
    <3>2. e <= 2 * Ptap
      BY <1>2, <1>3, <1>5, <1>6, <3>1, Sizes
    <3> QED
      BY <2>2, <2>3, <3>2
  <2>5. CASE m <= Ptap /\ ~AfterPhase1
    <3>1. over = Ptap - m
      BY <2>5, Sizes
    <3>2. m = Ptap
      <4> DEFINE a == work_bgn \div ClockTime
      <4>1. a \in Int /\ work_bgn = ClockTime * a + Ptap
        BY <1>1, <1>3, <2>5, Sizes, DivMod
      <4> HIDE DEF a
      <4>2. mid >= work_bgn
        BY <1>1
      <4>3. ClockTime * k \in Int /\ ClockTime * a \in Int
            /\ (k = a \/ ClockTime * k >= ClockTime * a + ClockTime
                      \/ ClockTime * a >= ClockTime * k + ClockTime)
        BY <4>1, ClocksApart
      <4>4. 2 * (mid - work_bgn) <= window.width - Ptap
        BY <1>1, <1>2, <1>3, <2>5, Sizes
      <4>5. m + ClockTime * k >= ClockTime * a + Ptap
        BY <4>1, <4>2
      <4>6. 2 * ((m + ClockTime * k) - (ClockTime * a + Ptap)) <= window.width - Ptap
        BY <4>1, <4>4
      <4> DEFINE x == ClockTime * k
                 y == ClockTime * a
      <4>7. /\ x \in Int /\ y \in Int
            /\ x = y \/ x >= y + ClockTime \/ y >= x + ClockTime
            /\ m + x >= y + Ptap /\ 2 * ((m + x) - (y + Ptap)) <= window.width - Ptap
        BY <4>3, <4>5, <4>6
      <4> HIDE DEF x, y
      <4> QED
        BY <1>1, <2>1, <2>5, <4>7, Sizes
    <3>3. over = 0
      BY <3>1, <3>2, Sizes
    <3> HIDE DEF e, t, early
    <3>4. e <= 2 * Ptap
      BY <1>2, <1>3, <1>5, <1>6, <2>5, <3>3, Sizes
    <3> QED
      BY <2>2, <2>3, <3>4
  <2>6. CASE m <= Ptap /\ AfterPhase1
    <3>1. over = Ptap - m
      BY <2>6, Sizes
    <3>2. e \in -2 * Ptap .. 2 * Ptap + Dtap
      <4> HIDE DEF e, t, early
      <4> QED
        BY <1>2, <1>3, <1>4, <1>5, <1>6, <1>7, <2>6, Sizes
    <3> DEFINE o == window.open % ClockTime
               n == window.open \div ClockTime
               q == (work_bgn - window.open) \div ClockTime
    <3>3. /\ o \in Int /\ n \in Int /\ window.open = ClockTime * n + o
          /\ o > Ptap /\ o <= ClockTime - Ptap
      <4>1. o \in Ptap + 1 .. ClockTime - Ptap
        BY <2>6, Sizes, Products DEF AfterPhase1
      <4> QED
        BY <1>1, <4>1, Sizes, DivMod
    <3>4. q \in Int /\ work_bgn - window.open = ClockTime * q + Late
      <4>1. work_bgn - window.open \in Int
        BY <1>1
      <4> QED
        BY <4>1, Sizes, DivMod DEF Late
    <3> HIDE DEF o, n, q
    <3>5. ClockTime * (n + q) = ClockTime * n + ClockTime * q /\ n + q \in Int
          /\ ClockTime * n \in Int /\ ClockTime * q \in Int
      BY <3>3, <3>4, Sizes
    <3>6. t = (Ptap - o) + (ClockTime * k - ClockTime * (n + q))
      <4> DEFINE x == ClockTime * k
                 y == ClockTime * n
                 z == ClockTime * q
                 w == ClockTime * (n + q)
      <4>1. /\ x \in Int /\ y \in Int /\ z \in Int /\ w = y + z
            /\ mid = m + x /\ window.open = y + o /\ work_bgn - window.open = z + Late
        BY <3>3, <3>4, <3>5, ClocksApart
      <4> HIDE DEF x, y, z, w
      <4>2. (mid + over - work_bgn) + Late = (Ptap - o) + (x - w)
        BY <1>1, <1>2, <3>1, <3>3, <4>1, Sizes
      <4> QED
        BY <4>2 DEF t, x, w
    <3>7. t < ClockTime
      <4> DEFINE x == ClockTime * k
                 w == ClockTime * (n + q)
                 u == ClockTime * (n + q + 1)
      <4>1. /\ x \in Int /\ w \in Int /\ u = w + ClockTime
            /\ x <= u \/ x >= u + ClockTime
        <5>1. n + q + 1 \in Int
          BY <3>5
        <5>2. k = n + q + 1 \/ x >= u + ClockTime \/ u >= x + ClockTime
          BY <5>1, ClocksApart
        <5>3. x \in Int /\ w \in Int /\ u = w + ClockTime
          BY <3>5, Sizes, ProductInt
        <5> HIDE DEF w
        <5> QED
          BY <5>2, <5>3, Sizes
      <4>2. t = (Ptap - o) + (x - w)
        BY <3>6
      <4> HIDE DEF x, w, u, e, t, early
      <4> QED
        BY <1>1, <1>6, <2>1, <3>2, <3>3, <4>1, <4>2, Sizes
    <3> QED
      BY <2>2, <3>2, <3>7
  <2> QED
    BY <2>4, <2>5, <2>6, Sizes
<1> QED
  BY <1>8, <1>9 DEF InMiddle

(* Step 6: the phases and taps of the middle are the place in the clock of a
   gate in the middle of the window; in which clock, the reads must show.   *)
LEMMA CentreClear ==
    ASSUME Searching("centre"), Centre
    PROVE  pc' = "final" /\ FinalClear'
<1> DEFINE mid == (work_bgn + work_end) \div 2
           set == p' * Ptap + d' * Dtap
           over == set - work_mid
           t == (mid + over - work_bgn) + Late
           q == (work_bgn - window.open) \div ClockTime
<1>1. /\ TypeOK /\ window \in Windows /\ ClearWindow /\ Measured
      /\ vf \in 0 .. VFIFO_SIZE - 1 /\ vf \in Int
      /\ work_bgn \in Nat /\ work_end \in Nat /\ work_bgn >= Ptap /\ work_bgn <= work_end
  BY InSearch, Sizes DEF Searching, ClearOK, StageOK
<1>2. window' = window /\ vf' = vf /\ pc' = "final" /\ i' = 0
  BY DEF Centre
<1>3. /\ mid \in Nat /\ 2 * mid \in {work_bgn + work_end, work_bgn + work_end - 1}
      /\ work_mid \in 1 .. ClockTime
      /\ \E k \in Int : mid = work_mid + ClockTime * k
  BY <1>1, MidInClock
<1>4. PICK k \in Int : mid = work_mid + ClockTime * k
  BY <1>3
<1>5. /\ p' \in Int /\ d' \in Int
      /\ \/ work_mid <= Ptap /\ p' = 1 /\ d' = 0
         \/ work_mid > Ptap /\ over \in 0 .. Dtap - 1
  BY <1>3, CentreReaches, Sizes DEF Phase
<1>6. set \in Int
  BY <1>5, OneMore
<1>7. /\ over \in Nat
      /\ \/ work_mid <= Ptap /\ over = Ptap - work_mid
         \/ work_mid > Ptap /\ over < Dtap
  <2>1. CASE work_mid <= Ptap /\ p' = 1 /\ d' = 0
    <3>1. set = Ptap
      BY <2>1, Sizes
    <3> HIDE DEF set
    <3> QED
      BY <1>3, <2>1, <3>1, Sizes
  <2>2. CASE work_mid > Ptap /\ over \in 0 .. Dtap - 1
    <3> HIDE DEF over
    <3> QED
      BY <2>2, Sizes
  <2> QED
    BY <1>5, <2>1, <2>2
<1>8. InMiddle(t)
  <2> HIDE DEF mid, over
  <2> QED
    BY <1>1, <1>3, <1>4, <1>7, MiddleIs
<1>9. q \in Int /\ Late \in Int /\ work_bgn - window.open = ClockTime * q + Late
      /\ window.open \in Int
  <2>1. work_bgn - window.open \in Int /\ window.open \in Int
    BY <1>1, WindowIs
  <2> QED
    BY <2>1, Sizes, DivMod DEF Late
<1>10. FromOpen' % ClockTime = ((vf * ClockTime + p' * Ptap + d' * Dtap) - window.open) % ClockTime
  <2>1. FromOpen' = GateAt(vf, p', d')
    BY <1>2, GateIsNext
  <2> QED
    BY <1>1, <1>5, <2>1, GateInRing
<1>11. (vf * ClockTime + p' * Ptap + d' * Dtap) - window.open = t + ClockTime * (vf - k + q)
  <2> DEFINE a == ClockTime * k
             b == ClockTime * q
             c == ClockTime * (vf - k + q)
             L == Late
             m == mid
  <2>1. a \in Int /\ b \in Int /\ vf * ClockTime \in Int /\ c = vf * ClockTime - a + b
    BY <1>1, <1>4, <1>9, Sizes
  <2>2. /\ p' * Ptap \in Int /\ d' * Dtap \in Int /\ m \in Int /\ L \in Int
        /\ m = work_mid + a /\ work_bgn - window.open = b + L
    BY <1>3, <1>4, <1>5, <1>9, OneMore
  <2>3. t = (m + ((p' * Ptap + d' * Dtap) - work_mid) - work_bgn) + L
    OBVIOUS
  <2> HIDE DEF a, b, c, L, m, t
  <2>4. (vf * ClockTime + p' * Ptap + d' * Dtap) - window.open = t + c
    BY <1>1, <1>3, <1>9, <2>1, <2>2, <2>3
  <2> QED
    BY <2>4 DEF c
<1>12. t \in 0 .. window.width /\ t \in Int /\ vf - k + q \in Int
  BY <1>1, <1>4, <1>8, <1>9, WindowIs DEF InMiddle
<1> HIDE DEF mid, set, over, t, q
<1>13. FromOpen' % ClockTime = t % ClockTime
  <2>1. (vf * ClockTime + p' * Ptap + d' * Dtap) - window.open \in Int
    BY <1>1, <1>5, GateInRing
  <2> QED
    BY <1>10, <1>11, <1>12, <2>1, Sizes, SameMod
<1>14. PICK s \in 0 .. window.width : InMiddle(s) /\ FromOpen' % ClockTime = s % ClockTime
  BY <1>8, <1>12, <1>13
<1>15. InMiddle(s)'
  BY <1>2, <1>14 DEF InMiddle, NarrowWindow
<1>16. FinalClear'
  BY <1>2, <1>14, <1>15 DEF FinalClear
<1> QED
  BY <1>2, <1>16

(* The clocks are tried one after the other.  The one that passes is the
   middle, unless the window spans two of them; and one of them passes
   before the gate is around.                                              *)
LEMMA FinalClearNext ==
    ASSUME Searching("final"), FinalPush
    PROVE  /\ pc' = "final" => FinalClear'
           /\ pc' = "done" => DoneClear'
           /\ pc' \in {"final", "done"}
<1>1. /\ TypeOK /\ window \in Windows /\ FinalClear /\ i < VFIFO_SIZE /\ i \in Nat
      /\ window.width \in Nat /\ window.width < Ring
      /\ vf \in 0 .. VFIFO_SIZE - 1 /\ vf \in Int /\ p \in Int /\ d \in Int
      /\ FromOpen \in 0 .. Ring - 1 /\ (ReadPasses <=> FromOpen <= window.width)
  BY InSearch, Sizes DEF Searching, ClearOK, StageOK
<1>2. window' = window /\ p' = p /\ d' = d /\ FromOpen = GateAt(vf, p, d) /\ pc = "final"
  BY GateIs DEF FinalPush
<1>3. PICK t \in 0 .. window.width : InMiddle(t) /\ FromOpen % ClockTime = t % ClockTime
  BY <1>1 DEF FinalClear
<1>4. \A k \in 1 .. i : ~(GateAt((vf - k) % VFIFO_SIZE, p, d) <= window.width)
  BY <1>1 DEF FinalClear
<1>5. t \in Int /\ t \in Nat /\ t <= window.width /\ FromOpen \in Int
  BY <1>1, <1>3, Sizes
<1>6. CASE ReadPasses
  <2>1. vf' = vf /\ pc' = "done" /\ result' = "ok"
    BY <1>6 DEF FinalPush, Give
  <2>2. FromOpen' = FromOpen /\ FromOpen <= window.width
    BY <1>1, <1>2, <1>6, <2>1, GateIsNext
  <2>3. ASSUME NarrowWindow PROVE FromOpen = t
    <3>1. t < ClockTime /\ t + ClockTime > window.width
      BY <1>3, <2>3 DEF InMiddle
    <3>2. PICK k \in Int : FromOpen = t + ClockTime * k
      BY <1>3, <1>5, Sizes, ApartByMultiple
    <3>3. ClockTime * 0 = 0 /\ 0 \in Int
      BY Sizes
    <3>4. ClockTime * k \in Int /\ (k = 0 \/ ClockTime * k >= ClockTime \/ 0 >= ClockTime * k + ClockTime)
      <4> DEFINE z == 0
      <4>1. z \in Int /\ ClockTime * z = 0
        BY <3>3
      <4> HIDE DEF z
      <4>2. k = z \/ ClockTime * k >= ClockTime * z + ClockTime
                  \/ ClockTime * z >= ClockTime * k + ClockTime
        BY <3>2, <4>1, ClocksApart
      <4>3. k = z \/ ClockTime * k >= ClockTime \/ 0 >= ClockTime * k + ClockTime
        BY <4>1, <4>2, Sizes
      <4> QED
        BY <3>2, <4>3, Sizes, ProductInt DEF z
    <3> DEFINE a == ClockTime * k
    <3>5. /\ FromOpen = t + a /\ a \in Int
          /\ a = 0 \/ a >= ClockTime \/ 0 >= a + ClockTime
      BY <3>2, <3>3, <3>4
    <3> HIDE DEF a
    <3> QED
      BY <1>1, <1>5, <2>2, <3>1, <3>5, Sizes
  <2>4. NarrowWindow => InMiddle(FromOpen)
    BY <1>3, <2>3
  <2>5. DoneClear'
    BY <1>2, <2>1, <2>2, <2>4 DEF DoneClear, InMiddle, NarrowWindow
  <2> QED
    BY <2>1, <2>5
<1>7. CASE ~ReadPasses
  <2>1. /\ IncrVfifo(1) /\ i' = i + 1
        /\ IF i + 1 = VFIFO_SIZE THEN pc' = "done" ELSE pc' = pc
    BY <1>7 DEF FinalPush, Give
  <2>2. FromOpen > window.width
    BY <1>1, <1>5, <1>7
  <2>3. PICK n \in Int : vf' = vf + 1 + VFIFO_SIZE * n
    BY <1>1, <2>1, VfifoPushed
  <2>4. vf' \in Int
    BY <1>1, <2>1, VfifoPushed
  <2>5. i + 1 /= VFIFO_SIZE
    <3> SUFFICES ASSUME i + 1 = VFIFO_SIZE PROVE FALSE
      OBVIOUS
    <3>1. ((p * Ptap + d * Dtap) - window.open) % ClockTime = FromOpen % ClockTime
      <4> DEFINE x == (p * Ptap + d * Dtap) - window.open
                 y == (vf * ClockTime + p * Ptap + d * Dtap) - window.open
      <4>1. x \in Int /\ y \in Int /\ y = x + ClockTime * vf
        BY <1>1, OneMore, Sizes, WindowIs, ProductInt
      <4>2. y % ClockTime = FromOpen % ClockTime
        BY <1>1, <1>2, GateInRing
      <4> HIDE DEF x, y
      <4>3. y % ClockTime = x % ClockTime
        BY <1>1, <4>1, Sizes, SameMod
      <4> QED
        BY <4>2, <4>3 DEF x
    <3>2. t \in 0 .. Ring - 1
      BY <1>1, <1>5, Sizes
    <3>3. PICK v \in 0 .. VFIFO_SIZE - 1 : GateAt(v, p, d) = t
      BY <1>1, <1>3, <3>1, <3>2, ClockOfTime
    <3>4. v /= vf
      BY <1>1, <1>2, <1>5, <2>2, <3>3
    <3> DEFINE k == IF v < vf THEN vf - v ELSE vf - v + VFIFO_SIZE
    <3>5. k \in 1 .. i
      BY <1>1, <3>3, <3>4, Sizes
    <3>6. (vf - k) % VFIFO_SIZE = v
      <4>1. CASE v < vf
        <5>1. vf - k = VFIFO_SIZE * 0 + v /\ vf - k \in Int /\ 0 \in Int
          BY <1>1, <4>1, <3>3, Sizes
        <5> HIDE DEF k
        <5> QED
          BY <5>1, <3>3, Sizes, ModIs
      <4>2. CASE ~(v < vf)
        <5>1. vf - k = VFIFO_SIZE * (-1) + v /\ vf - k \in Int /\ -1 \in Int
          BY <1>1, <4>2, <3>3, Sizes
        <5> HIDE DEF k
        <5> QED
          BY <5>1, <3>3, Sizes, ModIs
      <4> QED
        BY <4>1, <4>2
    <3> HIDE DEF k
    <3> QED
      BY <1>4, <1>5, <3>3, <3>5, <3>6
  <2>6. pc' = "final"
    BY <1>2, <2>1, <2>5
  <2>7. FromOpen' % ClockTime = t % ClockTime
    <3> DEFINE x == (vf * ClockTime + p * Ptap + d * Dtap) - window.open
               y == (vf' * ClockTime + p * Ptap + d * Dtap) - window.open
    <3>1. FromOpen' = GateAt(vf', p, d)
      BY <1>2, GateIsNext
    <3>2. x \in Int /\ x % ClockTime = FromOpen % ClockTime
      BY <1>1, <1>2, GateInRing
    <3>3. y \in Int /\ y % ClockTime = FromOpen' % ClockTime
      BY <1>1, <2>4, <3>1, GateInRing
    <3>4. y = x + ClockTime * (vf' - vf)
      <4>1. vf * ClockTime \in Int /\ vf' * ClockTime \in Int /\ p * Ptap \in Int
            /\ d * Dtap \in Int /\ window.open \in Int
            /\ ClockTime * (vf' - vf) = vf' * ClockTime - vf * ClockTime
        BY <1>1, <2>4, Sizes, OneMore, WindowIs
      <4> QED
        BY <4>1
    <3> HIDE DEF x, y
    <3>5. vf' - vf \in Int
      BY <1>1, <2>4
    <3>6. y % ClockTime = x % ClockTime
      BY <3>2, <3>3, <3>4, <3>5, Sizes, SameMod
    <3> QED
      BY <1>3, <3>2, <3>3, <3>6
  <2>8. ASSUME NEW k \in 1 .. i + 1
        PROVE  ~(GateAt((vf' - k) % VFIFO_SIZE, p, d) <= window.width)
    <3>1. (vf' - k) % VFIFO_SIZE = (vf - (k - 1)) % VFIFO_SIZE
      <4>1. k \in Int /\ VFIFO_SIZE * n \in Int
        BY <1>1, <2>3, <2>8, Sizes, ProductInt
      <4>2. vf' - k = (vf - (k - 1)) + VFIFO_SIZE * n /\ vf' - k \in Int /\ vf - (k - 1) \in Int
        BY <1>1, <2>3, <2>4, <4>1
      <4> QED
        BY <2>3, <4>2, Sizes, SameMod
    <3>2. CASE k = 1
      <4>1. (vf - (k - 1)) = VFIFO_SIZE * 0 + vf /\ vf - (k - 1) \in Int /\ 0 \in Int
        BY <1>1, <3>2, Sizes
      <4>2. (vf - (k - 1)) % VFIFO_SIZE = vf
        BY <1>1, <4>1, Sizes, ModIs
      <4> QED
        BY <1>1, <1>2, <1>7, <3>1, <4>2
    <3>3. CASE k /= 1
      <4>1. k - 1 \in 1 .. i
        BY <1>1, <2>8, <3>3
      <4> QED
        BY <1>4, <3>1, <4>1
    <3> QED
      BY <3>2, <3>3
  <2>9. InMiddle(t)'
    BY <1>2, <1>3 DEF InMiddle, NarrowWindow
  <2>10. FinalClear'
    BY <1>2, <1>3, <2>1, <2>7, <2>8, <2>9 DEF FinalClear, GateAt
  <2> QED
    BY <2>6, <2>10
<1> QED
  BY <1>6, <1>7

(* The tracking leaves the times alone. *)
LEMMA TrackClear ==
    ASSUME Searching(pc), TrackTap \/ TrackEnds
    PROVE  pc' \in {"track", "track2", "centre"} /\ Measured'
<1>1. /\ pc \in {"track", "track2"} /\ pc' \in {"track", "track2", "centre"}
      /\ window' = window /\ times' = times
  BY DEF TrackTap, TrackEnds
<1>2. Measured
  BY <1>1 DEF Searching, GateInv, ClearOK
<1> QED
  BY <1>1, <1>2 DEF Measured, BeginMeasured, AfterPhase1, Late, Skew, times

LEMMA ClearNext ==
    ASSUME GateInv, ClearWindow, EnableNext
    PROVE  ClearOK'
<1> USE DEF ClearOK
<1>1. Searching(pc)
  BY DEF Searching
<1>2. CASE PushVfifo
  <2>1. Searching("push") /\ pc' \in {"push", "begin", "done"}
    BY <1>1, <1>2 DEF PushVfifo, Searching, Give
  <2> QED
    BY <1>2, <2>1, PushClearNext
<1>3. CASE BeginFails
  <2>1. Searching("begin")
    BY <1>1, <1>3 DEF BeginFails, Searching
  <2> QED
    BY <1>3, <2>1, BeginClearNext
<1>4. CASE BeginAtPhase
  <2>1. Searching("begin")
    BY <1>1, <1>4 DEF BeginAtPhase, Searching
  <2> QED
    BY <1>4, <2>1, BeginPhaseClear
<1>5. CASE BeginAtDelay
  <2>1. Searching("begin") /\ ReadPasses /\ d > 0
    BY <1>1, <1>5 DEF BeginAtDelay, Searching
  <2>2. d = 0
    BY <2>1, BeginMet
  <2> QED
    BY <2>1, <2>2
<1>6. CASE BeginDelay
  <2>1. Searching("begin2")
    BY <1>1, <1>6 DEF BeginDelay, Searching
  <2> QED
    BY <1>6, <2>1, BeginDelayClear
<1>7. CASE EndContinues
  <2>1. Searching("end")
    BY <1>1, <1>7 DEF EndContinues, Searching
  <2> QED
    BY <1>7, <2>1, EndPhaseClear
<1>8. CASE EndFound
  <2>1. Searching("end")
    BY <1>1, <1>8 DEF EndFound, Searching
  <2> QED
    BY <1>8, <2>1, EndFoundClear
<1>9. CASE EndDelay
  <2>1. Searching("end2")
    BY <1>1, <1>9 DEF EndDelay, Searching
  <2> QED
    BY <1>9, <2>1, EndDelayClear
<1>10. CASE TrackTap \/ TrackEnds
  BY <1>1, <1>10, TrackClear
<1>11. CASE Centre
  <2>1. Searching("centre")
    BY <1>1, <1>11 DEF Centre, Searching
  <2> QED
    BY <1>11, <2>1, CentreClear
<1>12. CASE FinalPush
  <2>1. Searching("final")
    BY <1>1, <1>12 DEF FinalPush, Searching
  <2> QED
    BY <1>12, <2>1, FinalClearNext
<1>13. CASE Finished
  <2>1. pc = "done" /\ pc' = "done" /\ window' = window /\ gate' = gate /\ result' = result
    BY <1>13 DEF Finished, enableVars
  <2>2. DoneClear
    BY <2>1 DEF GateInv
  <2>3. DoneClear'
    BY <2>1, <2>2 DEF DoneClear, InMiddle, NarrowWindow, FromOpen, Position, gate
  <2> QED
    BY <2>1, <2>3
<1> QED
  BY <1>2, <1>3, <1>4, <1>5, <1>6, <1>7, <1>8, <1>9, <1>10, <1>11, <1>12, <1>13
     DEF EnableNext

LEMMA GateNext ==
    ASSUME GateInv, [EnableNext]_enableVars PROVE GateInv'
<1>1. SearchInv'
  BY SearchNext DEF GateInv
<1>2. CASE EnableNext
  <2>1. window' = window
    BY <1>2 DEF EnableNext, PushVfifo, BeginFails, BeginAtPhase, BeginAtDelay,
       BeginDelay, EndContinues, EndFound, EndDelay, TrackTap, TrackEnds, Centre,
       FinalPush, Finished, enableVars
  <2>2. ClearWindow' <=> ClearWindow
    BY <2>1 DEF ClearWindow
  <2>3. ClearOK'
    BY <1>2, <2>2, ClearNext DEF ClearOK
  <2> QED
    BY <1>1, <2>3 DEF GateInv
<1>3. CASE UNCHANGED enableVars
  <2>1. ClearOK
    BY DEF GateInv
  <2>2. ClearOK'
    BY <1>3, <2>1 DEF ClearOK, ClearWindow, PushClear, BeginClear, Begin2Clear,
       EndClear, End2Clear, Measured, FinalClear, DoneClear, BeginMeasured,
       EndCounted, AfterPhase1, Skew, Late, Gone, Back, InMiddle, NarrowWindow,
       GateAt, FromOpen, ReadPasses, Position, enableVars, gate, times
  <2> QED
    BY <1>1, <2>2 DEF GateInv
<1> QED
  BY <1>2, <1>3

THEOREM GateInvCorrect == EnableSpec => []GateInv
  BY GateInit, GateNext, PTL DEF EnableSpec

(* Wherever a clear window opens, against phase 0 and the wrap of the VFIFO,
   the gate that is accepted is within a phase and half a tap of its middle,
   if the window is narrower than two clocks less two phases.              *)
THEOREM GateIsCentred == EnableSpec => []GateCentred
<1>1. ASSUME GateInv PROVE GateCentred
  <2> SUFFICES ASSUME result = "ok", ClearWindow, NarrowWindow
               PROVE  2 * FromOpen - window.width \in -2 * Ptap .. 2 * Ptap + Dtap
    BY DEF GateCentred, NarrowWindow
  <2>1. pc = "done"
    BY <1>1 DEF GateInv, SearchInv, StageOK
  <2>2. DoneClear
    BY <1>1, <2>1 DEF GateInv, ClearOK
  <2> QED
    BY <2>2 DEF DoneClear, InMiddle
<1> QED
  BY <1>1, GateInvCorrect, PTL

(* A clear window is found, wherever it opens and however wide it is: none
   of the searches runs out of clocks, and the range they find is not
   empty.                                                                  *)
THEOREM WideWindowIsFound == EnableSpec => []WideWindowFound
<1>1. ASSUME GateInv PROVE WideWindowFound
  BY <1>1 DEF GateInv, ClearOK, DoneClear, WideWindowFound
<1> QED
  BY <1>1, GateInvCorrect, PTL

-----------------------------------------------------------------------------
(* The search cannot go round in circles: the stages it has left get fewer,
   and within a stage the delay gets greater, or at the same delay the
   count of clocks, or in the same clock the phase.  All four are bounded.  *)
StagesLeft ==
    CASE pc = "push" -> 9 [] pc = "begin" -> 8 [] pc = "begin2" -> 7
      [] pc = "end" -> 6 [] pc = "end2" -> 5 [] pc = "track" -> 4
      [] pc = "track2" -> 3 [] pc = "centre" -> 2 [] pc = "final" -> 1
      [] pc = "done" -> 0

Advances ==
    \/ StagesLeft' < StagesLeft
    \/ StagesLeft' = StagesLeft /\ d' > d
    \/ StagesLeft' = StagesLeft /\ d' = d /\ i' > i
    \/ StagesLeft' = StagesLeft /\ d' = d /\ i' = i /\ p' > p

Bounded ==
    /\ StagesLeft \in 0 .. 9 /\ d \in 0 .. IO_DQS_EN_DELAY_MAX + 1
    /\ i \in 0 .. VFIFO_SIZE + 1 /\ p \in 1 .. IO_DQS_EN_PHASE_MAX

LEMMA StepAdvances ==
    ASSUME SearchInv, EnableNext, ~UNCHANGED enableVars
    PROVE  Advances
<1>1. TypeOK /\ StageOK
  BY DEF SearchInv
<1>2. SearchInv'
  BY SearchNext
<1>3. /\ d \in Nat /\ i \in Nat /\ p \in Nat /\ d' \in Nat /\ i' \in Nat /\ p' \in Nat
  BY <1>1, <1>2, Sizes DEF SearchInv, TypeOK, Phase
<1> USE DEF Advances
<1>4. CASE PushVfifo
  BY <1>3, <1>4 DEF PushVfifo, StagesLeft, Give
<1>5. CASE BeginFails
  BY <1>3, <1>5, Sizes DEF BeginFails, StagesLeft, Give
<1>6. CASE BeginAtPhase \/ BeginAtDelay
  BY <1>6 DEF BeginAtPhase, BeginAtDelay, SearchEnd, StagesLeft
<1>7. CASE BeginDelay
  BY <1>3, <1>7 DEF BeginDelay, SearchEnd, StagesLeft
<1>8. CASE EndContinues
  BY <1>1, <1>3, <1>8, Sizes DEF EndContinues, StagesLeft, Give
<1>9. CASE EndFound
  BY <1>9 DEF EndFound, StagesLeft
<1>10. CASE EndDelay
  BY <1>3, <1>10 DEF EndDelay, RangeFound, StagesLeft, Give
<1>11. CASE TrackTap
  BY <1>3, <1>11 DEF TrackTap, StagesLeft
<1>12. CASE TrackEnds
  BY <1>12 DEF TrackEnds, StagesLeft
<1>13. CASE Centre
  BY <1>13 DEF Centre, StagesLeft
<1>14. CASE FinalPush
  BY <1>3, <1>14 DEF FinalPush, StagesLeft, Give
<1>15. CASE Finished
  BY <1>15 DEF Finished
<1> QED
  BY <1>4, <1>5, <1>6, <1>7, <1>8, <1>9, <1>10, <1>11, <1>12, <1>13, <1>14, <1>15
     DEF EnableNext

(* Whatever the reads say, every step of the search brings it closer to its
   end: its loops over clocks, phases and delays never run twice over the
   same of them in a stage.                                                *)
THEOREM SearchAdvances == EnableSpec => []Bounded /\ [][Advances]_enableVars
<1>1. ASSUME SearchInv PROVE Bounded
  BY <1>1 DEF SearchInv, TypeOK, Bounded, StagesLeft, Phase
<1>2. ASSUME SearchInv, [EnableNext]_enableVars PROVE [Advances]_enableVars
  BY <1>2, StepAdvances
<1> QED
  BY <1>1, <1>2, SearchInvCorrect, PTL DEF EnableSpec
=============================================================================
