-------------------------- MODULE SpeedPlanProofs --------------------------
(***************************************************************************)
(* Proofs about the speed plan, for all speeds, divisors and errors and for *)
(* every record of types.  SpeedInv says which formula the last speed came  *)
(* from; the properties are facts about the two formulas.                   *)
(***************************************************************************)
EXTENDS SpeedPlan, TLAPS

\* The speed of a formula is that of the frame's type and error.
SpeedInv ==
  how = "error" =>
    \/ road[1] = SHORT /\ speed_set = ShortSpeed(error)
    \/ road[1] = CURVE /\ speed_set = CurveSpeed(error)

Inv == TypeOK /\ SpeedInRange /\ SpeedInv

----------------------------------------------------------------------------
(* Arithmetic.                                                              *)

\* Division with a positive divisor.
LEMMA Division ==
  ASSUME NEW z \in Nat, NEW d \in Nat, d > 0
  PROVE  z \div d \in Nat /\ d * (z \div d) <= z /\ z < d * ((z \div d) + 1)
<1>1. z \div d \in Nat
  OBVIOUS
<1>2. d * (z \div d) <= z
  OBVIOUS
<1>3. z < d * ((z \div d) + 1)
  OBVIOUS
<1> QED
  BY <1>1, <1>2, <1>3

\* A factor keeps the order.
LEMMA ProductMonotone ==
  ASSUME NEW a \in Nat, NEW y \in Nat, NEW z \in Nat, y <= z
  PROVE  a * y <= a * z /\ a * y \in Nat /\ a * z \in Nat
<1>1. a * z = a * y + a * (z - y) /\ a * (z - y) >= 0
  OBVIOUS
<1>2. a * y \in Nat /\ a * z \in Nat
  OBVIOUS
<1>3. a * (z - y) \in Int
  OBVIOUS
<1> QED
  BY <1>1, <1>2, <1>3

\* Division keeps the order.
LEMMA DivisionMonotone ==
  ASSUME NEW y \in Nat, NEW z \in Nat, NEW d \in Nat, d > 0, y <= z
  PROVE  y \div d <= z \div d
<1> DEFINE p == y \div d  q == z \div d
<1>1. /\ p \in Nat /\ d * p <= y
      /\ q \in Nat /\ z < d * (q + 1)
  BY Division
<1> HIDE DEF p, q
<1>2. d * p \in Nat /\ d * (q + 1) \in Nat
  BY <1>1
<1>3. d * p < d * (q + 1)
  BY <1>1, <1>2
<1>4. ASSUME p >= q + 1 PROVE FALSE
  <2>1. d * (q + 1) <= d * p
    BY <1>1, <1>4, ProductMonotone
  <2> QED
    BY <1>2, <1>3, <2>1
<1> QED
  BY <1>1, <1>4 DEF p, q

\* The order of the squares is that of the absolute values.
LEMMA SquareMonotone ==
  ASSUME NEW e \in Int, NEW f \in Int, Abs(e) <= Abs(f)
  PROVE  e * e <= f * f /\ e * e \in Nat /\ f * f \in Nat
<1>1. Abs(e) \in Nat /\ Abs(f) \in Nat /\ e * e = Abs(e) * Abs(e) /\ f * f = Abs(f) * Abs(f)
  BY DEF Abs
<1>2. Abs(e) * Abs(e) <= Abs(e) * Abs(f) /\ Abs(f) * Abs(e) <= Abs(f) * Abs(f)
  BY <1>1, ProductMonotone
<1>3. \A x, y \in Nat : x * y = y * x /\ x * y \in Nat
  OBVIOUS
<1> HIDE DEF Abs
<1> QED
  BY <1>1, <1>2, <1>3

----------------------------------------------------------------------------
(* The two formulas.                                                        *)

\* The straight's speed: its range, the lowest one past SHORT_DIV, and its order.
LEMMA ShortSpeedBounds ==
  ASSUME NEW e \in Int
  PROVE  /\ ShortSpeed(e) \in s_wan1..s_zhi
         /\ Abs(e) > SHORT_DIV => ShortSpeed(e) = s_wan1
<1> DEFINE d == s_zhi - s_wan1  q == Abs(e) \div SHORT_DIV
<1>1. d \in Nat /\ SHORT_DIV \in Nat /\ SHORT_DIV > 0 /\ s_wan1 \in Nat /\ s_zhi = s_wan1 + d
  BY SpeedAssumption
<1>2. Abs(e) \in Nat
  BY DEF Abs
<1>3. q \in Nat
  BY <1>1, <1>2, Division
<1>4. Abs(e) > SHORT_DIV => q >= 1
  <2> SUFFICES ASSUME Abs(e) > SHORT_DIV PROVE q >= 1
    OBVIOUS
  <2>1. SHORT_DIV \div SHORT_DIV = 1
    BY <1>1
  <2> QED
    BY <2>1, <1>1, <1>2, DivisionMonotone
<1>5. d * q \in Nat /\ (q >= 1 => d * q >= d)
  <2> HIDE DEF d, q
  <2>1. d * q \in Nat
    BY <1>1, <1>3
  <2>2. ASSUME q >= 1 PROVE d * q >= d
    BY <2>2, <1>1, <1>3, ProductMonotone
  <2> QED
    BY <2>1, <2>2
<1>6. ShortSpeed(e) = Greater(s_zhi - d * q, s_wan1)
  BY DEF ShortSpeed
<1> HIDE DEF d, q
<1> QED
  BY <1>1, <1>4, <1>5, <1>6 DEF Greater

\* A greater error never gives a straight a greater speed.
LEMMA ShortSpeedOrder ==
  ASSUME NEW e \in Int, NEW f \in Int, Abs(e) <= Abs(f)
  PROVE  ShortSpeed(f) <= ShortSpeed(e)
<1> DEFINE d == s_zhi - s_wan1  q == Abs(e) \div SHORT_DIV  r == Abs(f) \div SHORT_DIV
<1>1. d \in Nat /\ s_wan1 \in Nat /\ s_zhi \in Nat
  BY SpeedAssumption
<1>2. q \in Nat /\ r \in Nat /\ q <= r
  <2>1. Abs(e) \in Nat /\ Abs(f) \in Nat
    BY DEF Abs
  <2> QED
    BY <2>1, Division, DivisionMonotone, SpeedAssumption
<1>3. ShortSpeed(e) = Greater(s_zhi - d * q, s_wan1) /\ ShortSpeed(f) = Greater(s_zhi - d * r, s_wan1)
  BY DEF ShortSpeed
<1> HIDE DEF d, q, r
<1>4. d * q <= d * r /\ d * q \in Nat /\ d * r \in Nat
  BY <1>1, <1>2, ProductMonotone
<1> QED
  BY <1>1, <1>3, <1>4 DEF Greater

\* The curve's speed, in the same way.
LEMMA CurveSpeedBounds ==
  ASSUME NEW e \in Int
  PROVE  /\ CurveSpeed(e) \in s_wan2..s_wan1
         /\ Abs(e) > CURVE_DIV => CurveSpeed(e) = s_wan2
<1> DEFINE d == s_wan1 - s_wan2  c == CURVE_DIV * CURVE_DIV  x == e * e  q == (d * x) \div c
<1>1. d \in Nat /\ s_wan2 \in Nat /\ s_wan1 = s_wan2 + d
  BY SpeedAssumption
<1>2. c \in Nat /\ c > 0
  <2>1. CURVE_DIV \in Nat /\ CURVE_DIV >= 1
    BY SpeedAssumption
  <2>2. CURVE_DIV * CURVE_DIV >= CURVE_DIV * 1
    BY <2>1, ProductMonotone
  <2> QED
    BY <2>1, <2>2
<1>3. x \in Nat /\ d * x \in Nat
  <2>1. x \in Nat
    BY SquareMonotone, SpeedAssumption DEF Abs
  <2> QED
    BY <1>1, <2>1
<1>4. q \in Nat
  <2> HIDE DEF d, c, x
  <2> QED
    BY <1>2, <1>3, Division
<1>5. Abs(e) > CURVE_DIV => q >= d
  <2> SUFFICES ASSUME Abs(e) > CURVE_DIV PROVE q >= d
    OBVIOUS
  <2>1. c <= x
    <3>1. CURVE_DIV \in Int /\ Abs(CURVE_DIV) = CURVE_DIV /\ Abs(e) \in Int
      BY SpeedAssumption DEF Abs
    <3>2. Abs(CURVE_DIV) <= Abs(e)
      BY <3>1
    <3> QED
      BY <3>1, <3>2, SquareMonotone
  <2> HIDE DEF d, c, x
  <2>2. d * c <= d * x /\ d * c \in Nat
    BY <1>1, <1>2, <1>3, <2>1, ProductMonotone
  <2>3. (d * c) \div c = d
    BY <1>1, <1>2
  <2>4. (d * c) \div c <= (d * x) \div c
    BY <1>2, <1>3, <2>2, DivisionMonotone
  <2> QED
    BY <2>3, <2>4 DEF q
<1>6. CurveSpeed(e) = Smaller(Greater(s_wan1 - q, s_wan2), s_wan1)
  BY DEF CurveSpeed
<1> HIDE DEF d, q
<1> QED
  BY <1>1, <1>4, <1>5, <1>6 DEF Greater, Smaller

\* A greater error never gives a curve a greater speed.
LEMMA CurveSpeedOrder ==
  ASSUME NEW e \in Int, NEW f \in Int, Abs(e) <= Abs(f)
  PROVE  CurveSpeed(f) <= CurveSpeed(e)
<1> DEFINE d == s_wan1 - s_wan2  c == CURVE_DIV * CURVE_DIV
           x == e * e  y == f * f  q == (d * x) \div c  r == (d * y) \div c
<1>1. d \in Nat /\ s_wan1 \in Nat /\ s_wan2 \in Nat
  BY SpeedAssumption
<1>2. c \in Nat /\ c > 0
  <2>1. CURVE_DIV \in Nat /\ CURVE_DIV >= 1
    BY SpeedAssumption
  <2>2. CURVE_DIV * CURVE_DIV >= CURVE_DIV * 1
    BY <2>1, ProductMonotone
  <2> QED
    BY <2>1, <2>2
<1>3. x \in Nat /\ y \in Nat /\ x <= y
  BY SquareMonotone
<1>4. /\ CurveSpeed(e) = Smaller(Greater(s_wan1 - q, s_wan2), s_wan1)
      /\ CurveSpeed(f) = Smaller(Greater(s_wan1 - r, s_wan2), s_wan1)
  BY DEF CurveSpeed
<1>5. q \in Nat /\ r \in Nat /\ q <= r
  <2> HIDE DEF d, c, x, y
  <2>1. d * x <= d * y /\ d * x \in Nat /\ d * y \in Nat
    BY <1>1, <1>3, ProductMonotone
  <2> QED
    BY <2>1, <1>2, Division, DivisionMonotone
<1> HIDE DEF q, r
<1> QED
  BY <1>1, <1>4, <1>5 DEF Greater, Smaller

----------------------------------------------------------------------------
(* The invariant.                                                           *)

\* The initial states satisfy the invariant.
LEMMA InitInv == Init => Inv
<1> SUFFICES ASSUME Init PROVE Inv
  OBVIOUS
<1>1. straight \in BOOLEAN
  BY DEF Init
<1>2. TypeOK
  BY <1>1, SpeedAssumption, RecordAssumption DEF Init, TypeOK, RoadType
<1> QED
  BY <1>2 DEF Init, Inv, SpeedInRange, SpeedInv

\* A frame of any type.
LEMMA FrameInv ==
  ASSUME Inv, NEW ring \in BOOLEAN, NEW cross \in BOOLEAN, NEW long \in BOOLEAN,
         NEW short \in BOOLEAN, NEW e \in -ERR_MAX..ERR_MAX,
         velocity_set(ring, cross, long, short, e)
  PROVE  Inv'
<1> DEFINE judged == straight \/ (~cross /\ short)
           type == Type(ring, cross, long /\ ~cross, judged)
<1>1. /\ straight' \in IF SPILL THEN BOOLEAN ELSE {judged}
      /\ error' = e
      /\ how' = Branch(type) /\ speed_set' = Speed(type, Branch(type), e)
      /\ road' = Shifted(type)
      /\ IF type = road[1]
         THEN run' = Smaller(run + 1, HIST) /\ UNCHANGED before
         ELSE run' = 1 /\ before' = [type |-> road[1], n |-> run]
  BY DEF velocity_set
<1>2. type \in {LOOP, CROSS, LONG, SHORT, CURVE}
  BY DEF Type
<1>3. straight' \in BOOLEAN
  <2>1. straight \in BOOLEAN
    BY DEF Inv, TypeOK
  <2> QED
    BY <1>1, <2>1
<1>4. HIST \in Nat /\ HIST > 0 /\ 1 \in 1..HIST
  BY RecordAssumption
<1>5. e \in Int
  BY SpeedAssumption
<1> HIDE DEF type
<1>6. type # NONE /\ type \in RoadType
  BY <1>2 DEF RoadType, LOOP, CROSS, LONG, SHORT, CURVE, NONE
<1>7. road' \in [1..HIST -> RoadType] /\ road'[1] = type
  BY <1>1, <1>4, <1>6 DEF Inv, TypeOK, Shifted
<1>8. \/ type = LOOP /\ how' = "fixed" /\ speed_set' = s_huan
      \/ type = CROSS /\ how' = "fixed" /\ speed_set' = s_cross
      \/ type = LONG /\ how' = "fixed" /\ speed_set' = s_max
      \/ type = SHORT /\ how' = "cut" /\ speed_set' = s_zhi - SHORT_CUT
      \/ type = SHORT /\ how' = "curved" /\ speed_set' = s_wan1
      \/ type = SHORT /\ how' = "error" /\ speed_set' = ShortSpeed(e)
      \/ type = CURVE /\ how' = "cut" /\ speed_set' = s_wan1 - CURVE_CUT
      \/ type = CURVE /\ how' = "error" /\ speed_set' = CurveSpeed(e)
  BY <1>1, <1>2 DEF Branch, ShortBranch, CurveBranch, Speed, LOOP, CROSS, LONG, SHORT, CURVE
<1>9. /\ ShortSpeed(e) \in s_wan1..s_zhi /\ CurveSpeed(e) \in s_wan2..s_wan1
      /\ s_wan1 \in Int /\ s_wan2 \in Int /\ s_zhi \in Int
      /\ s_wan2 <= s_wan1 /\ s_wan1 <= s_zhi
  BY <1>5, ShortSpeedBounds, CurveSpeedBounds, SpeedAssumption
<1>10. SpeedInRange'
  BY <1>8, <1>9 DEF SpeedInRange
<1>11. SpeedInv'
  BY <1>1, <1>7, <1>8 DEF SpeedInv
<1>12. speed_set' \in Int
  BY <1>8, <1>9, SpeedAssumption
<1>13. how' \in {"start", "cut", "curved", "error", "fixed"}
  BY <1>8
<1>14. /\ run' \in 0..HIST /\ run' > 0
       /\ before' \in [type : RoadType, n : 0..HIST]
  <2>1. /\ run \in 0..HIST /\ road[1] \in RoadType
        /\ before \in [type : RoadType, n : 0..HIST]
    BY <1>4 DEF Inv, TypeOK
  <2> QED
    BY <1>1, <1>4, <2>1 DEF Smaller
<1>15. TypeOK'
  BY <1>1, <1>3, <1>6, <1>7, <1>12, <1>13, <1>14 DEF TypeOK
<1> QED
  BY <1>10, <1>11, <1>15 DEF Inv

\* Every step preserves the invariant.
LEMMA NextInv == Inv /\ [Next]_vars => Inv'
<1> SUFFICES ASSUME Inv, [Next]_vars PROVE Inv'
  OBVIOUS
<1>1. CASE Next
  <2>1. PICK ring \in BOOLEAN, cross \in BOOLEAN, long \in BOOLEAN, short \in BOOLEAN,
             e \in -ERR_MAX..ERR_MAX : velocity_set(ring, cross, long, short, e)
    BY <1>1 DEF Next, Frame
  <2> QED
    BY <2>1, FrameInv
<1>2. CASE UNCHANGED vars
  BY <1>2 DEF Inv, TypeOK, SpeedInRange, SpeedInv, vars
<1> QED
  BY <1>1, <1>2

\* Inv is an invariant of the speed plan.
THEOREM Invariance == Spec => []Inv
  BY InitInv, NextInv, PTL DEF Spec

\* The variables keep their types, for every record and every error.
THEOREM SpeedPlanTypeCorrect == Spec => []TypeOK
<1>1. Inv => TypeOK
  BY DEF Inv
<1> QED
  BY <1>1, Invariance, PTL

\* No error, however great, takes the speed out of the range of its parameters.
THEOREM SpeedBounded == Spec => []SpeedInRange
<1>1. Inv => SpeedInRange
  BY DEF Inv
<1> QED
  BY <1>1, Invariance, PTL

\* Past the divisors the two formulas give their lowest speed.
THEOREM SpeedLowestFar == Spec => []LowestWhenFar
<1>1. Inv => LowestWhenFar
  <2> SUFFICES ASSUME Inv, how = "error"
               PROVE  /\ road[1] = SHORT /\ Abs(error) > SHORT_DIV => speed_set = s_wan1
                      /\ road[1] = CURVE /\ Abs(error) > CURVE_DIV => speed_set = s_wan2
    BY DEF LowestWhenFar
  <2>1. error \in Int
    BY SpeedAssumption DEF Inv, TypeOK
  <2>2. SHORT # CURVE
    BY DEF SHORT, CURVE
  <2> QED
    BY <2>1, <2>2, ShortSpeedBounds, CurveSpeedBounds DEF Inv, SpeedInv
<1> QED
  BY <1>1, Invariance, PTL

\* A greater error never speeds the car up, for all speeds and divisors.
THEOREM SpeedFallsWithError == Spec => SlowerWhenWorse
<1>1. Inv /\ Inv' =>
        [how = "error" /\ how' = "error" /\ road[1] = road'[1] /\ Abs(error) <= Abs(error')
           => speed_set' <= speed_set]_vars
  <2> SUFFICES ASSUME Inv, Inv', how = "error", how' = "error", road[1] = road'[1],
                      Abs(error) <= Abs(error')
               PROVE  speed_set' <= speed_set
    OBVIOUS
  <2>1. error \in Int /\ error' \in Int
    BY SpeedAssumption DEF Inv, TypeOK
  <2>2. /\ ShortSpeed(error') <= ShortSpeed(error)
        /\ CurveSpeed(error') <= CurveSpeed(error)
    BY <2>1, ShortSpeedOrder, CurveSpeedOrder
  <2>3. SHORT # CURVE
    BY DEF SHORT, CURVE
  <2> QED
    BY <2>2, <2>3 DEF Inv, SpeedInv
<1> QED
  BY <1>1, Invariance, PTL DEF Spec, SlowerWhenWorse

----------------------------------------------------------------------------
(* The record.  RecordInv says what the counters of the last two runs of a  *)
(* type tell of road_type: both runs are in it, whole, as far as it goes,   *)
(* and a frame of another type is in front of each.                         *)

RecordInv ==
  /\ \A k \in 1..run : road[k] = road[1]
  /\ 0 < run /\ run < HIST => road[run + 1] # road[1]
  /\ \A k \in run + 1..run + before.n : k <= HIST => road[k] = before.type
  /\ before.type # NONE /\ run + before.n < HIST => road[run + before.n + 1] # before.type

\* What velocity_set does to the record and the counters.
Recorded(type) ==
  /\ road' = Shifted(type)
  /\ IF type = road[1]
     THEN run' = Smaller(run + 1, HIST) /\ UNCHANGED before
     ELSE run' = 1 /\ before' = [type |-> road[1], n |-> run]

\* In the numbers of the record the shift adds one.
LEMMA ShiftedRecord ==
  ASSUME NEW type, Recorded(type)
  PROVE  /\ road'[1] = type
         /\ \A k \in 1..HIST : k + 1 <= HIST => road'[k + 1] = road[k]
BY RecordAssumption DEF Recorded, Shifted

\* The numbers of frames are naturals.
LEMMA Counters ==
  ASSUME TypeOK
  PROVE  /\ run \in Nat /\ run <= HIST /\ before.n \in Nat /\ before.n <= HIST
         /\ HIST \in Nat /\ HIST > 0
         /\ (run = 0 => how = "start")
BY RecordAssumption DEF TypeOK

\* A frame more of the same type, or the first of another.
LEMMA RecordKeep ==
  ASSUME TypeOK, RecordInv, NEW type \in RoadType \ {NONE}, Recorded(type),
         run = 0 => road[1] = NONE
  PROVE  RecordInv'
<1>1. /\ run \in Nat /\ run <= HIST /\ before.n \in Nat /\ before.n <= HIST
      /\ HIST \in Nat /\ HIST > 0
  BY Counters
<1>2. road'[1] = type /\ \A k \in 1..HIST : k + 1 <= HIST => road'[k + 1] = road[k]
  BY ShiftedRecord
<1>3. CASE type = road[1]
  <2>1. run > 0 /\ run' = (IF run < HIST THEN run + 1 ELSE HIST) /\ before' = before
    BY <1>1, <1>3 DEF Recorded, Smaller
  <2>2. ASSUME NEW k \in 1..run' PROVE road'[k] = road'[1]
    <3>1. CASE k = 1
      BY <3>1
    <3>2. CASE k # 1
      <4>1. k - 1 \in 1..run /\ k - 1 \in 1..HIST /\ (k - 1) + 1 = k /\ k <= HIST
        BY <3>2, <1>1, <2>1
      <4>2. road'[k] = road[k - 1] /\ road[k - 1] = road[1]
        BY <4>1, <1>2 DEF RecordInv
      <4> QED
        BY <4>2, <1>2, <1>3
    <3> QED
      BY <3>1, <3>2
  <2>3. ASSUME 0 < run', run' < HIST PROVE road'[run' + 1] # road'[1]
    <3>1. run + 1 \in 1..HIST /\ (run + 1) + 1 <= HIST /\ run' = run + 1
      BY <2>1, <2>3, <1>1
    <3>2. road'[run' + 1] = road[run + 1]
      BY <3>1, <1>2
    <3> QED
      BY <3>1, <3>2, <1>1, <1>2, <1>3, <2>1 DEF RecordInv
  <2>4. ASSUME NEW k \in run' + 1..run' + before'.n, k <= HIST
        PROVE  road'[k] = before'.type
    <3>1. run' = run + 1 /\ k - 1 \in run + 1..run + before.n
      BY <2>1, <2>4, <1>1
    <3>2. k - 1 \in 1..HIST /\ (k - 1) + 1 = k
      BY <3>1, <1>1, <2>4
    <3> QED
      BY <3>1, <3>2, <1>2, <2>1, <2>4 DEF RecordInv
  <2>5. ASSUME before'.type # NONE, run' + before'.n < HIST
        PROVE  road'[run' + before'.n + 1] # before'.type
    <3>1. run' = run + 1 /\ run + before.n < HIST
      BY <2>1, <2>5, <1>1
    <3>2. run + before.n + 1 \in 1..HIST /\ (run + before.n + 1) + 1 <= HIST
          /\ run' + before'.n + 1 = (run + before.n + 1) + 1
      BY <3>1, <1>1, <2>1, <2>5
    <3> QED
      BY <3>1, <3>2, <1>2, <2>1, <2>5 DEF RecordInv
  <2> QED
    BY <2>2, <2>3, <2>4, <2>5 DEF RecordInv
<1>4. CASE type # road[1]
  <2>1. run' = 1 /\ before'.type = road[1] /\ before'.n = run
    BY <1>4 DEF Recorded
  <2>2. \A k \in 1..run' : road'[k] = road'[1]
    BY <2>1
  <2>3. run' < HIST => road'[run' + 1] # road'[1]
    BY <2>1, <1>1, <1>2, <1>4
  <2>4. ASSUME NEW k \in run' + 1..run' + before'.n, k <= HIST
        PROVE  road'[k] = before'.type
    <3>1. k - 1 \in 1..run /\ k - 1 \in 1..HIST /\ (k - 1) + 1 = k
      BY <2>1, <2>4, <1>1
    <3> QED
      BY <3>1, <1>2, <2>1, <2>4 DEF RecordInv
  <2>5. ASSUME before'.type # NONE, run' + before'.n < HIST
        PROVE  road'[run' + before'.n + 1] # before'.type
    <3>1. 0 < run
      BY <2>1, <2>5, <1>1
    <3>2. run + 1 \in 1..HIST /\ (run + 1) + 1 <= HIST /\ run' + before'.n + 1 = (run + 1) + 1
      BY <2>1, <2>5, <1>1
    <3> QED
      BY <3>1, <3>2, <1>1, <1>2, <2>1 DEF RecordInv
  <2> QED
    BY <2>1, <2>2, <2>3, <2>4, <2>5 DEF RecordInv
<1> QED
  BY <1>3, <1>4

\* After a long straight, a window that reaches back to it is all long straight
\* exactly when the new run is not in it yet and the straight goes through it.
LEMMA Window ==
  ASSUME TypeOK, RecordInv, NEW type \in RoadType \ {NONE, LONG}, Recorded(type),
         NEW from \in Nat, NEW to \in Nat, 1 <= from, from <= to, to <= HIST, from < HIST,
         run = 0 => road[1] = NONE,
         before'.type = LONG, run' + before'.n > from
  PROVE  All(LONG, from, to) <=> run' <= from /\ run' + before'.n > to
<1>1. /\ run \in Nat /\ run <= HIST /\ before.n \in Nat /\ before.n <= HIST
      /\ HIST \in Nat /\ HIST > 0
  BY Counters
<1>2. LONG # NONE
  BY DEF LONG, NONE
<1>3. CASE type = road[1]
  <2>1. run > 0 /\ run' = (IF run < HIST THEN run + 1 ELSE HIST) /\ before' = before
    BY <1>1, <1>3 DEF Recorded, Smaller
  <2>2. run' <= from => run' = run + 1
    BY <2>1, <1>1
  <2>3. CASE run' > from
    <3>1. from \in 1..run
      BY <2>1, <2>3, <1>1
    <3>2. road[from] # LONG
      BY <3>1, <1>3 DEF RecordInv
    <3> QED
      BY <3>2, <2>1, <2>3, <1>1 DEF All
  <2>4. CASE run' <= from /\ run' + before'.n > to
    <3>1. run' = run + 1
      BY <2>2, <2>4
    <3>2. \A k \in from..to : k \in run + 1..run + before.n /\ k <= HIST
      BY <3>1, <2>1, <2>4, <1>1
    <3>3. All(LONG, from, to)
      BY <3>2, <2>1 DEF RecordInv, All
    <3> QED
      BY <3>3, <2>4
  <2>5. CASE run' <= from /\ run' + before'.n <= to
    <3>1. run' = run + 1
      BY <2>2, <2>5
    <3>2. run + before.n + 1 \in from..to /\ run + before.n < HIST
      BY <3>1, <2>1, <2>5, <1>1
    <3>3. road[run + before.n + 1] # LONG
      BY <3>2, <2>1, <1>2 DEF RecordInv
    <3> QED
      BY <3>2, <3>3, <2>1, <2>5, <1>1 DEF All
  <2> QED
    BY <2>1, <2>3, <2>4, <2>5, <1>1
<1>4. CASE type # road[1]
  <2>1. run' = 1 /\ before'.type = road[1] /\ before'.n = run
    BY <1>4 DEF Recorded
  <2>2. road[1] = LONG /\ run > 0
    BY <2>1, <1>1, <1>2
  <2>3. CASE run + 1 > to
    <3>1. \A k \in from..to : k \in 1..run
      BY <2>3, <1>1
    <3>2. All(LONG, from, to)
      BY <3>1, <2>2 DEF RecordInv, All
    <3> QED
      BY <3>2, <2>1, <2>3, <1>1
  <2>4. CASE run + 1 <= to
    <3>1. run + 1 \in from..to /\ run < HIST
      BY <2>1, <2>4, <1>1
    <3>2. road[run + 1] # LONG
      BY <3>1, <2>2, <1>1 DEF RecordInv
    <3> QED
      BY <3>1, <3>2, <2>1, <2>4, <1>1 DEF All
  <2> QED
    BY <2>3, <2>4, <1>1
<1> QED
  BY <1>3, <1>4

CutInv == RecordInv /\ CutAfterStraight /\ (run = 0 => road[1] = NONE)

\* The record and the cut in the initial states.
LEMMA CutInit == Init => CutInv
<1> SUFFICES ASSUME Init PROVE CutInv
  OBVIOUS
<1>1. HIST \in Nat /\ 1 \in 1..HIST
  BY RecordAssumption
<1>2. NONE # LONG
  BY DEF NONE, LONG
<1> QED
  BY <1>1, <1>2 DEF Init, CutInv, RecordInv, CutAfterStraight

\* A frame keeps the record and cuts the speed where it should.
LEMMA CutKeep ==
  ASSUME Inv, CutInv, NEW ring \in BOOLEAN, NEW cross \in BOOLEAN, NEW long \in BOOLEAN,
         NEW short \in BOOLEAN, NEW e \in -ERR_MAX..ERR_MAX,
         velocity_set(ring, cross, long, short, e)
  PROVE  CutInv'
<1> DEFINE type == Type(ring, cross, long /\ ~cross, straight \/ (~cross /\ short))
<1>1. Recorded(type) /\ how' = Branch(type)
  BY DEF velocity_set, Recorded
<1>2. type \in RoadType \ {NONE}
  BY DEF Type, RoadType, LOOP, CROSS, LONG, SHORT, CURVE, NONE
<1> HIDE DEF type
<1>3. RecordInv'
  BY <1>1, <1>2, RecordKeep DEF Inv, CutInv
<1>4. road'[1] = type
  BY <1>1, ShiftedRecord
<1>5. run' # 0
  <2>1. run \in Nat /\ HIST \in Nat /\ HIST > 0
    BY Counters DEF Inv
  <2> QED
    BY <1>1, <2>1 DEF Recorded, Smaller
<1>6. /\ 1 <= SHORT_FROM /\ SHORT_TO <= HIST /\ 1 <= CURVE_FROM /\ CURVE_TO <= HIST
  <2>1. SHORT_FROM \in 1..HIST /\ SHORT_TO \in 1..HIST
    BY RecordAssumption, WindowAssumption
  <2>2. CURVE_FROM \in 1..HIST /\ CURVE_TO \in 1..HIST
    BY RecordAssumption, WindowAssumption
  <2> QED
    BY <2>1, <2>2, RecordAssumption
<1>7. ASSUME before'.type = LONG, type = SHORT, run' + before'.n > SHORT_FROM
      PROVE  how' = "cut" <=> run' <= SHORT_FROM /\ run' + before'.n > SHORT_TO
  <2>1. type \in RoadType \ {NONE, LONG}
    BY <1>2, <1>7 DEF SHORT, LONG
  <2>2. All(LONG, SHORT_FROM, SHORT_TO)
          <=> run' <= SHORT_FROM /\ run' + before'.n > SHORT_TO
    BY <1>1, <1>6, <1>7, <2>1, Window, WindowAssumption DEF Inv, CutInv
  <2>3. how' = "cut" <=> All(LONG, SHORT_FROM, SHORT_TO)
    BY <1>1, <1>7 DEF Branch, ShortBranch, SHORT, CURVE
  <2> QED
    BY <2>2, <2>3
<1>8. ASSUME before'.type = LONG, type = CURVE, run' + before'.n > CURVE_FROM
      PROVE  how' = "cut" <=> run' <= CURVE_FROM /\ run' + before'.n > CURVE_TO
  <2>1. type \in RoadType \ {NONE, LONG}
    BY <1>2, <1>8 DEF CURVE, LONG
  <2>2. All(LONG, CURVE_FROM, CURVE_TO)
          <=> run' <= CURVE_FROM /\ run' + before'.n > CURVE_TO
    BY <1>1, <1>6, <1>8, <2>1, Window, WindowAssumption DEF Inv, CutInv
  <2>3. how' = "cut" <=> All(LONG, CURVE_FROM, CURVE_TO)
    BY <1>1, <1>8 DEF Branch, CurveBranch, SHORT, CURVE
  <2> QED
    BY <2>2, <2>3
<1>9. CutAfterStraight'
  BY <1>4, <1>7, <1>8 DEF CutAfterStraight
<1> QED
  BY <1>3, <1>5, <1>9 DEF CutInv

\* Off a long straight velocity_set cuts the speed in the frames whose window of
\* road_type the straight covers, and in no others, for every record and windows.
THEOREM CutWhereLong == Spec => []CutAfterStraight
<1>1. Inv /\ CutInv /\ [Next]_vars => CutInv'
  <2> SUFFICES ASSUME Inv, CutInv, [Next]_vars PROVE CutInv'
    OBVIOUS
  <2>1. CASE Next
    <3>1. PICK ring \in BOOLEAN, cross \in BOOLEAN, long \in BOOLEAN, short \in BOOLEAN,
               e \in -ERR_MAX..ERR_MAX : velocity_set(ring, cross, long, short, e)
      BY <2>1 DEF Next, Frame
    <3> QED
      BY <3>1, CutKeep
  <2>2. CASE UNCHANGED vars
    BY <2>2 DEF CutInv, RecordInv, CutAfterStraight, vars
  <2> QED
    BY <2>1, <2>2
<1>2. CutInv => CutAfterStraight
  BY DEF CutInv
<1> QED
  BY <1>1, <1>2, CutInit, Invariance, PTL DEF Spec
=============================================================================
