------------------------- MODULE FrameControlProofs -------------------------
(***************************************************************************)
(* Proofs about the steering and the stop line, for every window, limit,   *)
(* gain and image width.  Inv strengthens the properties of FrameControl to *)
(* an inductive invariant: HistoryInv ties stop_car to the marks seen,      *)
(* OutputInv the output to the error it was computed from, GainInv the gain *)
(* to the limits the shell has set.                                         *)
(***************************************************************************)
EXTENDS FrameControl, FiniteSetTheorems, FunctionTheorems, TLAPS

\* stop_car holds the marks of the frames before, one place further up.
HistoryInv == \A k \in 1..(WINDOW - 1) : stop_car[k] = past[k - 1]

\* The controller's last error is that of the last frame.
LastErrorInv ==
  /\ pc \in {"frame", "steer"} => pid.error_l = 0 - error
  /\ Abs(error + pid.error_l) <= ERR_STEP

\* The output is what the last gain, error and integral give.
OutputInv ==
  /\ pid.integral \in -WINDUP..WINDUP
  /\ pid.kd = 0 => pid.output =
       Clamp(pid.gain * pid.error_l + pid.integral, -OUT_MAX, OUT_MAX)

\* The limit in force is one of those since the gain was begun; past the
\* comparison, or the assignment of the limit, the gain is within one of them.
GainInv ==
  /\ kp_max <= highest
  /\ pc = "update" => kp <= highest
  /\ GainCapped

Inv ==
  /\ TypeOK /\ ErrorInRange /\ HistoryInv /\ (WINDOW >= 2 => StopLine)
  /\ LastErrorInv /\ OutputInv /\ GainInv /\ ServoInRange

----------------------------------------------------------------------------
(* Arithmetic.                                                              *)

\* What Clamp returns.
LEMMA ClampBounds ==
  ASSUME NEW x \in Int, NEW lo \in Int, NEW hi \in Int, lo <= hi
  PROVE  /\ Clamp(x, lo, hi) \in lo..hi
         /\ x \in lo..hi => Clamp(x, lo, hi) = x
  BY DEF Clamp

\* Clamp brings two values no further apart.
LEMMA ClampContracts ==
  ASSUME NEW x \in Int, NEW y \in Int, NEW lo \in Int, NEW hi \in Int, lo <= hi
  PROVE  Abs(Clamp(x, lo, hi) - Clamp(y, lo, hi)) <= Abs(x - y)
  BY DEF Clamp, Abs

\* A product of two bounded factors.
LEMMA ProductBound ==
  ASSUME NEW a \in Int, NEW d \in Int, NEW s \in Nat, Abs(d) <= s
  PROVE  Abs(a * d) <= Abs(a) * s
<1> DEFINE p == Abs(a)  q == Abs(d)  r == s - q
<1>1. p \in Nat /\ q \in Nat /\ r \in Nat
  BY DEF Abs
<1>2. Abs(a * d) = p * q
  <2>1. a * d = (-a) * (-d) /\ -(a * d) = (-a) * d /\ -(a * d) = a * (-d)
    OBVIOUS
  <2>2. ASSUME NEW x \in Nat, NEW y \in Nat PROVE x * y >= 0
    OBVIOUS
  <2>3. p * q >= 0
    BY <1>1, <2>2
  <2>4. p \in {a, -a} /\ q \in {d, -d}
    BY DEF Abs
  <2>5. p * q \in {a * d, -(a * d)}
    BY <2>1, <2>4
  <2> HIDE DEF p, q
  <2> QED
    BY <2>3, <2>5, <1>1 DEF Abs
<1>3. p * s = p * q + p * r /\ p * r >= 0
  <2>1. s = q + r
    BY <1>1
  <2> HIDE DEF p, q, r
  <2> QED
    BY <2>1, <1>1
<1>4. p * q \in Int /\ p * r \in Int
  BY <1>1
<1> HIDE DEF p, q, r
<1> QED
  BY <1>2, <1>3, <1>4 DEF p

\* Division with a positive divisor.
LEMMA Division ==
  ASSUME NEW z \in Nat, NEW d \in Nat, d > 0
  PROVE  z \div d \in Nat /\ d * (z \div d) <= z
<1>1. z \div d \in Nat
  OBVIOUS
<1>2. d * (z \div d) <= z
  OBVIOUS
<1> QED
  BY <1>1, <1>2

\* A common positive factor.
LEMMA Cancel ==
  ASSUME NEW q \in Int, NEW h \in Int, NEW d \in Nat, d > 0, d * q <= d * h
  PROVE  q <= h
  OBVIOUS

\* Scaling a value of at most d by h / d gives at most h.
LEMMA QuotientBound ==
  ASSUME NEW x \in Int, NEW d \in Nat, d > 0, NEW h \in Nat, Abs(x) <= d
  PROVE  Abs(Quotient(x * h, d)) <= h /\ Quotient(x * h, d) \in Int
<1>1. ASSUME NEW y \in Nat, y <= d PROVE (y * h) \div d \in 0..h
  <2> DEFINE z == y * h  q == z \div d
  <2>1. z \in Nat /\ z <= d * h /\ d * h \in Int
    BY <1>1
  <2>2. q \in Nat /\ d * q <= z
    <3> HIDE DEF z
    <3> QED
      BY <2>1, Division
  <2>3. d * q \in Int
    BY <2>2
  <2>4. q <= h
    <3> HIDE DEF z, q
    <3>1. d * q <= d * h
      BY <2>1, <2>2, <2>3
    <3> QED
      BY <3>1, <2>2, Cancel
  <2> QED
    BY <2>2, <2>4
<1>2. CASE x >= 0
  <2>1. x \in Nat /\ x <= d /\ ~(x * h < 0)
    BY <1>2 DEF Abs
  <2> QED
    BY <2>1, <1>1 DEF Quotient, Abs
<1>3. CASE x < 0
  <2>1. -x \in Nat /\ -x <= d /\ -(x * h) = (-x) * h
    BY <1>3 DEF Abs
  <2>2. ((-x) * h) \div d \in 0..h
    BY <2>1, <1>1
  <2>3. (x * h < 0) \/ x * h = 0
    BY <1>3
  <2>4. 0 \div d = 0
    OBVIOUS
  <2> QED
    BY <2>1, <2>2, <2>3, <2>4 DEF Quotient, Abs
<1> QED
  BY <1>2, <1>3

\* The range of the error and the limit on its step hold together.
LEMMA LimitedBounds ==
  ASSUME NEW e \in Int, NEW last \in Int, Abs(last) <= ERR_MAX
  PROVE  /\ Limited(e, last) \in Int
         /\ Abs(Limited(e, last)) <= ERR_MAX
         /\ Abs(Limited(e, last) - last) <= ERR_STEP
  BY ErrorAssumption DEF Limited, Clamp, Abs

\* A position of the servo is within its half range.
LEMMA ServoBound ==
  ASSUME NEW a \in Int, servo1_set_angle(a)
  PROVE  angle' \in Int /\ Abs(angle') <= HALF
<1> DEFINE c == Clamp(a, -ANGLE_MAX, ANGLE_MAX)
<1>1. c \in Int /\ Abs(c) <= ANGLE_MAX
  BY ServoAssumption, ClampBounds DEF Clamp, Abs
<1>2. angle' = Quotient(c * HALF, ANGLE_MAX)
  BY DEF servo1_set_angle
<1> HIDE DEF c
<1> QED
  BY <1>1, <1>2, QuotientBound, ServoAssumption

----------------------------------------------------------------------------
(* The stop line.                                                           *)

\* The marks of a window are finitely many; there is none only if no frame
\* had one.
LEMMA MarksCount ==
  ASSUME NEW p \in [0..(WINDOW - 1) -> {0, 1}]
  PROVE  /\ MarksIn(p) \in Nat
         /\ MarksIn(p) = 0 <=> \A k \in 0..(WINDOW - 1) : p[k] = 0
<1> DEFINE M == {k \in DOMAIN p : p[k] = 1}
<1>1. DOMAIN p = 0..(WINDOW - 1)
  OBVIOUS
<1>2. IsFiniteSet(0..(WINDOW - 1))
  BY FS_Interval, StopAssumption
<1>3. IsFiniteSet(M)
  BY <1>1, <1>2, FS_Subset
<1>4. Cardinality(M) \in Nat /\ (Cardinality(M) = 0 <=> M = {})
  BY <1>3, FS_CardinalityType, FS_EmptySet
<1>5. M = {} <=> \A k \in 0..(WINDOW - 1) : p[k] = 0
  BY <1>1
<1> QED
  BY <1>4, <1>5 DEF MarksIn

\* What the loop counts, the entry past the array included, are the marks of
\* the last WINDOW frames.
LEMMA CountIsMarks ==
  ASSUME TypeOK, HistoryInv, WINDOW >= 2, NEW mark \in {0, 1},
         past' = [k \in 0..(WINDOW - 1) |-> IF k = 0 THEN mark ELSE past[k - 1]]
  PROVE  MarkCount(mark) = MarksIn(past')
<1> DEFINE L == WINDOW - 1
           A == {k \in 1..L : Shift(mark)[k] = 1}
           B == {k \in 0..(L - 1) : past'[k] = 1}
           C == {k \in 0..L : past'[k] = 1}
           f == [k \in A |-> k - 1]
<1>1. L \in Nat /\ L >= 1
  BY StopAssumption
<1>2. \A k \in 1..L : Shift(mark)[k] = past'[k - 1]
  BY <1>1 DEF HistoryInv, Shift
<1>3. IsFiniteSet(A)
  <2>1. IsFiniteSet(1..L)
    BY <1>1, FS_Interval
  <2>2. A \in SUBSET (1..L)
    OBVIOUS
  <2> QED
    BY <2>1, <2>2, FS_Subset
<1>4. f \in Bijection(A, B)
  <2>1. \A k \in A : k - 1 \in B
    BY <1>1, <1>2
  <2>2. \A k \in B : k + 1 \in A /\ (k + 1) - 1 = k
    BY <1>1, <1>2
  <2>3. \A a, b \in A : f[a] = f[b] => a = b
    BY <1>1
  <2>4. f \in [A -> B]
    BY <2>1
  <2>5. \A t \in B : \E a \in A : f[a] = t
    BY <2>2
  <2> HIDE DEF A, B, f
  <2> QED
    BY <2>3, <2>4, <2>5, Fun_IsBij
<1>5. IsFiniteSet(B) /\ Cardinality(B) = Cardinality(A)
  <2> HIDE DEF A, B, f
  <2> QED
    BY <1>3, <1>4, FS_Bijection DEF ExistsBijection
<1>6. past'[L] = stop_car[L] /\ stop_car[L] \in {0, 1}
  <2>1. L \in 0..L /\ L # 0 /\ L \in 1..L
    BY <1>1
  <2> QED
    BY <2>1 DEF HistoryInv, TypeOK
<1>7. Cardinality(C) = Cardinality(B) + stop_car[L]
  <2>1. CASE stop_car[L] = 1
    <3>1. C = B \cup {L} /\ L \notin B
      BY <1>1, <1>6, <2>1
    <3>2. Cardinality(B \cup {L}) = Cardinality(B) + 1
      BY <1>5, <3>1, FS_AddElement
    <3> QED
      BY <3>1, <3>2, <2>1
  <2>2. CASE stop_car[L] = 0
    <3>1. C = B
      <4>1. \A k \in 0..L : k \in 0..(L - 1) \/ k = L
        BY <1>1
      <4>2. \A k \in 0..(L - 1) : k \in 0..L
        BY <1>1
      <4>3. past'[L] # 1
        BY <1>6, <2>2
      <4> QED
        BY <4>1, <4>2, <4>3
    <3>2. Cardinality(B) \in Nat
      BY <1>5, FS_CardinalityType
    <3>3. Cardinality(C) = Cardinality(B)
      BY <3>1
    <3> HIDE DEF B, C
    <3> QED
      BY <3>2, <3>3, <2>2
  <2> QED
    BY <1>6, <2>1, <2>2
<1>8. MarksIn(past') = Cardinality(C)
  BY DEF MarksIn
<1> QED
  BY <1>5, <1>7, <1>8 DEF MarkCount

\* stop_car_judge.
LEMMA JudgePreserves ==
  ASSUME Inv, stop_car_judge
  PROVE  /\ stop_car' \in [0..(WINDOW - 1) -> {0, 1}]
         /\ past' \in [0..(WINDOW - 1) -> {0, 1}]
         /\ stop_car_flag' \in {0, 1}
         /\ HistoryInv'
         /\ WINDOW >= 2 => StopLine'
<1>1. PICK mark \in {0, 1} :
        /\ stop_car' = Shift(mark)
        /\ stop_car_flag' = IF MarkCount(mark) >= NEED THEN 1
                            ELSE IF overlap THEN stop_car[WINDOW - 1] ELSE 0
        /\ past' = [k \in 0..(WINDOW - 1) |-> IF k = 0 THEN mark ELSE past[k - 1]]
  BY DEF stop_car_judge
<1>2. /\ stop_car \in [0..(WINDOW - 1) -> {0, 1}]
      /\ past \in [0..(WINDOW - 1) -> {0, 1}]
  BY DEF Inv, TypeOK
<1>3. stop_car' \in [0..(WINDOW - 1) -> {0, 1}]
  BY <1>1, <1>2, StopAssumption DEF Shift
<1>4. past' \in [0..(WINDOW - 1) -> {0, 1}]
  BY <1>1, <1>2, StopAssumption
<1>5. stop_car[WINDOW - 1] \in {0, 1}
  BY <1>2, StopAssumption
<1>6. stop_car_flag' \in {0, 1}
  BY <1>1, <1>5
<1>7. HistoryInv'
  <2> SUFFICES ASSUME NEW k \in 1..(WINDOW - 1) PROVE stop_car'[k] = past'[k - 1]
    BY DEF HistoryInv
  <2>1. WINDOW \in Nat /\ k \in 0..(WINDOW - 1) /\ k - 1 \in 0..(WINDOW - 1)
    BY StopAssumption
  <2>2. CASE k = 1
    BY <2>1, <2>2, <1>1 DEF Shift
  <2>3. CASE k # 1
    <3>1. k - 1 \in 1..(WINDOW - 1) /\ k - 1 # 0 /\ ~(k <= 1)
      BY <2>1, <2>3
    <3>2. stop_car[k - 1] = past[(k - 1) - 1]
      BY <3>1 DEF Inv, HistoryInv
    <3> QED
      BY <2>1, <3>1, <3>2, <1>1 DEF Shift
  <2> QED
    BY <2>2, <2>3
<1>8. ASSUME WINDOW >= 2 PROVE StopLine'
  <2>1. MarkCount(mark) = MarksIn(past')
    BY <1>1, <1>8, CountIsMarks DEF Inv
  <2>2. MarksIn(past') \in Nat
    BY <1>4, MarksCount
  <2>3. past'[WINDOW - 1] = stop_car[WINDOW - 1] /\ WINDOW - 1 \in 0..(WINDOW - 1)
    <3>1. WINDOW - 1 \in 1..(WINDOW - 1) /\ WINDOW - 1 \in 0..(WINDOW - 1) /\ WINDOW - 1 # 0
      BY <1>8, StopAssumption
    <3> QED
      BY <3>1, <1>1 DEF Inv, HistoryInv
  <2>4. NEED \in Nat /\ overlap' = overlap
    BY StopAssumption DEF stop_car_judge
  <2> QED
    BY <1>1, <1>5, <2>1, <2>2, <2>3, <2>4 DEF StopLine
<1> QED
  BY <1>3, <1>4, <1>6, <1>7, <1>8

----------------------------------------------------------------------------
(* The invariant.                                                           *)

\* The initial states satisfy the invariant.
LEMMA InitInv == Init => Inv
<1> SUFFICES ASSUME Init PROVE Inv
  OBVIOUS
<1>1. TypeOK
  <2>1. overlap \in BOOLEAN
    BY DEF Init
  <2>2. pid \in [gain : Int, kd : Int, integral : Int, error_l : Int, output : Int]
    BY ServoAssumption DEF Init
  <2> QED
    BY <2>1, <2>2, StopAssumption, ServoAssumption DEF Init, TypeOK
<1>2. ErrorInRange /\ LastErrorInv /\ ServoInRange /\ GainInv
  BY ErrorAssumption, ServoAssumption
     DEF Init, ErrorInRange, LastErrorInv, ServoInRange, GainInv, GainCapped, Abs
<1>3. OutputInv
  BY ServoAssumption DEF Init, OutputInv, Clamp
<1>4. HistoryInv
  BY StopAssumption DEF Init, HistoryInv
<1>5. WINDOW >= 2 => StopLine
  <2>1. MarksIn(past) = 0
    <3>1. past \in [0..(WINDOW - 1) -> {0, 1}] /\ \A k \in 0..(WINDOW - 1) : past[k] = 0
      BY DEF Init
    <3> QED
      BY <3>1, MarksCount
  <2>2. stop_car_flag = 0 /\ NEED \in Nat /\ NEED > 0
    BY StopAssumption DEF Init
  <2> QED
    BY <2>1, <2>2 DEF StopLine
<1> QED
  BY <1>1, <1>2, <1>3, <1>4, <1>5 DEF Inv

\* What a step that leaves the stop line's variables alone preserves.
LEMMA StopUnchanged ==
  ASSUME Inv, UNCHANGED stopVars
  PROVE  HistoryInv' /\ (WINDOW >= 2 => StopLine')
  BY DEF Inv, HistoryInv, StopLine, stopVars, MarksIn

\* compute_error: the new error is in range and near the old one.
LEMMA ErrorPreserves == Inv /\ compute_error => Inv'
<1> SUFFICES ASSUME Inv, compute_error PROVE Inv'
  OBVIOUS
<1>1. PICK CenterMeanValue \in -HALF_WIDTH..(LAST + HALF_WIDTH) :
        error' = Limited(CenterMeanValue - MID, error)
  BY DEF compute_error
<1>2. error \in Int /\ Abs(error) <= ERR_MAX
  BY DEF Inv, TypeOK, ErrorInRange
<1>3. error' \in Int /\ Abs(error') <= ERR_MAX /\ Abs(error' - error) <= ERR_STEP
  BY <1>1, <1>2, LimitedBounds, ErrorAssumption
<1>4. TypeOK'
  BY <1>3 DEF compute_error, Inv, TypeOK, stopVars, steerVars, tuning, params
<1>5. LastErrorInv'
  <2>1. pid.error_l = 0 - error /\ pid' = pid /\ pc' = "stop"
    BY DEF compute_error, Inv, LastErrorInv, steerVars
  <2>2. error' + pid'.error_l = error' - error
    BY <2>1, <1>2, <1>3
  <2> QED
    BY <2>1, <2>2, <1>3 DEF LastErrorInv
<1>6. HistoryInv' /\ (WINDOW >= 2 => StopLine')
  BY StopUnchanged DEF compute_error
<1>7. OutputInv' /\ GainInv' /\ ServoInRange' /\ ErrorInRange'
  BY <1>3 DEF compute_error, Inv, OutputInv, GainInv, GainCapped, ServoInRange, ErrorInRange,
              steerVars, tuning, params
<1> QED
  BY <1>4, <1>5, <1>6, <1>7 DEF Inv

\* set_velocity computes integers.
LEMMA WheelSpeedsType ==
  ASSUME NEW v \in Int, NEW e \in Int
  PROVE  WheelSpeeds(v, e) \in [Wheel -> Int]
<1>1. DIFF_P * e * v \in Int
  BY StopAssumption
<1> QED
  BY <1>1 DEF WheelSpeeds

\* The steps up to the controller's parameters, and the shell.
LEMMA FramePreserves ==
  Inv /\ (stop_car_judge \/ Drive \/ ComputeGain \/ LimitGain \/ CapGain
         \/ set_steer_pid_param_cmd) => Inv'
<1> SUFFICES ASSUME Inv, stop_car_judge \/ Drive \/ ComputeGain \/ LimitGain \/ CapGain
                         \/ set_steer_pid_param_cmd
             PROVE  Inv'
  OBVIOUS
<1>1. CASE stop_car_judge
  <2>1. TypeOK'
    BY <1>1, JudgePreserves DEF stop_car_judge, Inv, TypeOK, errorVars, steerVars, tuning, params
  <2>2. /\ ErrorInRange' /\ LastErrorInv' /\ OutputInv'
        /\ GainInv' /\ ServoInRange'
    BY <1>1 DEF stop_car_judge, Inv, errorVars, steerVars, tuning, params, ErrorInRange,
                LastErrorInv, OutputInv, GainInv, GainCapped, ServoInRange
  <2> QED
    BY <1>1, <2>1, <2>2, JudgePreserves DEF Inv
<1>2. CASE Drive
  <2>1. PICK s \in Speed, switch4 \in BOOLEAN :
          wheels' = IF switch4 THEN WheelSpeeds(IF stop_car_flag = 1 THEN 0 ELSE s, error)
                               ELSE wheels
    BY <1>2 DEF Drive
  <2>2. wheels' \in [Wheel -> Int]
    <3>1. s \in Int /\ error \in Int /\ wheels \in [Wheel -> Int]
      BY StopAssumption DEF Inv, TypeOK
    <3>2. \A v \in Int : WheelSpeeds(v, error) \in [Wheel -> Int]
      BY <3>1, WheelSpeedsType
    <3>3. (IF stop_car_flag = 1 THEN 0 ELSE s) \in Int
      BY <3>1
    <3> QED
      BY <2>1, <3>1, <3>2, <3>3
  <2>3. TypeOK'
    BY <1>2, <2>2 DEF Drive, Inv, TypeOK, errorVars, stopVars, steerVars, tuning, params
  <2>4. HistoryInv' /\ (WINDOW >= 2 => StopLine')
    BY <1>2, StopUnchanged DEF Drive
  <2>5. /\ ErrorInRange' /\ LastErrorInv' /\ OutputInv'
        /\ GainInv' /\ ServoInRange'
    BY <1>2 DEF Drive, Inv, errorVars, steerVars, tuning, params, ErrorInRange, LastErrorInv,
                OutputInv, GainInv, GainCapped, ServoInRange
  <2> QED
    BY <2>3, <2>4, <2>5 DEF Inv
<1>3. CASE ComputeGain
  <2>1. kp' \in Int
    <3>1. error \in Int /\ basic_kp \in Int /\ kp_j \in Int
      BY DEF Inv, TypeOK
    <3>2. error * error * kp_j \in Int
      BY <3>1
    <3> QED
      BY <1>3, <3>1, <3>2 DEF ComputeGain
  <2>2. TypeOK'
    BY <1>3, <2>1 DEF ComputeGain, Inv, TypeOK, errorVars, stopVars, params
  <2>3. HistoryInv' /\ (WINDOW >= 2 => StopLine')
    BY <1>3, StopUnchanged DEF ComputeGain
  <2>4. GainInv'
    <3>1. kp_max \in Int /\ kp_max' = kp_max /\ highest' = kp_max /\ pc' = "limit"
      BY <1>3 DEF ComputeGain, Inv, TypeOK, params
    <3> QED
      BY <3>1 DEF GainInv, GainCapped
  <2>5. ErrorInRange' /\ LastErrorInv' /\ OutputInv' /\ ServoInRange'
    BY <1>3 DEF ComputeGain, Inv, errorVars, ErrorInRange, LastErrorInv, OutputInv, ServoInRange
  <2> QED
    BY <2>2, <2>3, <2>4, <2>5 DEF Inv
<1>4. CASE LimitGain
  <2>1. TypeOK' /\ GainInv'
    BY <1>4 DEF LimitGain, Inv, TypeOK, GainInv, GainCapped, errorVars, stopVars, steerVars,
                tuning, params
  <2>2. HistoryInv' /\ (WINDOW >= 2 => StopLine')
    BY <1>4, StopUnchanged DEF LimitGain
  <2>3. ErrorInRange' /\ LastErrorInv' /\ OutputInv' /\ ServoInRange'
    BY <1>4 DEF LimitGain, Inv, errorVars, steerVars, ErrorInRange, LastErrorInv, OutputInv,
                ServoInRange
  <2> QED
    BY <2>1, <2>2, <2>3 DEF Inv
<1>5. CASE CapGain
  <2>1. TypeOK' /\ GainInv'
    BY <1>5 DEF CapGain, Inv, TypeOK, GainInv, GainCapped, errorVars, stopVars, tuning, params
  <2>2. HistoryInv' /\ (WINDOW >= 2 => StopLine')
    BY <1>5, StopUnchanged DEF CapGain
  <2>3. ErrorInRange' /\ LastErrorInv' /\ OutputInv' /\ ServoInRange'
    BY <1>5 DEF CapGain, Inv, errorVars, ErrorInRange, LastErrorInv, OutputInv, ServoInRange
  <2> QED
    BY <2>1, <2>2, <2>3 DEF Inv
<1>6. CASE set_steer_pid_param_cmd
  <2>1. TypeOK' /\ GainInv'
    BY <1>6, ServoAssumption DEF set_steer_pid_param_cmd, Inv, TypeOK, GainInv, GainCapped,
                                 errorVars, stopVars, steerVars
  <2>2. HistoryInv' /\ (WINDOW >= 2 => StopLine')
    BY <1>6, StopUnchanged DEF set_steer_pid_param_cmd
  <2>3. ErrorInRange' /\ LastErrorInv' /\ OutputInv' /\ ServoInRange'
    BY <1>6 DEF set_steer_pid_param_cmd, Inv, errorVars, steerVars, ErrorInRange, LastErrorInv,
                OutputInv, ServoInRange
  <2> QED
    BY <2>1, <2>2, <2>3 DEF Inv
<1> QED
  BY <1>1, <1>2, <1>3, <1>4, <1>5, <1>6

\* pos_pid_controller_update: the output is that of the gain just set.
LEMMA UpdatePreserves == Inv /\ UpdateController => Inv'
<1> SUFFICES ASSUME Inv, UpdateController PROVE Inv'
  OBVIOUS
<1> DEFINE e == 0 - error
           integral == Integral(pid.integral, e)
<1>1. pid' = [gain |-> kp, kd |-> kd, integral |-> integral, error_l |-> e,
              output |-> Output(kp, integral, e, pid.error_l)]
  BY DEF UpdateController
<1>2. /\ e \in Int /\ kp \in Int /\ ki \in Int /\ kd \in Int
      /\ pid \in [gain : Int, kd : Int, integral : Int, error_l : Int, output : Int]
  BY DEF Inv, TypeOK
<1>3. integral \in -WINDUP..WINDUP
  <2>1. pid.integral \in -WINDUP..WINDUP
    BY DEF Inv, OutputInv
  <2>2. ki * e \in Int
    BY <1>2
  <2> HIDE DEF e
  <2> QED
    BY <2>1, <2>2, ServoAssumption DEF Integral, Clamp
<1>4. /\ Output(kp, integral, e, pid.error_l) \in Int
      /\ kd = 0 => Output(kp, integral, e, pid.error_l)
                     = Clamp(kp * e + integral, -OUT_MAX, OUT_MAX)
  <2>1. kp * e \in Int /\ integral \in Int /\ pid.error_l \in Int
    BY <1>2, <1>3, ServoAssumption
  <2>2. kd * (e - pid.error_l) \in Int /\ (kd = 0 => kd * (e - pid.error_l) = 0)
    BY <1>2, <2>1
  <2> HIDE DEF e, integral
  <2> QED
    BY <2>1, <2>2, ServoAssumption DEF Output, Clamp
<1>5. /\ pid'.gain = kp /\ pid'.kd = kd /\ pid'.integral = integral /\ pid'.error_l = e
      /\ pid'.output = Output(kp, integral, e, pid.error_l)
  <2> HIDE DEF e, integral
  <2> QED
    BY <1>1
<1>6. pid' \in [gain : Int, kd : Int, integral : Int, error_l : Int, output : Int]
  <2>1. integral \in Int
    BY <1>3, ServoAssumption
  <2> HIDE DEF e, integral
  <2> QED
    BY <1>1, <1>2, <1>4, <2>1
<1>7. TypeOK'
  BY <1>6 DEF UpdateController, Inv, TypeOK, errorVars, stopVars, tuning, params
<1>8. OutputInv'
  <2> HIDE DEF e, integral
  <2> QED
    BY <1>3, <1>4, <1>5 DEF OutputInv
<1>9. LastErrorInv'
  <2>1. error' = error /\ error \in Int /\ pid'.error_l = 0 - error
    BY <1>5 DEF UpdateController, Inv, TypeOK, errorVars
  <2>2. error' + pid'.error_l = 0
    BY <2>1
  <2> QED
    BY <2>1, <2>2, ErrorAssumption DEF LastErrorInv, Abs
<1>10. HistoryInv' /\ (WINDOW >= 2 => StopLine')
  BY StopUnchanged DEF UpdateController
<1>11. ErrorInRange' /\ ServoInRange' /\ GainInv'
  BY <1>5 DEF UpdateController, Inv, GainInv, GainCapped, ErrorInRange, ServoInRange,
              errorVars, tuning, params
<1> QED
  BY <1>7, <1>8, <1>9, <1>10, <1>11 DEF Inv

\* The servo moves, for main or for the shell.
LEMMA ServoPreserves == Inv /\ (Steer \/ set_angle_cmd) => Inv'
<1> SUFFICES ASSUME Inv, Steer \/ set_angle_cmd PROVE Inv'
  OBVIOUS
<1>1. \E a \in Int : servo1_set_angle(a)
  <2>1. CASE Steer
    <3>1. PICK switch1 \in BOOLEAN : servo1_set_angle(IF switch1 THEN pid.output ELSE 0)
      BY <2>1 DEF Steer
    <3>2. pid \in [gain : Int, kd : Int, integral : Int, error_l : Int, output : Int]
      BY DEF Inv, TypeOK
    <3>3. pid.output \in Int
      BY <3>2
    <3> QED
      BY <3>1, <3>3
  <2>2. CASE set_angle_cmd
    BY <2>2, ServoAssumption DEF set_angle_cmd
  <2> QED
    BY <2>1, <2>2
<1>2. angle' \in Int /\ Abs(angle') <= HALF
  BY <1>1, ServoBound
<1>3. UNCHANGED <<errorVars, stopVars, wheels, kp, pid, tuning>>
  BY DEF Steer, set_angle_cmd
<1>4. (pc = "steer" /\ pc' = "frame") \/ pc' = pc
  BY DEF Steer, set_angle_cmd
<1>5. Steer => pid.error_l = 0 - error
  BY DEF Steer, Inv, LastErrorInv
<1>6. TypeOK'
  BY <1>2, <1>3, <1>4 DEF Inv, TypeOK, errorVars, stopVars, tuning, params
<1>7. HistoryInv' /\ (WINDOW >= 2 => StopLine')
  BY <1>3, StopUnchanged
<1>8. OutputInv' /\ ErrorInRange' /\ ServoInRange' /\ GainInv'
  BY <1>2, <1>3, <1>4 DEF Inv, OutputInv, ErrorInRange, ServoInRange, GainInv, GainCapped,
                          errorVars, tuning, params
<1>9. LastErrorInv'
  BY <1>3, <1>4, <1>5 DEF Inv, LastErrorInv, errorVars, Steer, set_angle_cmd
<1> QED
  BY <1>6, <1>7, <1>8, <1>9 DEF Inv

\* Every step preserves the invariant.
LEMMA NextInv == Inv /\ [Next]_vars => Inv'
<1> SUFFICES ASSUME Inv, [Next]_vars PROVE Inv'
  OBVIOUS
<1>1. CASE compute_error
  BY <1>1, ErrorPreserves
<1>2. CASE stop_car_judge \/ Drive \/ ComputeGain \/ LimitGain \/ CapGain
           \/ set_steer_pid_param_cmd
  BY <1>2, FramePreserves
<1>3. CASE UpdateController
  BY <1>3, UpdatePreserves
<1>4. CASE Steer \/ set_angle_cmd
  BY <1>4, ServoPreserves
<1>5. CASE UNCHANGED vars
  <2>1. HistoryInv' /\ (WINDOW >= 2 => StopLine')
    BY <1>5, StopUnchanged DEF vars
  <2>2. TypeOK'
    BY <1>5 DEF Inv, TypeOK, vars, errorVars, stopVars, steerVars, tuning, params
  <2>3. /\ ErrorInRange' /\ LastErrorInv' /\ OutputInv'
        /\ GainInv' /\ ServoInRange'
    BY <1>5 DEF Inv, ErrorInRange, LastErrorInv, OutputInv, GainInv, GainCapped, ServoInRange,
                vars, errorVars, steerVars, tuning, params
  <2> QED
    BY <2>1, <2>2, <2>3 DEF Inv
<1> QED
  BY <1>1, <1>2, <1>3, <1>4, <1>5 DEF Next

\* Inv is an invariant of main's frames and the shell.
THEOREM Invariance == Spec => []Inv
  BY InitInv, NextInv, PTL DEF Spec

\* The variables keep their types, for all gains of the shell.
THEOREM FrameControlTypeCorrect == Spec => []TypeOK
<1>1. Inv => TypeOK
  BY DEF Inv
<1> QED
  BY <1>1, Invariance, PTL

\* The steering error never leaves its range, in any image.
THEOREM ErrorBounded == Spec => []ErrorInRange
<1>1. Inv => ErrorInRange
  BY DEF Inv
<1> QED
  BY <1>1, Invariance, PTL

\* The servo never leaves its half range, whatever the controller or the shell
\* asks for.
THEOREM ServoSafe == Spec => []ServoInRange
<1>1. Inv => ServoInRange
  BY DEF Inv
<1> QED
  BY <1>1, Invariance, PTL

\* The stop line is counted over exactly the last WINDOW frames, although the
\* loop shifts in place and writes past the array.
THEOREM StopLineCounted == Spec => [](WINDOW >= 2 => StopLine)
<1>1. Inv => (WINDOW >= 2 => StopLine)
  BY DEF Inv
<1> QED
  BY <1>1, Invariance, PTL

\* The controller never works with a gain above every limit that was in force
\* since the gain was begun, wherever in the frame the shell moves the limit.
THEOREM GainLimited == Spec => []GainCapped
<1>1. Inv => GainCapped
  BY DEF Inv, GainInv
<1> QED
  BY <1>1, Invariance, PTL

\* A proportional part beyond the limit of the integral decides the output's
\* sign, for all gains and limits.
THEOREM IntegralYields == Spec => []WindupYields
<1>1. Inv => WindupYields
  <2> SUFFICES ASSUME Inv, pid.kd = 0, OUT_MAX > 0
               PROVE  /\ pid.gain * pid.error_l > WINDUP => pid.output > 0
                      /\ pid.gain * pid.error_l < -WINDUP => pid.output < 0
    BY DEF WindupYields
  <2> DEFINE p == pid.gain * pid.error_l
  <2>1. pid \in [gain : Int, kd : Int, integral : Int, error_l : Int, output : Int]
    BY DEF Inv, TypeOK
  <2>2. p \in Int /\ pid.integral \in Int
    BY <2>1
  <2>3. /\ pid.integral \in -WINDUP..WINDUP
        /\ pid.output = Clamp(p + pid.integral, -OUT_MAX, OUT_MAX)
    BY DEF Inv, OutputInv
  <2> HIDE DEF p
  <2>4. (p > WINDUP => pid.output > 0) /\ (p < -WINDUP => pid.output < 0)
    BY <2>2, <2>3, ServoAssumption DEF Clamp
  <2> QED
    BY <2>4 DEF p
<1> QED
  BY <1>1, Invariance, PTL

\* From one frame to the next the error moves by no more than its step.
THEOREM ErrorMovesSlowly == Spec => ErrorSmooth
<1>1. Inv /\ [Next]_vars => [Abs(error' - error) <= ERR_STEP]_vars
  <2> SUFFICES ASSUME Inv, Next PROVE Abs(error' - error) <= ERR_STEP
    OBVIOUS
  <2>1. error \in Int /\ Abs(error) <= ERR_MAX
    BY DEF Inv, TypeOK, ErrorInRange
  <2>2. CASE compute_error
    <3>1. PICK CenterMeanValue \in -HALF_WIDTH..(LAST + HALF_WIDTH) :
        error' = Limited(CenterMeanValue - MID, error)
      BY <2>2 DEF compute_error
    <3> QED
      BY <2>1, <3>1, LimitedBounds, ErrorAssumption
  <2>3. CASE error' = error
    BY <2>1, <2>3, ErrorAssumption DEF Abs
  <2>4. compute_error \/ error' = error
    BY DEF Next, stop_car_judge, Drive, ComputeGain, LimitGain, CapGain, UpdateController, Steer,
           set_steer_pid_param_cmd, set_angle_cmd, errorVars
  <2> QED
    BY <2>2, <2>3, <2>4
<1> QED
  BY <1>1, Invariance, PTL DEF Spec, ErrorSmooth

\* A stopped car's wheels are given no speed, whatever the differential.
THEOREM StoppedCarStands == Spec => StoppedMeansZero
<1>1. Inv /\ [Next]_vars =>
        [stop_car_flag = 1 /\ wheels' # wheels => \A w \in Wheel : wheels'[w] = 0]_vars
  <2> SUFFICES ASSUME Inv, Next, stop_car_flag = 1, wheels' # wheels
               PROVE  \A w \in Wheel : wheels'[w] = 0
    OBVIOUS
  <2>1. Drive
    BY DEF Next, compute_error, stop_car_judge, ComputeGain, LimitGain, CapGain,
           UpdateController, Steer, set_steer_pid_param_cmd, set_angle_cmd
  <2>2. wheels' = WheelSpeeds(0, error)
    BY <2>1 DEF Drive
  <2>3. DIFF_P * error * 0 = 0
    <3>1. DIFF_P * error \in Int
      BY StopAssumption DEF Inv, TypeOK
    <3> QED
      BY <3>1
  <2> QED
    BY <2>2, <2>3 DEF WheelSpeeds
<1> QED
  BY <1>1, Invariance, PTL DEF Spec, StoppedMeansZero

\* While gain and integral stay and there is no derivative part, the servo's
\* command moves no faster than the error, scaled by the gain.
THEOREM OutputMovesSlowly == Spec => SteerSlew
<1>1. Inv /\ Inv' /\ [Next]_vars =>
        [pid.kd = 0 /\ pid'.kd = 0 /\ pid'.gain = pid.gain /\ pid'.integral = pid.integral =>
           Abs(pid'.output - pid.output) <= Abs(pid.gain) * ERR_STEP]_vars
  <2> SUFFICES ASSUME Inv, Inv', Next, pid.kd = 0, pid'.kd = 0,
                      pid'.gain = pid.gain, pid'.integral = pid.integral
               PROVE  Abs(pid'.output - pid.output) <= Abs(pid.gain) * ERR_STEP
    OBVIOUS
  <2> DEFINE g == pid.gain  e == pid.error_l  f == pid'.error_l  i == pid.integral
  <2>1. /\ pid \in [gain : Int, kd : Int, integral : Int, error_l : Int, output : Int]
        /\ pid' \in [gain : Int, kd : Int, integral : Int, error_l : Int, output : Int]
        /\ error \in Int
    BY DEF Inv, TypeOK
  <2>2. g \in Int /\ e \in Int /\ f \in Int /\ i \in Int
    BY <2>1
  <2>3. Abs(f - e) <= ERR_STEP
    <3>1. CASE UpdateController
      <4>1. f = 0 - error
        BY <3>1 DEF UpdateController
      <4>2. Abs(error + e) <= ERR_STEP
        BY DEF Inv, LastErrorInv
      <4> HIDE DEF e, f
      <4> QED
        BY <2>1, <2>2, <4>1, <4>2 DEF Abs
    <3>2. CASE pid' = pid
      BY <3>2, <2>2, ErrorAssumption DEF Abs
    <3>3. UpdateController \/ pid' = pid
      BY DEF Next, compute_error, stop_car_judge, Drive, ComputeGain, LimitGain, CapGain, Steer,
             set_steer_pid_param_cmd, set_angle_cmd, steerVars
    <3> QED
      BY <3>1, <3>2, <3>3
  <2>4. /\ pid.output = Clamp(g * e + i, -OUT_MAX, OUT_MAX)
        /\ pid'.output = Clamp(g * f + i, -OUT_MAX, OUT_MAX)
    BY DEF Inv, OutputInv
  <2>5. g * e \in Int /\ g * f \in Int /\ g * f - g * e = g * (f - e)
    <3> HIDE DEF g, e, f
    <3> QED
      BY <2>2
  <2>6. Abs(pid'.output - pid.output) <= Abs(g * f - g * e)
    <3> HIDE DEF g, e, f, i
    <3>1. /\ g * f + i \in Int /\ g * e + i \in Int
          /\ (g * f + i) - (g * e + i) = g * f - g * e
      BY <2>2, <2>5
    <3>2. -OUT_MAX \in Int /\ OUT_MAX \in Int /\ -OUT_MAX <= OUT_MAX
      BY ServoAssumption
    <3>3. \A x, y \in Int : Abs(Clamp(x, -OUT_MAX, OUT_MAX) - Clamp(y, -OUT_MAX, OUT_MAX))
                             <= Abs(x - y)
      BY <3>2, ClampContracts
    <3> QED
      BY <2>4, <3>1, <3>3
  <2>7. Abs(g * (f - e)) <= Abs(g) * ERR_STEP
    <3> HIDE DEF g, e, f
    <3>1. f - e \in Int
      BY <2>2
    <3> QED
      BY <2>2, <2>3, <3>1, ProductBound, ErrorAssumption
  <2>8. /\ pid'.output \in Int /\ pid.output \in Int
        /\ Abs(g) * ERR_STEP \in Int /\ g * (f - e) \in Int
    BY <2>1, <2>2, ErrorAssumption DEF Abs
  <2> HIDE DEF g, e, f
  <2>9. Abs(pid'.output - pid.output) <= Abs(g) * ERR_STEP
    <3>1. Abs(pid'.output - pid.output) <= Abs(g * (f - e))
      BY <2>5, <2>6
    <3>2. Abs(g * (f - e)) \in Int /\ Abs(pid'.output - pid.output) \in Int
      BY <2>8 DEF Abs
    <3> QED
      BY <3>1, <3>2, <2>7, <2>8
  <2> QED
    BY <2>9 DEF g
<1> QED
  BY <1>1, Invariance, PTL DEF Spec, SteerSlew
=============================================================================
