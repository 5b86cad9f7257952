---------------------------- MODULE DriveProofs ----------------------------
(***************************************************************************)
(* Proofs about the drive, for all speeds, errors, gains and limits.        *)
(* CreateInv, PairInv and ChannelInv strengthen NoNullWheel, TargetsPaired  *)
(* and ChannelsExclusive to inductive invariants.                           *)
(***************************************************************************)
EXTENDS Drive, TLAPS

\* The chassis thread creates the left wheel, then the right one.
CreateInv ==
  /\ NoNullWheel
  /\ chassis = "create" => created = (IF wheel = Left THEN {} ELSE {Left})

\* Until a speed is typed, what main has written so far is its own pair.
PairInv ==
  ~typed =>
    /\ caller[Shell] = "blocked"
    /\ caller[Main] = "blocked" => target = issued
    /\ caller[Main] = Right => target[Left] = pair[Main][Left]

\* Between its two writes motor_run has set channel A.
ChannelInv ==
  /\ ChannelsExclusive
  /\ chassis = "chb" => cha[wheel] = (IF thousands >= 0 THEN thousands ELSE 0)

Inv == TypeOK /\ CreateInv /\ PairInv /\ ChannelInv

----------------------------------------------------------------------------

\* limit_int keeps its result within the limit, on both sides.
LEMMA LimitBounds ==
  ASSUME NEW x \in Int, NEW y \in Nat
  PROVE  limit_int(x, y) \in -y .. y
  BY DEF limit_int

\* A duty lies within the limit of motor_run for every output of the controller.
LEMMA CommandBounds ==
  ASSUME NEW x \in Int, running \in BOOLEAN
  PROVE  Command(x) \in -MaxDuty .. MaxDuty
<1>1. limit_int(x, MOTOR_MAX) \in -MOTOR_MAX .. MOTOR_MAX
  BY LimitBounds, DriveAssumption
<1> QED
  BY <1>1, DriveAssumption DEF Command, MaxDuty

\* The speeds of a call are integers.
LEMMA WheelSpeedsType ==
  ASSUME NEW v \in Int, NEW e \in Int
  PROVE  WheelSpeeds(v, e) \in [Wheel -> Int]
<1>1. DIFF_P * e * v \in Int
  BY DriveAssumption
<1> QED
  BY <1>1 DEF WheelSpeeds

\* Entering set_velocity: what a call may change before the first wheel is set.
LEMMA EnterCall ==
  ASSUME TypeOK, CreateInv, NEW t \in Caller, NEW v \in Int, NEW e \in Int,
         set_velocity(t, v, e), caller[t] = "blocked"
  PROVE  /\ caller' \in [Caller -> Wheel \cup {"blocked"}]
         /\ pair' \in [Caller -> [Wheel -> Int]]
         /\ \A u \in Caller : caller'[u] \in Wheel => created = Wheel
         /\ \A u \in Caller : u # t => caller'[u] = caller[u]
         /\ caller'[t] # Right
         /\ caller'[t] = "blocked" => caller' = caller
         /\ typed' \in BOOLEAN
<1>1. CASE created = Wheel
  <2>1. caller' = [caller EXCEPT ![t] = Left]
    BY <1>1 DEF set_velocity
  <2>2. pair' = [pair EXCEPT ![t] = WheelSpeeds(v, e)]
    BY <1>1 DEF set_velocity
  <2>3. WheelSpeeds(v, e) \in [Wheel -> Int]
    BY WheelSpeedsType
  <2>4. typed' = (t = Shell)
    BY <1>1, Zenon DEF set_velocity
  <2>5. typed' \in BOOLEAN
    BY <2>4, Zenon
  <2> QED
    BY <1>1, <2>1, <2>2, <2>3, <2>5 DEF TypeOK, Wheel, Left, Right
<1>2. CASE created # Wheel
  <2>1. UNCHANGED <<caller, pair, typed>>
    BY <1>2 DEF set_velocity
  <2>2. typed' \in BOOLEAN
    BY <2>1, Zenon DEF TypeOK
  <2> QED
    BY <1>2, <2>1, <2>2 DEF TypeOK, CreateInv, NoNullWheel, Wheel, Left, Right
<1> QED
  BY <1>1, <1>2

----------------------------------------------------------------------------

\* The initial states satisfy the invariant.
LEMMA InitInv == Init => Inv
<1> SUFFICES ASSUME Init PROVE Inv
  OBVIOUS
<1>1. TypeOK
  <2>1. 0 \in -MaxDuty .. MaxDuty /\ 0 \in 0 .. MaxDuty
    BY DriveAssumption DEF MaxDuty
  <2>2. switch2 \in BOOLEAN /\ switch4 \in BOOLEAN /\ running \in BOOLEAN
        /\ typed \in BOOLEAN
    BY DEF Init
  <2> QED
    BY <2>1, <2>2, DriveAssumption DEF Init, TypeOK, Wheel, NoPair
<1>2. CreateInv
  BY DEF Init, CreateInv, NoNullWheel, Caller, Wheel, Left, Right
<1>3. PairInv
  <2>1. target = issued /\ \A t \in Caller : caller[t] = "blocked"
    BY DEF Init
  <2> QED
    BY <2>1 DEF PairInv, Caller, Right
<1>4. ChannelInv
  BY DEF Init, ChannelInv, ChannelsExclusive, Wheel
<1> QED
  BY <1>1, <1>2, <1>3, <1>4 DEF Inv

\* A frame of main.
LEMMA FramePreserves == Inv /\ Frame => Inv'
<1> SUFFICES ASSUME Inv, Frame PROVE Inv'
  OBVIOUS
<1>1. PICK v \in Speed \cup {0}, e \in Error : set_velocity(Main, v, e)
  BY DEF Frame
<1>2. v \in Int /\ e \in Int /\ Main \in Caller
  BY DriveAssumption DEF Caller
<1>3. /\ caller' \in [Caller -> Wheel \cup {"blocked"}]
      /\ pair' \in [Caller -> [Wheel -> Int]]
      /\ \A u \in Caller : caller'[u] \in Wheel => created = Wheel
      /\ typed' \in BOOLEAN
      /\ \A u \in Caller : u # Main => caller'[u] = caller[u]
      /\ caller'[Main] # Right
      /\ caller'[Main] = "blocked" => caller' = caller
  BY <1>1, <1>2, EnterCall DEF Frame, Inv
<1>4. UNCHANGED <<created, target, issued, chassisVars, switch2, switch4>>
  BY DEF Frame
<1>5. TypeOK'
  BY <1>3, <1>4 DEF Inv, TypeOK, chassisVars
<1>6. CreateInv'
  BY <1>3, <1>4 DEF Inv, CreateInv, NoNullWheel, chassisVars
<1>7. PairInv'
  <2>1. CASE created = Wheel
    <3>1. caller[Shell] = "blocked"
      BY DEF Frame, MayRun
    <3>2. caller'[Shell] = "blocked" /\ caller'[Main] = Left
      BY <1>1, <2>1, <3>1 DEF set_velocity, Inv, TypeOK, Caller, Main, Shell
    <3> QED
      BY <3>2 DEF PairInv, Left, Right
  <2>2. CASE created # Wheel
    BY <1>1, <1>4, <2>2 DEF set_velocity, PairInv, Inv
  <2> QED
    BY <2>1, <2>2
<1>8. ChannelInv'
  BY <1>4 DEF Inv, ChannelInv, ChannelsExclusive, chassisVars
<1> QED
  BY <1>5, <1>6, <1>7, <1>8 DEF Inv

\* A speed typed at the shell.
LEMMA CommandPreserves == Inv /\ set_velocity_cmd => Inv'
<1> SUFFICES ASSUME Inv, set_velocity_cmd PROVE Inv'
  OBVIOUS
<1>1. PICK v \in Speed : set_velocity(Shell, v, 0)
  BY DEF set_velocity_cmd
<1>2. v \in Int /\ 0 \in Int /\ Shell \in Caller
  BY DriveAssumption DEF Caller
<1>3. /\ caller' \in [Caller -> Wheel \cup {"blocked"}]
      /\ pair' \in [Caller -> [Wheel -> Int]]
      /\ \A u \in Caller : caller'[u] \in Wheel => created = Wheel
      /\ typed' \in BOOLEAN
  BY <1>1, <1>2, EnterCall DEF set_velocity_cmd, Inv
<1>4. UNCHANGED <<created, target, issued, chassisVars, switch2, switch4>>
  BY DEF set_velocity_cmd
<1>5. TypeOK'
  BY <1>3, <1>4 DEF Inv, TypeOK, chassisVars
<1>6. CreateInv'
  BY <1>3, <1>4 DEF Inv, CreateInv, NoNullWheel, chassisVars
<1>7. PairInv'
  <2>1. CASE created = Wheel
    BY <1>1, <2>1 DEF set_velocity, PairInv
  <2>2. CASE created # Wheel
    BY <1>1, <1>4, <2>2 DEF set_velocity, PairInv, Inv
  <2> QED
    BY <2>1, <2>2
<1>8. ChannelInv'
  BY <1>4 DEF Inv, ChannelInv, ChannelsExclusive, chassisVars
<1> QED
  BY <1>5, <1>6, <1>7, <1>8 DEF Inv

\* The left or the right half of a call.
LEMMA SetSpeedPreserves ==
  ASSUME Inv, NEW t \in Caller, wheel_set_speed(t)
  PROVE  Inv'
<1>1. caller[t] \in Wheel /\ pair[t][caller[t]] \in Int /\ pair[t] \in [Wheel -> Int]
  BY DEF wheel_set_speed, Inv, TypeOK
<1>2. NextWheel(caller[t]) \in Wheel \cup {"blocked"}
  BY DEF NextWheel, Wheel
<1>3. /\ UNCHANGED <<created, typed, chassisVars, switch2, switch4>>
      /\ pair' = IF NextWheel(caller[t]) = "blocked"
                   THEN [pair EXCEPT ![t] = NoPair] ELSE pair
      /\ NoPair \in [Wheel -> Int]
  BY DEF wheel_set_speed, NoPair
<1>4. target' = [target EXCEPT ![caller[t]] = pair[t][caller[t]]]
  BY DEF wheel_set_speed
<1>5. caller' = [caller EXCEPT ![t] = NextWheel(caller[t])]
  BY DEF wheel_set_speed
<1>6. issued' = IF NextWheel(caller[t]) = "blocked" THEN pair[t] ELSE issued
  BY DEF wheel_set_speed
<1>7. TypeOK'
  <2>1. target' \in [Wheel -> Int]
    BY <1>1, <1>4 DEF Inv, TypeOK
  <2>2. caller' \in [Caller -> Wheel \cup {"blocked"}]
    BY <1>2, <1>5 DEF Inv, TypeOK
  <2>3. issued' \in [Wheel -> Int]
    BY <1>1, <1>6 DEF Inv, TypeOK
  <2>4. pair' \in [Caller -> [Wheel -> Int]]
    BY <1>3 DEF Inv, TypeOK
  <2> QED
    BY <2>1, <2>2, <2>3, <2>4, <1>3 DEF Inv, TypeOK, chassisVars
<1>8. CreateInv'
  <2>1. created = Wheel
    BY <1>1 DEF Inv, CreateInv, NoNullWheel
  <2> QED
    BY <2>1, <1>3 DEF Inv, CreateInv, NoNullWheel, chassisVars
<1>9. PairInv'
  <2> SUFFICES ASSUME ~typed, ~typed'
               PROVE  /\ caller'[Shell] = "blocked"
                      /\ caller'[Main] = "blocked" => target' = issued'
                      /\ caller'[Main] = Right => target'[Left] = pair'[Main][Left]
    BY <1>3 DEF PairInv
  <2>1. t = Main
    BY <1>1 DEF Inv, PairInv, Caller, Wheel, Left, Right
  <2>2. caller'[Shell] = "blocked" /\ caller'[Main] = NextWheel(caller[Main])
    BY <2>1, <1>5 DEF Inv, TypeOK, PairInv, Caller, Main, Shell
  <2>3. CASE caller[Main] = Left
    <3>1. NextWheel(caller[Main]) = Right
      BY <2>3 DEF NextWheel
    <3>2. target'[Left] = pair[Main][Left]
      BY <2>1, <2>3, <1>4 DEF Inv, TypeOK, Wheel
    <3>3. pair' = pair
      BY <3>1, <2>1, <1>3 DEF Right
    <3> QED
      BY <3>1, <3>2, <3>3, <2>2 DEF Right
  <2>4. CASE caller[Main] = Right
    <3>1. NextWheel(caller[Main]) = "blocked"
      BY <2>4 DEF NextWheel, Left, Right
    <3>2. target'[Right] = pair[Main][Right] /\ target'[Left] = pair[Main][Left]
      BY <2>1, <2>4, <1>4 DEF Inv, TypeOK, PairInv, Wheel, Left, Right
    <3>3. target' \in [Wheel -> Int] /\ pair[Main] \in [Wheel -> Int]
      BY <1>1, <1>4, <2>1 DEF Inv, TypeOK
    <3>4. target' = pair[Main]
      BY <3>2, <3>3 DEF Wheel
    <3> QED
      BY <3>1, <3>4, <2>1, <2>2, <1>6 DEF Right
  <2> QED
    BY <2>1, <2>3, <2>4, <1>1 DEF Wheel
<1>10. ChannelInv'
  BY <1>3 DEF Inv, ChannelInv, ChannelsExclusive, chassisVars
<1> QED
  BY <1>7, <1>8, <1>9, <1>10 DEF Inv

\* The chassis thread creates the wheels.
LEMMA CreatePreserves == Inv /\ wheel_create => Inv'
<1> SUFFICES ASSUME Inv, wheel_create PROVE Inv'
  OBVIOUS
<1>1. TypeOK'
  BY DEF Inv, TypeOK, wheel_create, callVars, Wheel
<1>2. CreateInv'
  <2>1. CASE wheel = Left
    BY <2>1 DEF Inv, TypeOK, CreateInv, NoNullWheel, wheel_create, ChassisMayRun,
                callVars, Wheel, Left, Right
  <2>2. CASE wheel = Right
    BY <2>2 DEF Inv, TypeOK, CreateInv, NoNullWheel, wheel_create, ChassisMayRun,
                callVars, Wheel, Left, Right
  <2> QED
    BY <2>1, <2>2 DEF Inv, TypeOK, Wheel
<1>3. PairInv'
  BY DEF Inv, PairInv, wheel_create, callVars
<1>4. ChannelInv'
  BY DEF Inv, ChannelInv, ChannelsExclusive, wheel_create
<1> QED
  BY <1>1, <1>2, <1>3, <1>4 DEF Inv

\* A period begins, and a controller is updated.
LEMMA PeriodPreserves == Inv /\ (StartPeriod \/ wheel_update) => Inv'
<1> SUFFICES ASSUME Inv, StartPeriod \/ wheel_update PROVE Inv'
  OBVIOUS
<1>1. TypeOK'
  <2>1. CASE StartPeriod
    BY <2>1 DEF Inv, TypeOK, StartPeriod, callVars, Wheel
  <2>2. CASE wheel_update
    <3>1. PICK x \in (-MAX_OUT .. MAX_OUT) : thousands' = Command(x)
      BY <2>2 DEF wheel_update
    <3>2. thousands' \in -MaxDuty .. MaxDuty
      BY <3>1, CommandBounds, DriveAssumption DEF Inv, TypeOK
    <3>3. used' \in [Wheel -> Int]
      BY <2>2 DEF Inv, TypeOK, wheel_update, TargetOf
    <3> QED
      BY <2>2, <3>2, <3>3 DEF Inv, TypeOK, wheel_update, callVars
  <2> QED
    BY <2>1, <2>2
<1>2. CreateInv'
  BY DEF Inv, CreateInv, NoNullWheel, StartPeriod, wheel_update, callVars
<1>3. PairInv'
  BY DEF Inv, PairInv, StartPeriod, wheel_update, callVars
<1>4. ChannelInv'
  BY DEF Inv, ChannelInv, ChannelsExclusive, StartPeriod, wheel_update
<1> QED
  BY <1>1, <1>2, <1>3, <1>4 DEF Inv

\* The first write of motor_run.
LEMMA ChaPreserves == Inv /\ motor_run_cha => Inv'
<1> SUFFICES ASSUME Inv, motor_run_cha PROVE Inv'
  OBVIOUS
<1>1. cha' = [cha EXCEPT ![wheel] = IF thousands >= 0 THEN thousands ELSE 0]
  BY DEF motor_run_cha
<1>2. /\ wheel \in Wheel /\ thousands \in -MaxDuty .. MaxDuty /\ MaxDuty \in Int
      /\ cha \in [Wheel -> 0 .. MaxDuty] /\ chb \in [Wheel -> 0 .. MaxDuty]
  BY DriveAssumption DEF Inv, TypeOK, MaxDuty
<1>3. chassis = "cha" /\ chassis' = "chb"
  BY DEF motor_run_cha
<1>4. /\ UNCHANGED <<wheel, thousands, chb>>
  BY DEF motor_run_cha
<1>5. TypeOK'
  <2>1. cha' \in [Wheel -> 0 .. MaxDuty]
    BY <1>1, <1>2
  <2> QED
    BY <2>1 DEF Inv, TypeOK, motor_run_cha, callVars
<1>6. CreateInv'
  BY DEF Inv, CreateInv, NoNullWheel, motor_run_cha, callVars
<1>7. PairInv'
  BY DEF Inv, PairInv, motor_run_cha, callVars
<1>8. ChannelInv'
  <2>1. cha'[wheel] = IF thousands >= 0 THEN thousands ELSE 0
    BY <1>1, <1>2
  <2>2. \A w \in Wheel : w # wheel => cha'[w] = cha[w]
    BY <1>1, <1>2
  <2>3. \A w \in Wheel : cha[w] = 0 \/ chb[w] = 0
    BY <1>3 DEF Inv, ChannelInv, ChannelsExclusive
  <2>4. \A w \in Wheel : (cha'[w] # 0 /\ chb'[w] # 0) => wheel = w /\ thousands > 0
    BY <2>1, <2>2, <2>3, <1>2, <1>4
  <2> QED
    BY <2>1, <2>4, <1>3, <1>4 DEF ChannelInv, ChannelsExclusive
<1> QED
  BY <1>5, <1>6, <1>7, <1>8 DEF Inv

\* The second write of motor_run.
LEMMA ChbPreserves == Inv /\ motor_run_chb => Inv'
<1> SUFFICES ASSUME Inv, motor_run_chb PROVE Inv'
  OBVIOUS
<1>1. chb' = [chb EXCEPT ![wheel] = DutyB(wheel)]
  BY DEF motor_run_chb
<1>2. /\ wheel \in Wheel /\ thousands \in -MaxDuty .. MaxDuty /\ MaxDuty \in Int
      /\ cha \in [Wheel -> 0 .. MaxDuty] /\ chb \in [Wheel -> 0 .. MaxDuty]
  BY DriveAssumption DEF Inv, TypeOK, MaxDuty
<1>3. chassis = "chb" /\ chassis' \in {"update", "sleep"} /\ cha' = cha
  BY DEF motor_run_chb
<1>4. TypeOK'
  <2>1. DutyB(wheel) \in 0 .. MaxDuty
    BY <1>2 DEF DutyB
  <2>2. chb' \in [Wheel -> 0 .. MaxDuty]
    BY <1>1, <1>2, <2>1
  <2> QED
    BY <2>2 DEF Inv, TypeOK, motor_run_chb, callVars, Wheel
<1>5. CreateInv'
  BY DEF Inv, CreateInv, NoNullWheel, motor_run_chb, callVars
<1>6. PairInv'
  BY DEF Inv, PairInv, motor_run_chb, callVars
<1>7. ChannelInv'
  <2>1. cha[wheel] = (IF thousands >= 0 THEN thousands ELSE 0)
    BY <1>3 DEF Inv, ChannelInv
  <2>2. cha[wheel] = 0 \/ chb'[wheel] = 0
    BY <2>1, <1>1, <1>2 DEF DutyB
  <2>3. \A w \in Wheel : w # wheel => chb'[w] = chb[w] /\ (cha[w] = 0 \/ chb[w] = 0)
    BY <1>1, <1>2 DEF Inv, ChannelInv, ChannelsExclusive
  <2>4. \A w \in Wheel : cha'[w] = 0 \/ chb'[w] = 0
    BY <2>2, <2>3, <1>2, <1>3
  <2> QED
    BY <2>4, <1>3 DEF ChannelInv, ChannelsExclusive
<1> QED
  BY <1>4, <1>5, <1>6, <1>7 DEF Inv

\* Every step preserves the invariant.
LEMMA NextInv == Inv /\ [Next]_vars => Inv'
<1> SUFFICES ASSUME Inv, [Next]_vars PROVE Inv'
  OBVIOUS
<1>1. CASE Frame
  BY <1>1, FramePreserves
<1>2. CASE set_velocity_cmd
  BY <1>2, CommandPreserves
<1>3. CASE \E t \in Caller : wheel_set_speed(t)
  BY <1>3, SetSpeedPreserves
<1>4. CASE wheel_create
  BY <1>4, CreatePreserves
<1>5. CASE StartPeriod \/ wheel_update
  BY <1>5, PeriodPreserves
<1>6. CASE motor_run_cha
  BY <1>6, ChaPreserves
<1>7. CASE motor_run_chb
  BY <1>7, ChbPreserves
<1>8. CASE Flip
  BY <1>8 DEF Flip, Inv, TypeOK, CreateInv, NoNullWheel, PairInv, ChannelInv,
              ChannelsExclusive, callVars, chassisVars
<1>9. CASE UNCHANGED vars
  BY <1>9 DEF vars, Inv, TypeOK, CreateInv, NoNullWheel, PairInv, ChannelInv,
              ChannelsExclusive, callVars, chassisVars
<1> QED
  BY <1>1, <1>2, <1>3, <1>4, <1>5, <1>6, <1>7, <1>8, <1>9 DEF Next

\* Inv is an invariant of the drive.
THEOREM Invariance == Spec => []Inv
  BY InitInv, NextInv, PTL DEF Spec

\* Types, and motor_run's limit on every duty, for all limits of the PID.
THEOREM DriveTypeCorrect == Spec => []TypeOK
<1>1. Inv => TypeOK
  BY DEF Inv
<1> QED
  BY <1>1, Invariance, PTL

\* set_velocity never uses a wheel that does not exist, however main, the
\* shell and the chassis thread are interleaved at start-up.
THEOREM WheelsExist == Spec => []NoNullWheel
<1>1. Inv => NoNullWheel
  BY DEF Inv, CreateInv
<1> QED
  BY <1>1, Invariance, PTL

\* Unless a speed was typed since main's last call began, the wheels' targets are
\* those of one call when main waits for a frame.
THEOREM SpeedsPaired == Spec => []TargetsPaired
<1>1. Inv => TargetsPaired
  BY DEF Inv, PairInv, TargetsPaired
<1> QED
  BY <1>1, Invariance, PTL

\* Both channels of a motor are on only inside motor_run, turning forwards.
THEOREM ChannelsSafe == Spec => []ChannelsExclusive
<1>1. Inv => ChannelsExclusive
  BY DEF Inv, ChannelInv
<1> QED
  BY <1>1, Invariance, PTL

----------------------------------------------------------------------------
(* A period that found switch 2 off.  SwitchStopsMotors is liveness; this is  *)
(* the part of it that every single period fulfils.                          *)

Off(w) == cha[w] = 0 /\ chb[w] = 0

\* The next time chassis_thread sleeps, such a period has stopped both motors.
PeriodStops == chassis = "sleep" /\ ~running => \A w \in Wheel : Off(w)

\* How far the period has come: the duty is 0, the left motor is done before the
\* right one, and of the motor at hand channel A first.
StopInv ==
  ~running =>
    /\ chassis \in {"cha", "chb"} => thousands = 0
    /\ chassis = "chb" => cha[wheel] = 0
    /\ chassis \in {"update", "cha", "chb"} /\ wheel = Right => Off(Left)
    /\ chassis = "sleep" => Off(Left) /\ Off(Right)

\* Every step keeps StopInv.
LEMMA StopStep == Inv /\ StopInv /\ [Next]_vars => StopInv'
<1> SUFFICES ASSUME Inv, StopInv, [Next]_vars PROVE StopInv'
  OBVIOUS
<1>1. /\ Left # Right /\ wheel \in {Left, Right}
      /\ cha \in [Wheel -> 0 .. MaxDuty] /\ chb \in [Wheel -> 0 .. MaxDuty]
      /\ Left \in Wheel /\ Right \in Wheel
  BY DEF Inv, TypeOK, Wheel, Left, Right
<1>2. CASE UNCHANGED chassisVars
  BY <1>2 DEF StopInv, Off, chassisVars
<1>3. CASE wheel_create
  BY <1>3 DEF wheel_create, StopInv
<1>4. CASE StartPeriod
  BY <1>1, <1>4 DEF StartPeriod, StopInv
<1>5. CASE wheel_update
  <2>1. ~running => thousands' = 0
    BY <1>5 DEF wheel_update, Command
  <2>. QED
    BY <1>5, <2>1 DEF wheel_update, StopInv, Off
<1>6. CASE motor_run_cha
  <2>1. /\ chassis = "cha" /\ chassis' = "chb" /\ UNCHANGED <<wheel, running, thousands, chb>>
        /\ cha' = [cha EXCEPT ![wheel] = IF thousands >= 0 THEN thousands ELSE 0]
    BY <1>6 DEF motor_run_cha
  <2>2. ~running => thousands = 0 /\ (wheel = Right => Off(Left))
    BY <2>1 DEF StopInv
  <2>3. ~running => cha'[wheel] = 0
    BY <1>1, <2>1, <2>2
  <2>4. wheel = Right => cha'[Left] = cha[Left]
    BY <1>1, <2>1
  <2>. QED
    BY <2>1, <2>2, <2>3, <2>4 DEF StopInv, Off
<1>7. CASE motor_run_chb
  <2>1. /\ chassis = "chb" /\ UNCHANGED <<running, thousands, cha>>
        /\ chassis' = (IF wheel = Left THEN "update" ELSE "sleep")
        /\ wheel' = (IF wheel = Left THEN Right ELSE Left)
        /\ chb' = [chb EXCEPT ![wheel] = DutyB(wheel)]
    BY <1>7 DEF motor_run_chb
  <2>2. ~running => thousands = 0 /\ cha[wheel] = 0 /\ (wheel = Right => Off(Left))
    BY <2>1 DEF StopInv
  <2>3. ~running => chb'[wheel] = 0
    BY <1>1, <2>1, <2>2 DEF DutyB
  <2>4. wheel = Right => chb'[Left] = chb[Left]
    BY <1>1, <2>1
  <2>. QED
    BY <1>1, <2>1, <2>2, <2>3, <2>4 DEF StopInv, Off
<1>8. Frame \/ set_velocity_cmd \/ (\E t \in Caller : wheel_set_speed(t)) \/ Flip
        => UNCHANGED chassisVars
  BY DEF Frame, set_velocity_cmd, wheel_set_speed, Flip
<1>. QED
  BY <1>2, <1>3, <1>4, <1>5, <1>6, <1>7, <1>8 DEF Next, vars

\* One period is enough: chassis_thread reads switch 2 once, and when it was off
\* both motors stand still by the time the thread sleeps, whatever main and the
\* shell set meanwhile and however the switch is flipped during the period.
THEOREM OnePeriodStops == Spec => []PeriodStops
<1>1. Init => StopInv
  BY DEF Init, StopInv
<1>2. StopInv => PeriodStops
  BY DEF StopInv, PeriodStops, Wheel
<1>. QED
  BY <1>1, <1>2, StopStep, Invariance, PTL DEF Spec
============================================================================
