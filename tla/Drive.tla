------------------------------- MODULE Drive -------------------------------
(***************************************************************************)
(* The drive: how a speed reaches the two motors.                           *)
(*                                                                         *)
(*   main     (priority 10)  once per frame: set_velocity with the speed    *)
(*            velocity_set chose, or 0 at the stop line (main.c)            *)
(*   tshell   (priority 5)   set_velocity_cmd (chassisThread.c)             *)
(*   chassis  (priority 30)  creates the wheels, then every 50 ms updates   *)
(*            both of them (chassisThread.c, wheel.c, motor.c)              *)
(*                                                                         *)
(* No lock protects the wheels (main creates chassis_dmutex, nobody takes   *)
(* it): a thread is interrupted between any two of its steps by a thread of *)
(* higher priority, which then runs until it blocks.  Speeds are in cm/s;   *)
(* the constant factor speed_to_rpm is left out.  The arithmetic of the     *)
(* incremental PID is reduced to the range it is clamped to.                *)
(***************************************************************************)
EXTENDS Integers

CONSTANTS
  Speed,      \* the speeds velocity_set chooses from, and the shell's
  Error,      \* values of steer_error_ave
  DIFF_P,     \* wheel_diff_p
  Unset,      \* what controller_create leaves in target
  MAX_OUT,    \* WHEEL_PID_MAX_OUT
  MOTOR_MAX   \* motor_run's limit

ASSUME DriveAssumption ==
  /\ Speed \subseteq Int /\ Error \subseteq Int /\ DIFF_P \in Int
  /\ Unset \in Int
  /\ MAX_OUT \in Nat /\ MOTOR_MAX \in Nat

Left == "left"
Right == "right"
Wheel == {Left, Right}

VARIABLES
  created,    \* the wheels of which left_wheel, right_wheel is not RT_NULL
  target,     \* w_controller->target of each wheel
  caller,     \* per thread that calls set_velocity: where it is in the call
  pair,       \* per such thread: left_speed and right_speed of its call
  issued,     \* history: the pair of the call that finished last
  typed,      \* history: a speed was typed after main's last call began
  chassis,    \* where chassis_thread is
  wheel,      \* the wheel it is working on
  running,    \* did this period find switch 2 on?
  used,       \* the target each wheel's controller was last updated with
  thousands,  \* the duty motor_run is to write
  cha, chb,   \* duty of each motor's two PWM channels
  switch2, switch4

chassisVars == <<chassis, wheel, running, used, thousands, cha, chb>>
callVars == <<target, caller, pair, issued, typed>>
vars == <<created, callVars, chassisVars, switch2, switch4>>

Main == "main"
Shell == "tshell"
Caller == {Main, Shell}

NoPair == [w \in Wheel |-> 0]

Init ==
  /\ created = {}
  /\ target = [w \in Wheel |-> Unset]
  /\ caller = [t \in Caller |-> "blocked"]
  /\ pair = [t \in Caller |-> NoPair]
  /\ issued = [w \in Wheel |-> Unset] /\ typed = FALSE
  /\ chassis = "create" /\ wheel = Left /\ running = FALSE
  /\ used = [w \in Wheel |-> Unset] /\ thousands = 0
  /\ cha = [w \in Wheel |-> 0] /\ chb = [w \in Wheel |-> 0]
  /\ switch2 \in BOOLEAN /\ switch4 \in BOOLEAN

----------------------------------------------------------------------------
(* set_velocity, called by main and by the shell.                           *)

\* A caller runs only while no caller of higher priority is ready, the chassis
\* thread only while both callers are blocked.
MayRun(t) == t = Main => caller[Shell] = "blocked"
ChassisMayRun == \A t \in Caller : caller[t] = "blocked"

Abs(x) == IF x < 0 THEN -x ELSE x

\* The two speeds for a velocity and a steering error.
WheelSpeeds(velocity, steer_error) ==
  LET computed == IF Abs(steer_error) > 10 THEN DIFF_P * steer_error * velocity ELSE 0
  IN  [w \in Wheel |-> IF w = Left THEN velocity + computed ELSE velocity - computed]

\* Fault variant: only the left wheel is tested.
set_velocity_OneTest(t, velocity, steer_error) ==
  /\ caller' = [caller EXCEPT ![t] = IF Left \in created THEN Left ELSE "blocked"]
  /\ pair' = [pair EXCEPT ![t] = WheelSpeeds(velocity, steer_error)]
  /\ typed' = (t = Shell)

\* The test for RT_NULL and the computation; the call ends here if a wheel is
\* missing.
set_velocity(t, velocity, steer_error) ==
  IF created = Wheel
    THEN /\ caller' = [caller EXCEPT ![t] = Left]
         /\ pair' = [pair EXCEPT ![t] = WheelSpeeds(velocity, steer_error)]
         /\ typed' = (t = Shell)
    ELSE UNCHANGED <<caller, pair, typed>>

\* A frame: main is woken, computes, and gives the speed on if switch 4 is on.
Frame ==
  /\ caller[Main] = "blocked" /\ MayRun(Main)
  /\ switch4
  /\ \E velocity \in Speed \cup {0}, steer_error \in Error :
       set_velocity(Main, velocity, steer_error)
  /\ UNCHANGED <<created, target, issued, chassisVars, switch2, switch4>>

set_velocity_cmd ==
  /\ caller[Shell] = "blocked"
  /\ \E velocity \in Speed : set_velocity(Shell, velocity, 0)
  /\ UNCHANGED <<created, target, issued, chassisVars, switch2, switch4>>

\* Fault variant: the call ends after the left wheel.
NextWheel_LeftOnly(w) == "blocked"

\* Where the call is after setting wheel w.
NextWheel(w) == IF w = Left THEN Right ELSE "blocked"

\* wheel_set_speed of one wheel, then of the other; the call's locals end with it.
wheel_set_speed(t) ==
  /\ MayRun(t) /\ caller[t] \in Wheel
  /\ target' = [target EXCEPT ![caller[t]] = pair[t][caller[t]]]
  /\ caller' = [caller EXCEPT ![t] = NextWheel(caller[t])]
  /\ issued' = IF NextWheel(caller[t]) = "blocked" THEN pair[t] ELSE issued
  /\ pair' = IF NextWheel(caller[t]) = "blocked"
               THEN [pair EXCEPT ![t] = NoPair] ELSE pair
  /\ UNCHANGED <<created, typed, chassisVars, switch2, switch4>>

----------------------------------------------------------------------------
(* chassis_thread.                                                          *)

\* Motor, encoder, controller and wheel of one side.
wheel_create ==
  /\ chassis = "create" /\ ChassisMayRun
  /\ created' = created \cup {wheel}
  /\ wheel' = IF wheel = Left THEN Right ELSE Left
  /\ chassis' = IF wheel = Left THEN "create" ELSE "delay"
  /\ UNCHANGED <<callVars, running, used, thousands, cha, chb, switch2, switch4>>

\* A period: switch 2 is read once, for both wheels.
StartPeriod ==
  /\ chassis \in {"delay", "sleep"} /\ ChassisMayRun
  /\ running' = switch2
  /\ wheel' = Left
  /\ chassis' = "update"
  /\ UNCHANGED <<created, callVars, used, thousands, cha, chb, switch2, switch4>>

\* Fault variant: only the positive side is limited.
limit_int_OneSided(x, y) == IF x > y THEN y ELSE x

limit_int(x, y) == IF x > y THEN y ELSE IF x < -y THEN -y ELSE x

\* Fault variant: with switch 2 off the motors are left alone.
Command_Kept(output) ==
  IF running THEN 10 * limit_int(output, MOTOR_MAX) ELSE cha[wheel] - chb[wheel]

\* The duty for an output of the controller; 0 with switch 2 off.
Command(output) == IF running THEN 10 * limit_int(output, MOTOR_MAX) ELSE 0

\* Fault variant: the left wheel's target serves both wheels.
TargetOf_Left(w) == target[Left]

\* The target the controller of wheel w is updated with.
TargetOf(w) == target[w]

\* wheel_update: the controller turns target and speed into an output within
\* MAX_OUT.
wheel_update ==
  /\ chassis = "update" /\ ChassisMayRun
  /\ \E output \in (-MAX_OUT .. MAX_OUT) : thousands' = Command(output)
  /\ used' = IF running THEN [used EXCEPT ![wheel] = TargetOf(wheel)] ELSE used
  /\ chassis' = "cha"
  /\ UNCHANGED <<created, callVars, wheel, running, cha, chb, switch2, switch4>>

\* motor_run: channel A is written first, then channel B.
\* Fault variant: the channel a positive duty leaves is not switched off.
DutyB_Kept(w) == IF thousands >= 0 THEN chb[w] ELSE -thousands

\* The duty of channel B of wheel w's motor.
DutyB(w) == IF thousands >= 0 THEN 0 ELSE -thousands

motor_run_cha ==
  /\ chassis = "cha" /\ ChassisMayRun
  /\ cha' = [cha EXCEPT ![wheel] = IF thousands >= 0 THEN thousands ELSE 0]
  /\ chassis' = "chb"
  /\ UNCHANGED <<created, callVars, wheel, running, used, thousands, chb, switch2, switch4>>

motor_run_chb ==
  /\ chassis = "chb" /\ ChassisMayRun
  /\ chb' = [chb EXCEPT ![wheel] = DutyB(wheel)]
  /\ chassis' = IF wheel = Left THEN "update" ELSE "sleep"
  /\ wheel' = IF wheel = Left THEN Right ELSE Left
  /\ UNCHANGED <<created, callVars, running, used, thousands, cha, switch2, switch4>>

\* The driver's switches, on the board.
Flip ==
  /\ \/ switch2' = ~switch2 /\ UNCHANGED switch4
     \/ switch4' = ~switch4 /\ UNCHANGED switch2
  /\ UNCHANGED <<created, callVars, chassisVars>>

ChassisStep ==
  wheel_create \/ StartPeriod \/ wheel_update \/ motor_run_cha \/ motor_run_chb

Next ==
  \/ Frame
  \/ set_velocity_cmd
  \/ \E t \in Caller : wheel_set_speed(t)
  \/ wheel_create
  \/ StartPeriod
  \/ wheel_update
  \/ motor_run_cha
  \/ motor_run_chb
  \/ Flip

Spec == Init /\ [][Next]_vars

\* main blocks on csi_done_sem and the shell on its input after every call, and
\* the time between two frames is enough for the chassis thread to go on.
FairSpec ==
  /\ Spec
  /\ \A t \in Caller : SF_vars(wheel_set_speed(t))
  /\ SF_vars(ChassisStep)

----------------------------------------------------------------------------
(* Properties.                                                              *)

\* The largest duty motor_run may write.
MaxDuty == 10 * MOTOR_MAX

\* Types; no channel is ever given more than motor_run's limit, whatever
\* the controller puts out.
TypeOK ==
  /\ created \subseteq Wheel
  /\ target \in [Wheel -> Int]
  /\ caller \in [Caller -> Wheel \cup {"blocked"}]
  /\ pair \in [Caller -> [Wheel -> Int]]
  /\ issued \in [Wheel -> Int]
  /\ typed \in BOOLEAN
  /\ chassis \in {"create", "delay", "update", "cha", "chb", "sleep"}
  /\ wheel \in Wheel
  /\ running \in BOOLEAN
  /\ used \in [Wheel -> Int]
  /\ thousands \in -MaxDuty .. MaxDuty
  /\ cha \in [Wheel -> 0 .. MaxDuty] /\ chb \in [Wheel -> 0 .. MaxDuty]
  /\ switch2 \in BOOLEAN /\ switch4 \in BOOLEAN

\* set_velocity never touches a wheel that the chassis thread, which may be
\* interrupted between creating the two, has not created yet.
NoNullWheel ==
  /\ \A t \in Caller : caller[t] \in Wheel => created = Wheel
  /\ chassis # "create" => created = Wheel

\* When main waits for a frame and no speed was typed after its last call began,
\* the two targets are those of one call: the car never steers by the left speed
\* of one frame and the right speed of another, and a mix left by a command that
\* interrupted main is gone one frame later (set_velocity takes no lock).
TargetsPaired == caller[Main] = "blocked" /\ ~typed => target = issued

\* A motor has both channels on only between the two writes of motor_run, and
\* only when it is turned from backwards to forwards.
ChannelsExclusive ==
  \A w \in Wheel :
    (cha[w] # 0 /\ chb[w] # 0) => chassis = "chb" /\ wheel = w /\ thousands > 0

\* Switch 2 off, and left off, stops both motors for good.
SwitchStopsMotors ==
  <>[]~switch2 => <>[](\A w \in Wheel : cha[w] = 0 /\ chb[w] = 0)

\* Targets that stay as they are (the stop line's 0 among them) are what both
\* controllers work towards in the end.
TargetsReachWheels ==
  \A w \in Wheel, v \in Speed \cup {0} :
    <>[](created = Wheel /\ switch2 /\ target[w] = v) => <>[](used[w] = v)
============================================================================
