---------------------------- MODULE FrameControl ----------------------------
(***************************************************************************)
(* What main does with a frame after the lines are found (main.c:91-114):   *)
(* the steering error (compute_error), the stop line (stop_car_judge), the  *)
(* speeds of the wheels (set_velocity), the gain and the output of the      *)
(* steering controller (pos_pid_controller.c), the servo (servo.c).         *)
(*                                                                         *)
(* Quantities are integers: an error of 1 is a pixel, gains are whole.      *)
(* The shell (tshell, priority 5) preempts main between the steps of a      *)
(* frame and may retune the controller; main never interrupts the shell.    *)
(***************************************************************************)
EXTENDS Integers, FiniteSets

CONSTANTS
  LAST,        \* 159: the last column of the image
  MID,         \* 80: the column of a straight line
  HALF_WIDTH,  \* 72: the greatest half_width, by which a fill leaves the image
  ERR_MAX,     \* 80
  ERR_STEP,    \* 15: the error changes by no more in a frame
  WINDOW,      \* 20: stop_car's length
  NEED,        \* 15: marks among them that stop the car
  Speed,       \* what velocity_set chooses
  DEAD,        \* 10: no differential up to this error
  DIFF_P,      \* wheel_diff_p
  Gains,       \* what set_steer_pid_param_cmd may set: basic_kp, kp_max,
  Slopes,      \* kp_j,
  IntegralGains, DerivativeGains,            \* ki, kd
  START_KP, START_J, START_MAX, START_KI, START_KD,  \* and as built
  OUT_MAX,     \* SERVO_PID_MAX_OUT
  WINDUP,      \* OUT_MAX * ANTI_WIND_RADIO
  ANGLE_MAX,   \* servo1_set_angle's limit
  HALF,        \* SERVO1_HALF_ONE
  ASK_MAX      \* set_angle_cmd is given at most this

ASSUME ErrorAssumption ==
  /\ LAST \in Nat /\ MID \in Nat /\ HALF_WIDTH \in Nat
  /\ ERR_MAX \in Nat /\ ERR_STEP \in Nat

ASSUME StopAssumption ==
  /\ WINDOW \in Nat /\ WINDOW > 0 /\ NEED \in 1..WINDOW
  /\ Speed \subseteq Int /\ DEAD \in Nat /\ DIFF_P \in Int

ASSUME ServoAssumption ==
  /\ Gains \subseteq Int /\ Slopes \subseteq Int
  /\ IntegralGains \subseteq Int /\ DerivativeGains \subseteq Int
  /\ START_KP \in Int /\ START_J \in Int /\ START_MAX \in Int
  /\ START_KI \in Int /\ START_KD \in Int
  /\ OUT_MAX \in Nat /\ WINDUP \in Nat
  /\ ANGLE_MAX \in Nat /\ ANGLE_MAX > 0 /\ HALF \in Nat
  /\ ASK_MAX \in Nat

VARIABLES
  pc,          \* the step of the frame main is at
  error,       \* steer_error[0]; steer_error[1] once the history is shifted
  stop_car,    \* stop_car[0..WINDOW-1]
  stop_car_flag,
  overlap,     \* does stop_car_flag lie where stop_car[WINDOW] would be?
  wheels,      \* the speeds set_velocity gave the wheels last
  basic_kp, kp_j, kp_max, ki, kd,   \* steer_basic_kp and so on
  kp,          \* steer_kp
  pid,         \* of rho_err_pid: gain (its kp), kd, integral, error_l, output
  angle,       \* what servo1_set_angle wrote, relative to SERVO1_MID_POS
  past,        \* history: past[k], had the frame k frames ago a mark?
  highest      \* history: the greatest kp_max since this frame's gain was begun

errorVars == <<error>>
stopVars == <<stop_car, stop_car_flag, overlap, past>>
steerVars == <<kp, pid, angle>>
params == <<basic_kp, kp_j, kp_max, ki, kd>>
tuning == <<params, highest>>
vars == <<pc, errorVars, stopVars, wheels, steerVars, tuning>>

Wheel == {"left", "right"}

Init ==
  /\ pc = "frame"
  /\ error = 0
  /\ stop_car = [k \in 0..(WINDOW - 1) |-> 0] /\ stop_car_flag = 0
  /\ overlap \in BOOLEAN
  /\ past = [k \in 0..(WINDOW - 1) |-> 0]
  /\ wheels = [w \in Wheel |-> 0]
  /\ basic_kp = START_KP /\ kp_j = START_J /\ kp_max = START_MAX
  /\ ki = START_KI /\ kd = START_KD
  /\ kp = START_KP
  /\ pid = [gain |-> START_KP, kd |-> START_KD, integral |-> 0, error_l |-> 0, output |-> 0]
  /\ angle = 0
  /\ highest = START_MAX

----------------------------------------------------------------------------
(* Arithmetic.                                                              *)

Abs(x) == IF x < 0 THEN -x ELSE x
\* x kept within lo..hi, as the code does it: the upper limit first.
Clamp(x, lo, hi) == IF x > hi THEN hi ELSE IF x < lo THEN lo ELSE x
\* C's conversion of a quotient to int: towards zero.
Quotient(x, d) == IF x < 0 THEN -((-x) \div d) ELSE x \div d

\* compute_error: the range, then the step from the frame before.
Limited(e, last) ==
  Clamp(Clamp(e, -ERR_MAX, ERR_MAX), last - ERR_STEP, last + ERR_STEP)

\* compute_error.  The mean of f1.midline over the rows below toppoint, each with
\* its weight, is a column of the image or, as findline2's fills do not limit it
\* there, beside it by up to half_width; it stays 0 if no row has a weight.
compute_error ==
  /\ pc = "frame" /\ pc' = "stop"
  /\ \E CenterMeanValue \in -HALF_WIDTH..(LAST + HALF_WIDTH) :
       error' = Limited(CenterMeanValue - MID, error)
  /\ UNCHANGED <<stopVars, wheels, steerVars, tuning>>

----------------------------------------------------------------------------
(* stop_car_judge.                                                          *)

\* Fault variant: the loop runs upwards and copies one mark over the array.
Shift_up(mark) == [k \in 0..(WINDOW - 1) |-> mark]

\* stop_car after the loop that copies it upwards: the mark is in [0] and [1].
Shift(mark) ==
  [k \in 0..(WINDOW - 1) |-> IF k <= 1 THEN mark ELSE stop_car[k - 1]]

\* The loop counts stop_car[1..WINDOW] after the copy, one past the end.
MarkCount(mark) ==
  Cardinality({k \in 1..(WINDOW - 1) : Shift(mark)[k] = 1}) + stop_car[WINDOW - 1]

\* stop_car[WINDOW] may be stop_car_flag itself, cleared before the loop.
stop_car_judge ==
  /\ pc = "stop" /\ pc' = "drive"
  /\ \E mark \in {0, 1} :
       /\ stop_car' = Shift(mark)
       /\ stop_car_flag' = IF MarkCount(mark) >= NEED THEN 1
                           ELSE IF overlap THEN stop_car[WINDOW - 1] ELSE 0
       /\ past' = [k \in 0..(WINDOW - 1) |-> IF k = 0 THEN mark ELSE past[k - 1]]
  /\ UNCHANGED <<overlap, errorVars, wheels, steerVars, tuning>>

----------------------------------------------------------------------------
(* The wheels and the steering.                                             *)

\* set_velocity.
WheelSpeeds(velocity, e) ==
  LET computed == IF Abs(e) > DEAD THEN DIFF_P * e * velocity ELSE 0
  IN  [w \in Wheel |-> IF w = "left" THEN velocity + computed ELSE velocity - computed]

\* The stop line overrules velocity_set; switch 4 lets the speed through.
Drive ==
  /\ pc = "drive" /\ pc' = "gain"
  /\ \E s \in Speed, switch4 \in BOOLEAN :
       wheels' = IF switch4
                 THEN WheelSpeeds(IF stop_car_flag = 1 THEN 0 ELSE s, error)
                 ELSE wheels
  /\ UNCHANGED <<errorVars, stopVars, steerVars, tuning>>

\* steer_kp grows with the square of the error.
ComputeGain ==
  /\ pc = "gain" /\ pc' = "limit"
  /\ kp' = basic_kp + error * error * kp_j
  /\ highest' = kp_max
  /\ UNCHANGED <<errorVars, stopVars, wheels, pid, angle, params>>

LimitGain ==
  /\ pc = "limit" /\ pc' = IF kp >= kp_max THEN "cap" ELSE "update"
  /\ UNCHANGED <<errorVars, stopVars, wheels, steerVars, tuning>>

\* Fault variant: the limit is the one main started with.
CapGain_cached ==
  /\ pc = "cap" /\ pc' = "update"
  /\ kp' = START_MAX
  /\ UNCHANGED <<errorVars, stopVars, wheels, pid, angle, tuning>>

CapGain ==
  /\ pc = "cap" /\ pc' = "update"
  /\ kp' = kp_max
  /\ UNCHANGED <<errorVars, stopVars, wheels, pid, angle, tuning>>

\* Fault variant: the integral is not limited.
Integral_free(integral, e) == integral + ki * e

Integral(integral, e) == Clamp(integral + ki * e, -WINDUP, WINDUP)

Output(gain, integral, e, e_l) ==
  Clamp(gain * e + integral + kd * (e - e_l), -OUT_MAX, OUT_MAX)

\* controller_set_param and pos_pid_controller_update; the target is 0.
UpdateController ==
  /\ pc = "update" /\ pc' = "steer"
  /\ LET e == 0 - error
         integral == Integral(pid.integral, e)
     IN  pid' = [gain |-> kp, kd |-> kd, integral |-> integral, error_l |-> e,
                 output |-> Output(kp, integral, e, pid.error_l)]
  /\ UNCHANGED <<errorVars, stopVars, wheels, kp, angle, tuning>>

\* servo1_set_angle.
servo1_set_angle(a) == angle' = Quotient(Clamp(a, -ANGLE_MAX, ANGLE_MAX) * HALF, ANGLE_MAX)

Steer ==
  /\ pc = "steer" /\ pc' = "frame"
  /\ \E switch1 \in BOOLEAN :
       servo1_set_angle(IF switch1 THEN pid.output ELSE 0)
  /\ UNCHANGED <<errorVars, stopVars, wheels, kp, pid, tuning>>

\* set_steer_pid_param_cmd: all five parameters, whatever step main is at.
set_steer_pid_param_cmd ==
  /\ basic_kp' \in Gains /\ kp_j' \in Slopes /\ kp_max' \in Gains
  /\ ki' \in IntegralGains /\ kd' \in DerivativeGains
  /\ highest' = IF kp_max' > highest THEN kp_max' ELSE highest
  /\ UNCHANGED <<pc, errorVars, stopVars, wheels, steerVars>>

\* set_angle_cmd: the servo is moved until main's next frame.
set_angle_cmd ==
  /\ \E a \in -ASK_MAX..ASK_MAX : servo1_set_angle(a)
  /\ UNCHANGED <<pc, errorVars, stopVars, wheels, kp, pid, tuning>>

Next ==
  \/ compute_error \/ stop_car_judge \/ Drive \/ ComputeGain \/ LimitGain \/ CapGain
  \/ UpdateController \/ Steer \/ set_steer_pid_param_cmd \/ set_angle_cmd

Spec == Init /\ [][Next]_vars

----------------------------------------------------------------------------
(* Properties.                                                              *)

TypeOK ==
  /\ pc \in {"frame", "stop", "drive", "gain", "limit", "cap", "update", "steer"}
  /\ error \in Int
  /\ stop_car \in [0..(WINDOW - 1) -> {0, 1}]
  /\ past \in [0..(WINDOW - 1) -> {0, 1}]
  /\ stop_car_flag \in {0, 1} /\ overlap \in BOOLEAN
  /\ wheels \in [Wheel -> Int]
  /\ basic_kp \in Int /\ kp_j \in Int /\ kp_max \in Int /\ ki \in Int /\ kd \in Int
  /\ highest \in Int /\ kp \in Int
  /\ pid \in [gain : Int, kd : Int, integral : Int, error_l : Int, output : Int]
  /\ angle \in Int

\* However far a fill drew the middle line out of the image (findline2), the
\* error compute_error leaves for the speed and the servo is in its range.
ErrorInRange == Abs(error) <= ERR_MAX

\* It changes by no more than ERR_STEP a frame, the line lost or not
\* (compute_error).
ErrorSmooth == [][Abs(error' - error) <= ERR_STEP]_vars

MarksIn(p) == Cardinality({k \in DOMAIN p : p[k] = 1})

\* The car is stopped exactly when NEED of the last WINDOW frames had a mark
\* (stop_car_judge).  Where the write behind the array hits stop_car_flag, a mark
\* may stop it besides, but only in the one frame in which that mark is the
\* oldest of the window.
StopLine ==
  /\ MarksIn(past) >= NEED => stop_car_flag = 1
  /\ stop_car_flag = 1 => MarksIn(past) >= NEED \/ (overlap /\ past[WINDOW - 1] = 1)

\* Speeds that reach the wheels of a stopped car are zero for both, however
\* great the steering error (set_velocity).
StoppedMeansZero ==
  [][stop_car_flag = 1 /\ wheels' # wheels => \A w \in Wheel : wheels'[w] = 0]_vars

\* The servo is never driven past its half range, by main or by the shell
\* (servo1_set_angle).
ServoInRange == Abs(angle) <= HALF

\* The integral is limited so that an error whose share exceeds the limit
\* turns the output its way, however long the error was of the other sign and
\* whatever ki the integral was collected with (pos_pid_controller_update).
WindupYields ==
  LET p == pid.gain * pid.error_l IN
    pid.kd = 0 /\ OUT_MAX > 0 =>
      /\ p > WINDUP => pid.output > 0
      /\ p < -WINDUP => pid.output < 0

\* While neither gain nor integral changes and there is no derivative part (as
\* with the parameters of the build), the output moves by no more than the gain
\* times the step of the error (pos_pid_controller_update).
SteerSlew ==
  [][pid.kd = 0 /\ pid'.kd = 0 /\ pid'.gain = pid.gain /\ pid'.integral = pid.integral =>
       Abs(pid'.output - pid.output) <= Abs(pid.gain) * ERR_STEP]_vars

\* The shell may replace kp_max after main has compared the gain with it, and
\* between the comparison and the assignment.  The gain the controller works with
\* is still within a limit that was in force during this frame: a limit
\* lowered before the frame's gain was begun is never exceeded (main.c).
GainCapped == pc = "steer" => pid.gain <= highest
=============================================================================
