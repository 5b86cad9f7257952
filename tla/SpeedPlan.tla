----------------------------- MODULE SpeedPlan -----------------------------
(***************************************************************************)
(* The speed main asks the drive for, once per frame: velocity_set          *)
(* (distinguish.c:266-347), with the types of the frames before it.         *)
(*                                                                         *)
(* road[k] is the type recorded k frames ago: road_type[k], read before the *)
(* shift that ends velocity_set.  The parts of the record the code reads,   *)
(* 3..5, 6..10 and 9..13, are constants, so that shorter ones can be        *)
(* checked.  What the image shows is an input.  The speeds are constants:   *)
(* dym_param_set_cmd, the shell's tuning aid, is left out, and so is the    *)
(* beep of a new ring or cross (TrackElements has it).                      *)
(***************************************************************************)
EXTENDS Integers

CONSTANTS
  s_zhi, s_max, s_wan1, s_wan2, s_cross, s_huan,
  SHORT_CUT, CURVE_CUT,             \* 70, 30: the cut after a long straight
  SHORT_DIV, CURVE_DIV,             \* 35, 40: errors of the lowest speed
  ERR_MAX,                          \* compute_error's bound
  HIST,                             \* bound: the part of road_type modelled
  SEEN_FROM, SEEN_TO,               \* 3..5: were these curves?
  SHORT_FROM, SHORT_TO,             \* 6..10: a long straight?
  CURVE_FROM, CURVE_TO,             \* 9..13: a long straight?
  SPILL      \* does road_type[200] alias shortstraight_flag in this build?

ASSUME SpeedAssumption ==
  /\ s_zhi \in Nat /\ s_max \in Nat /\ s_wan1 \in Nat /\ s_wan2 \in Nat
  /\ s_cross \in Nat /\ s_huan \in Nat
  /\ s_wan2 <= s_wan1 /\ s_wan1 <= s_zhi
  /\ SHORT_CUT \in Nat /\ CURVE_CUT \in Nat
  /\ SHORT_DIV \in Nat /\ SHORT_DIV > 0 /\ CURVE_DIV \in Nat /\ CURVE_DIV > 0
  /\ ERR_MAX \in Nat

ASSUME RecordAssumption ==
  /\ HIST \in Nat /\ HIST > 0 /\ SPILL \in BOOLEAN
  /\ SEEN_FROM..SEEN_TO \subseteq 1..HIST
  /\ SHORT_FROM..SHORT_TO \subseteq 1..HIST
  /\ CURVE_FROM..CURVE_TO \subseteq 1..HIST

\* The windows that look for a long straight, 6..10 and 9..13, are not empty and
\* begin well inside the record of 200 types.
ASSUME WindowAssumption ==
  /\ SHORT_FROM \in Nat /\ SHORT_TO \in Nat /\ SHORT_FROM <= SHORT_TO
  /\ CURVE_FROM \in Nat /\ CURVE_TO \in Nat /\ CURVE_FROM <= CURVE_TO
  /\ SHORT_FROM < HIST /\ CURVE_FROM < HIST

LONG == "long straight"
SHORT == "short straight"
CURVE == "curve"
LOOP == "ring"
CROSS == "cross"
NONE == "none"
RoadType == {LONG, SHORT, CURVE, LOOP, CROSS, NONE}

VARIABLES
  road,      \* road_type
  straight,  \* is shortstraight_flag set?  No assignment clears it
  error,     \* steer_error_ave of the frame
  speed_set,
  how,       \* history: the branch that chose speed_set
  run,       \* history: frames of the last type so far
  before     \* history: the type and the frames of the run before that
vars == <<road, straight, error, speed_set, how, run, before>>

Abs(x) == IF x < 0 THEN -x ELSE x
Greater(a, b) == IF a < b THEN b ELSE a
Smaller(a, b) == IF a < b THEN a ELSE b

Init ==
  /\ road = [k \in 1..HIST |-> NONE]
  /\ straight = FALSE
  /\ error = 0 /\ speed_set = 0 /\ how = "start"
  /\ run = 0 /\ before = [type |-> NONE, n |-> 0]

\* Were the frames from..to of the record all of type t?
All(t, from, to) == \A k \in from..to : road[k] = t

\* Fault variant: the error is not divided.
ShortSpeed_steep(e) == s_zhi - (s_zhi - s_wan1) * Abs(e)

\* Integer division: full speed up to SHORT_DIV, the lowest from there.
ShortSpeed(e) == Greater(s_zhi - (s_zhi - s_wan1) * (Abs(e) \div SHORT_DIV), s_wan1)

\* Fault variant: the error is not squared.
CurveSpeed_linear(e) ==
  Smaller(Greater(s_wan1 - ((s_wan1 - s_wan2) * e) \div CURVE_DIV, s_wan2), s_wan1)

CurveSpeed(e) ==
  Smaller(Greater(s_wan1 - ((s_wan1 - s_wan2) * (e * e)) \div (CURVE_DIV * CURVE_DIV),
                  s_wan2),
          s_wan1)

\* A short straight: cut the speed after a long straight, do not accelerate
\* out of a curve, else slow down with the error.
ShortBranch ==
  IF All(LONG, SHORT_FROM, SHORT_TO) THEN "cut"
  ELSE IF All(CURVE, SEEN_FROM, SEEN_TO) THEN "curved" ELSE "error"
CurveBranch == IF All(LONG, CURVE_FROM, CURVE_TO) THEN "cut" ELSE "error"

Branch(type) ==
  CASE type = SHORT -> ShortBranch
    [] type = CURVE -> CurveBranch
    [] OTHER -> "fixed"

Speed(type, branch, e) ==
  CASE type = LOOP -> s_huan
    [] type = CROSS -> s_cross
    [] type = LONG -> s_max
    [] type = SHORT -> (CASE branch = "cut" -> s_zhi - SHORT_CUT
                          [] branch = "curved" -> s_wan1
                          [] OTHER -> ShortSpeed(e))
    [] OTHER -> IF branch = "cut" THEN s_wan1 - CURVE_CUT ELSE CurveSpeed(e)

\* The first case that holds decides.
Type(ring, cross, long, judged) ==
  IF ring THEN LOOP
  ELSE IF cross THEN CROSS
  ELSE IF long THEN LONG
  ELSE IF judged THEN SHORT ELSE CURVE

\* Fault variant: the shift runs upwards and copies one type over the record.
Shifted_up(type) == [k \in 1..HIST |-> type]

Shifted(type) == [k \in 1..HIST |-> IF k = 1 THEN type ELSE road[k - 1]]

\* The straights are judged only outside a cross; long_straight_flag starts
\* from 0 in every frame, shortstraight_flag does not.  The shift ends with a
\* store of a type of long ago past the record, on shortstraight_flag if SPILL.
velocity_set(ring, cross, long, short, e) ==
  /\ error' = e
  /\ LET judged == straight \/ (~cross /\ short)
         type == Type(ring, cross, long /\ ~cross, judged)
     IN
       /\ straight' \in IF SPILL THEN BOOLEAN ELSE {judged}
       /\ how' = Branch(type)
       /\ speed_set' = Speed(type, Branch(type), e)
       /\ road' = Shifted(type)
       /\ IF type = road[1]
          THEN run' = Smaller(run + 1, HIST) /\ UNCHANGED before
          ELSE run' = 1 /\ before' = [type |-> road[1], n |-> run]

Frame ==
  \E ring \in BOOLEAN, cross \in BOOLEAN, long \in BOOLEAN, short \in BOOLEAN,
     e \in -ERR_MAX..ERR_MAX : velocity_set(ring, cross, long, short, e)

Next == Frame
Spec == Init /\ [][Next]_vars

----------------------------------------------------------------------------
(* Properties.                                                              *)

TypeOK ==
  /\ road \in [1..HIST -> RoadType]
  /\ straight \in BOOLEAN
  /\ error \in -ERR_MAX..ERR_MAX
  /\ speed_set \in Int
  /\ how \in {"start", "cut", "curved", "error", "fixed"}
  /\ run \in 0..HIST /\ (how # "start" => road[1] # NONE /\ run > 0)
  /\ before \in [type : RoadType, n : 0..HIST]

\* Whatever the error (squared and multiplied before it is divided), the speed
\* is one of the parameters, one of the two cut ones, or lies between the
\* curve's lowest and the straight's.
SpeedInRange ==
  how # "start" =>
    \/ speed_set \in {s_max, s_cross, s_huan, s_zhi - SHORT_CUT, s_wan1 - CURVE_CUT}
    \/ s_wan2 <= speed_set /\ speed_set <= s_zhi

\* From one frame to the next of the same kind, a greater error never makes
\* the car faster, to whichever side it is.
SlowerWhenWorse ==
  [][how = "error" /\ how' = "error" /\ road[1] = road'[1] /\ Abs(error) <= Abs(error')
       => speed_set' <= speed_set]_vars

\* An error of more than 35 (40 in a curve) gives the lowest speed
\* (the comments at distinguish.c:316 and :337).
LowestWhenFar ==
  how = "error" =>
    /\ road[1] = SHORT /\ Abs(error) > SHORT_DIV => speed_set = s_wan1
    /\ road[1] = CURVE /\ Abs(error) > CURVE_DIV => speed_set = s_wan2

\* A car that comes off a long straight brakes at once, and only if the straight
\* was long: in the run-th frame of a short straight (of a curve) its speed is
\* cut exactly when the straight covers the window of the record.
CutAfterStraight ==
  before.type = LONG =>
    /\ road[1] = SHORT /\ run + before.n > SHORT_FROM =>
         (how = "cut" <=> run <= SHORT_FROM /\ run + before.n > SHORT_TO)
    /\ road[1] = CURVE /\ run + before.n > CURVE_FROM =>
         (how = "cut" <=> run <= CURVE_FROM /\ run + before.n > CURVE_TO)
=============================================================================
