--------------------------- MODULE TrackElements ---------------------------
(***************************************************************************)
(* Track elements: how findline2 (findLines.c) tells crosses and rings from *)
(* the rest of the track over successive frames, and how velocity_set       *)
(* (distinguish.c) classifies each frame.                                   *)
(*                                                                         *)
(* main() runs findline2 and velocity_set once per frame; pc walks through  *)
(* the sections of the two functions in the order of the code.  What a      *)
(* section finds in the picture (a corner, a lost line, an apex) is an      *)
(* input chosen by \E; the flags and counters that survive from frame to    *)
(* frame are the state, with the fill that shaped the middle line last.     *)
(*                                                                         *)
(* The code writes every left/right pair of variables out twice (js1/js2,   *)
(* huanleftflag/huanrightflag, HL/HR ...): here they are functions on Side. *)
(***************************************************************************)
EXTENDS Naturals

Left == "left"
Right == "right"
Side == {Left, Right}
Other(s) == IF s = Left THEN Right ELSE Left

Cleared == [s \in Side |-> 0]

\* The sections of the two functions, in order.
Section == {"corners", "recognise", Left, Right, "inside", "leave",
            "curve", "speed"}

\* stdDeviation as the judgements see it: up to 6, up to 11, more.
Deviation == {"low", "mid", "high"}

\* road_type
LONG_STRAIGHT == 1
SHORT_STRAIGHT == 2
CURVE == 3
LOOP == 4
CROSS == 5

SHIZI_FRAMES == 4   \* frames with a corner that confirm a cross

VARIABLES
  nested,      \* may the picture show another ring while one is being driven?
  spill,       \* does road_type[200] alias shortstraight_flag in this build?
  pc,          \* the section of findline2 or velocity_set to run next
  turnflag,    \* leftturnflag, rightturnflag: 1 slight, 3 deep turn, this frame
  huanguaiflag,\* lefthuanguaiflag, righthuanguaiflag: corners of a ring
  js1js2,      \* js1, js2: steps of recognising a ring on a side
  huanflag,    \* huanleftflag, huanrightflag: a ring ahead on a side
  H,           \* HL, HR: the ring's narrow entrance has been seen
  huan,        \* f2.huan: inside a ring
  js3js4,      \* js3, js4: inside, waiting for the exit to show
  js7js8,      \* js7, js8: driving out of the ring
  shiziflag,   \* shiziflag[0] frames with a corner so far, shiziflag[1] cross
  long_straight_flag, shortstraight_flag,
  deviation,   \* history: stdDeviation of the middle line in this frame
  road_type,   \* road_type[0] this frame, road_type[1] the frame before
  fill,        \* the last filling in of the middle line in this frame
  beeps        \* history: times info_beep is told to blink in this frame

frameVars == <<turnflag, huanguaiflag, fill>>
ringVars == <<js1js2, huanflag, H, huan, js3js4, js7js8>>
speedVars == <<long_straight_flag, shortstraight_flag, deviation, road_type, beeps>>
world == <<nested, spill>>
vars == <<world, pc, frameVars, ringVars, shiziflag, speedVars>>

\* findline1 has left the middle line as it was scanned.
Unfilled == <<"none", Left>>

NoCross == [i \in {0, 1} |-> 0]

\* A ring is ahead, being driven or being left.
RingInProgress == huan = 1 \/ \E s \in Side : huanflag[s] = 1

Init ==
  /\ nested \in BOOLEAN /\ spill = nested   \* neither, or both together
  /\ pc = "corners"
  /\ turnflag = Cleared /\ huanguaiflag = Cleared /\ fill = Unfilled
  /\ js1js2 = Cleared /\ huanflag = Cleared /\ H = Cleared
  /\ huan = 0 /\ js3js4 = Cleared /\ js7js8 = Cleared
  /\ shiziflag = NoCross
  /\ long_straight_flag = 0 /\ shortstraight_flag = 0 /\ deviation = "low"
  /\ road_type = [i \in {0, 1} |-> 0]
  /\ beeps = 0

----------------------------------------------------------------------------
(* findline2: corners, turns and the cross.                                 *)

\* find_huan1: exactly one corner and no line lost on the other side makes the
\* side a candidate for a ring.
find_huan1(corners, unbroken) ==
  [s \in Side |-> IF corners = {s} THEN (IF unbroken THEN 1 ELSE 0) ELSE js1js2[s]]

\* The count of frames with a corner; the fourth confirms the cross.
CountCross(f) ==
  LET count == IF f[1] = 0 THEN f[0] + 1 ELSE f[0]
  IN  IF count = SHIZI_FRAMES
        THEN [i \in {0, 1} |-> i]
        ELSE [i \in {0, 1} |-> IF i = 0 THEN count ELSE f[1]]

\* What each search may return, whatever the picture.
\* find_guai: the corners, at most one per side.
find_guai == SUBSET Side

\* find_curve1: the first slight turn, if any.  (Its lose_cnt, counted up from an
\* uninitialised value, may discard the turn while a cross is being driven.)
find_curve1 == {Cleared} \cup {[Cleared EXCEPT ![s] = 1] : s \in Side}

\* find_curve3: a deep turn, looked for when there is no slight one.
find_curve3(slight) ==
  IF slight # Cleared THEN {slight}
  ELSE {Cleared} \cup {[Cleared EXCEPT ![s] = 3] : s \in Side}

\* shizi_judge and both_row_lose_judge keep the corners whose surroundings look
\* like a cross.
shizi_judge(corners) == SUBSET corners
both_row_lose_judge(corners) == SUBSET corners

\* Of two corners on the wrong sides of each other the nearer is kept.
NearerCorner(corners) ==
  {corners} \cup (IF corners = Side THEN {{s} : s \in Side} ELSE {})

\* The turn and the corners the searches may leave for the fills.
Turns == UNION {find_curve3(slight) : slight \in find_curve1}
KeptCorners(found) ==
  UNION {both_row_lose_judge(nearer) :
           nearer \in UNION {NearerCorner(judged) : judged \in shizi_judge(found)}}

\* The resets, the searches, and the block of the cross.
FindCorners ==
  /\ pc = "corners"
  /\ \E found \in find_guai, unbroken \in BOOLEAN, turns \in Turns :
     \E kept \in KeptCorners(found) :
       /\ js1js2' = find_huan1(found, unbroken)
       /\ turnflag' = IF kept # {} THEN Cleared ELSE turns
       /\ shiziflag' = IF kept # {} THEN CountCross(shiziflag) ELSE shiziflag
  /\ huanguaiflag' = Cleared
  /\ fill' = Unfilled /\ deviation' = "low" /\ beeps' = 0
  /\ pc' = "recognise"
  /\ UNCHANGED <<huanflag, H, huan, js3js4, js7js8, long_straight_flag,
                 shortstraight_flag, road_type>>

----------------------------------------------------------------------------
(* findline2: the ring.                                                     *)

\* find_huan2: the candidate's own line must be lost and found again.
find_huan2(js, regained) ==
  [s \in Side |-> IF js[s] # 1 THEN js[s]
                  ELSE IF js[Other(s)] = 0 /\ regained THEN 2 ELSE 0]

\* find_huan3: the apex of the ring is seen, or the candidate is dropped.
find_huan3(js, apex) ==
  LET k == [s \in Side |-> IF js[s] = 2 /\ js[Other(s)] = 0 /\ apex THEN 3 ELSE js[s]]
  IN  IF \E s \in Side : k[s] = 2 THEN Cleared ELSE k

RecogniseRing ==
  /\ pc = "recognise"
  /\ \E regained, apex \in BOOLEAN :
       LET k == find_huan3(find_huan2(js1js2, regained), apex)
           found == {s \in Side : k[s] = 3}
       IN  /\ found # {} => nested \/ ~RingInProgress
           /\ huanflag' = [s \in Side |-> IF s \in found THEN 1 ELSE huanflag[s]]
           /\ js1js2' = [s \in Side |-> IF s \in found THEN 0 ELSE k[s]]
           /\ shiziflag' = IF found # {} THEN NoCross ELSE shiziflag
  /\ pc' = Left
  /\ UNCHANGED <<frameVars, H, huan, js3js4, js7js8, speedVars>>

\* find_huanguai stops at the first new corner of the ring it finds, if any.
find_huanguai(found) ==
  [s \in Side |-> IF s \in found THEN 1 ELSE huanguaiflag[s]]

\* Fault variant: the car gets inside without f2.huan being set.
FollowRing_HuanNotSet(s) ==
  /\ pc = s
  /\ pc' = IF s = Left THEN Right ELSE "inside"
  /\ IF huanflag[s] = 0
       THEN UNCHANGED <<H, huanguaiflag, huanflag, js3js4, turnflag, fill>>
       ELSE \E inside \in BOOLEAN :
         /\ huanguaiflag' = IF inside THEN [huanguaiflag EXCEPT ![Other(s)] = 1] ELSE huanguaiflag
         /\ huanflag' = IF inside THEN [huanflag EXCEPT ![s] = 0] ELSE huanflag
         /\ js3js4' = IF inside THEN [js3js4 EXCEPT ![s] = 1] ELSE js3js4
         /\ turnflag' = [turnflag EXCEPT ![s] = 0]
         /\ fill' = <<"ring", s>>
         /\ UNCHANGED H
  /\ UNCHANGED <<js1js2, huan, js7js8, shiziflag, speedVars>>

\* Following the line into a ring on side s.  A corner of the ring on the other
\* side, near the edge of the picture ("far"), means the car is inside.
FollowRing(s) ==
  /\ pc = s
  /\ IF huanflag[s] = 0
       THEN UNCHANGED <<H, huanguaiflag, huanflag, huan, js3js4, turnflag, fill>>
       ELSE \E narrow, far \in BOOLEAN, found \in {{}, {Left}, {Right}} :
         LET seen == find_huanguai(found)
             inside == seen[Other(s)] = 1 /\ far
         IN  /\ H' = IF narrow THEN [H EXCEPT ![s] = 1] ELSE H
             /\ huanguaiflag' = IF inside THEN [seen EXCEPT ![s] = 0] ELSE seen
             /\ huanflag' = IF inside THEN [huanflag EXCEPT ![s] = 0] ELSE huanflag
             /\ huan' = IF inside THEN 1 ELSE huan
             /\ js3js4' = IF inside THEN [js3js4 EXCEPT ![s] = 1] ELSE js3js4
             /\ turnflag' = [turnflag EXCEPT ![s] = 0]
             /\ fill' = <<"ring", s>>
  /\ pc' = IF s = Left THEN Right ELSE "inside"
  /\ UNCHANGED <<js1js2, js7js8, shiziflag, speedVars>>

\* The sides whose exit has come into view: the line opposite to the ring opens.
Exits(opening) ==
  {s \in opening : js3js4[s] = 1 /\ huanguaiflag[Other(s)] = 0}

\* Fault variant: shiziflag[0] and shiziflag[1] survive inside the ring.
NoCrossInside_Kept == shiziflag

\* Inside a ring there is no cross.
NoCrossInside == NoCross

\* Fault variant: js3/js4 is cleared, js7/js8 is not set.
InsideRing_NoExit(opening) ==
  /\ pc = "inside"
  /\ IF huan = 1
       THEN /\ shiziflag' = NoCrossInside
            /\ js3js4' = [s \in Side |-> IF s \in Exits(opening) THEN 0 ELSE js3js4[s]]
       ELSE UNCHANGED <<shiziflag, js3js4>>
  /\ pc' = "leave"
  /\ UNCHANGED <<frameVars, js1js2, H, huan, js7js8, huanflag, speedVars>>

InsideRing(opening) ==
  /\ pc = "inside"
  /\ IF huan = 1
       THEN /\ shiziflag' = NoCrossInside
            /\ js7js8' = [s \in Side |-> IF s \in Exits(opening) THEN 1 ELSE js7js8[s]]
            /\ js3js4' = [s \in Side |-> IF s \in Exits(opening) THEN 0 ELSE js3js4[s]]
            /\ huanflag' = [s \in Side |-> IF s \in Exits(opening) THEN 0 ELSE huanflag[s]]
       ELSE UNCHANGED <<shiziflag, js7js8, js3js4, huanflag>>
  /\ pc' = "leave"
  /\ UNCHANGED <<frameVars, js1js2, H, huan, speedVars>>

\* Fault variant: HL and HR are not cleared on leaving the ring.
EntranceAfterExit_Kept == H

\* HL and HR once the ring is left.
EntranceAfterExit == Cleared

\* Fault variant: a turn found in the picture survives the exit.
TurnsAtExit_Kept == turnflag

\* No turn is filled in on the way out.
TurnsAtExit == Cleared

\* The exit's fill needs exactly one of js7 and js8.
ExitFill ==
  IF \E s \in Side : js7js8[s] = 1 /\ js7js8[Other(s)] = 0
    THEN <<"exit", CHOOSE s \in Side : js7js8[s] = 1>>
    ELSE fill

\* Driving out, until more than 40 of 50 rows show both lines again and the
\* last judgement of the middle line was that of a straight.
LeaveRing(bothLines) ==
  /\ pc = "leave"
  /\ IF \E s \in Side : js7js8[s] # 0
       THEN /\ turnflag' = TurnsAtExit
            /\ shiziflag' = NoCross
            /\ fill' = ExitFill
            /\ IF bothLines /\ shortstraight_flag # 0
                 THEN huan' = 0 /\ H' = EntranceAfterExit /\ js7js8' = Cleared
                 ELSE UNCHANGED <<huan, H, js7js8>>
       ELSE UNCHANGED <<turnflag, shiziflag, fill, huan, H, js7js8>>
  /\ pc' = "curve"
  /\ UNCHANGED <<huanguaiflag, js1js2, huanflag, js3js4, speedVars>>

\* The fills of a left turn, then those of a right turn.
FillCurve ==
  /\ pc = "curve"
  /\ fill' = IF turnflag[Right] # 0 THEN <<"turn", Right>>
             ELSE IF turnflag[Left] # 0 THEN <<"turn", Left>>
             ELSE fill
  /\ pc' = "speed"
  /\ UNCHANGED <<turnflag, huanguaiflag, ringVars, shiziflag, speedVars>>

----------------------------------------------------------------------------
(* velocity_set: the type of the frame.                                     *)

\* short_straight_judge: a high deviation leaves the flag as it was.
short_straight_judge(dev) ==
  IF dev = "low" THEN 1 ELSE IF dev = "mid" THEN 2 ELSE shortstraight_flag

\* long_straight_judge: the flag, cleared for every frame, goes up when the
\* middle line and both borders look straight.
long_straight_judge(straight) == IF straight THEN 1 ELSE 0

\* The type the frame is recorded as.
RoadType(long, short) ==
  IF RingInProgress THEN LOOP
  ELSE IF shiziflag[1] = 1 THEN CROSS
  ELSE IF long = 1 THEN LONG_STRAIGHT
  ELSE IF short # 0 THEN SHORT_STRAIGHT
  ELSE CURVE

\* One beep on entering a ring, two on entering a cross.
Beeps(type) ==
  IF type = road_type[1] THEN 0
  ELSE IF type = LOOP THEN 1
  ELSE IF type = CROSS THEN 2
  ELSE 0

\* The shift of road_type ends with a store to road_type[200], one past the
\* array; if the flag lies there it takes the type of 199 frames ago.  The flag is
\* only ever tested for 0: 1 stands for every type.
velocity_set(straight, dev) ==
  /\ pc = "speed"
  /\ LET judged == shiziflag[1] = 0
         short == IF judged THEN short_straight_judge(dev) ELSE shortstraight_flag
         long == IF judged THEN long_straight_judge(straight) ELSE 0
         type == RoadType(long, short)
     IN  /\ long_straight_flag' = long
         /\ deviation' = dev
         /\ shortstraight_flag' \in (IF spill THEN {0, 1} ELSE {short})
         /\ beeps' = Beeps(type)
         /\ road_type' = [i \in {0, 1} |-> type]
  /\ pc' = "corners"
  /\ UNCHANGED <<frameVars, ringVars, shiziflag>>

Next ==
  /\ \/ FindCorners
     \/ RecogniseRing
     \/ \E s \in Side : FollowRing(s)
     \/ \E opening \in SUBSET Side : InsideRing(opening)
     \/ \E bothLines \in BOOLEAN : LeaveRing(bothLines)
     \/ FillCurve
     \/ \E straight \in BOOLEAN, dev \in Deviation : velocity_set(straight, dev)
  /\ UNCHANGED world

Spec == Init /\ [][Next]_vars

\* main() keeps taking frames; and what the track guarantees of the pictures
\* of a ring: its exit comes into view, the lines come back, and some frame
\* shows a straight middle line.
FairSpec ==
  /\ Spec
  /\ WF_vars(Next)
  /\ SF_vars(InsideRing(Side) /\ UNCHANGED world)
  /\ SF_vars(LeaveRing(TRUE) /\ UNCHANGED world)
  /\ SF_vars(\E straight \in BOOLEAN : velocity_set(straight, "low") /\ UNCHANGED world)

----------------------------------------------------------------------------
(* Properties.                                                              *)

\* Every flag and counter of f2 and of the js family stays in the range its
\* tests in findline2 and velocity_set distinguish; shiziflag[0] never runs
\* past the test for equality with 4 that confirms a cross.
TypeOK ==
  /\ nested \in BOOLEAN /\ spill \in BOOLEAN
  /\ pc \in Section
  /\ turnflag \in [Side -> {0, 1, 3}]
  /\ huanguaiflag \in [Side -> {0, 1}]
  /\ js1js2 \in [Side -> {0, 1}]
  /\ huanflag \in [Side -> {0, 1}]
  /\ H \in [Side -> {0, 1}]
  /\ huan \in {0, 1}
  /\ js3js4 \in [Side -> {0, 1}]
  /\ js7js8 \in [Side -> {0, 1}]
  /\ shiziflag \in [{0, 1} -> 0 .. SHIZI_FRAMES - 1] /\ shiziflag[1] \in {0, 1}
  /\ long_straight_flag \in {0, 1}
  /\ shortstraight_flag \in 0 .. 2
  /\ deviation \in Deviation
  /\ road_type \in [{0, 1} -> 0 .. 5]
  /\ fill \in {"none", "ring", "exit", "turn"} \X Side
  /\ beeps \in 0 .. 2

\* The flags of a ring agree, whatever pictures follow each other.  As long as
\* f2.huan says "inside a ring", the code waits for the exit (js3, js4) or drives
\* out through it (js7, js8): else nothing would ever clear f2.huan and every
\* later frame would be driven at the speed of a ring.  Nobody drives out of a
\* ring that is over, and HL and HR, which select the fill for the inner half of
\* a ring, are down whenever a new ring is met.
RingFlagsAgree ==
  /\ huan = 1 => \E s \in Side : js3js4[s] = 1 \/ js7js8[s] = 1
  /\ (\E s \in Side : js7js8[s] = 1) => huan = 1
  /\ ~RingInProgress => H = Cleared

\* No picture from inside a ring is taken for a cross: when velocity_set reads
\* them, shiziflag[0] and shiziflag[1] are 0 in every frame with f2.huan = 1.
NoCrossInRing == (pc = "speed" /\ huan = 1) => shiziflag = NoCross

\* Once a ring is recognised the frames are LOOP frames until the car has driven
\* out of it: the only step that ends it is the one that sees both lines again
\* while js7 or js8 is up.
RingEndsAtExit ==
  [][RingInProgress /\ ~RingInProgress'
       => pc = "leave" /\ \E s \in Side : js7js8[s] = 1]_vars

\* With one ring at a time the phases of a ring exclude each
\* other: ahead on one side, inside from one side, or leaving to one side.  Two
\* exits at once (js7 = js8 = 1) would leave the middle line without a fill.
OnePhase ==
  ~nested =>
    \A s, t \in Side :
      /\ huanflag[s] = 1 =>
           huan = 0 /\ js3js4[t] = 0 /\ js7js8[t] = 0 /\ (t # s => huanflag[t] = 0)
      /\ js3js4[s] = 1 =>
           huan = 1 /\ js7js8[t] = 0 /\ (t # s => js3js4[t] = 0)
      /\ (js7js8[s] = 1 /\ t # s) => js7js8[t] = 0

\* On the way out of a ring the line the car steers by is the one drawn for the
\* exit: no fill of the ring's entrance or of a turn in the same picture
\* overwrites it.
ExitFillWins ==
  \A s \in Side :
    (~nested /\ pc = "speed" /\ js7js8[s] = 1) => fill = <<"exit", s>>

\* With one ring at a time and no spill, a ring the car is in is left again, given
\* that the track shows its exit.
RingIsLeft == ~nested /\ ~spill => (huan = 1 ~> huan = 0)

\* The road_type record (comment in distinguish.c: 3 is a curve): a frame
\* outside rings, crosses and long straights whose middle line deviates too much
\* for a short straight is recorded as a curve.
CurveRecorded ==
  ( /\ pc = "corners" /\ ~spill
    /\ deviation = "high" /\ long_straight_flag = 0
    /\ shiziflag[1] = 0 /\ ~RingInProgress )
  => road_type[0] = CURVE
============================================================================
