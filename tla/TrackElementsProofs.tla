------------------------ MODULE TrackElementsProofs ------------------------
(***************************************************************************)
(* Proofs about the track elements, for every sequence of pictures.  Inv is *)
(* inductive: RingFlagsAgree and OnePhase carry themselves from section to  *)
(* section, CrossInv and FillInv say what the later sections of a frame     *)
(* find when the earlier ones have run.                                     *)
(***************************************************************************)
EXTENDS TrackElements, TLAPS

\* From the section that clears it to the end of the frame there is no cross in
\* a ring.
CrossInv == pc \in {"leave", "curve", "speed"} /\ huan = 1 => shiziflag = NoCross

\* Once the exit is drawn nothing is left to be drawn over it.
FillInv ==
  \A s \in Side : ~nested /\ js7js8[s] = 1 =>
    /\ pc = "curve" => turnflag = Cleared /\ fill = <<"exit", s>>
    /\ pc = "speed" => fill = <<"exit", s>>

Inv == TypeOK /\ RingFlagsAgree /\ OnePhase /\ CrossInv /\ FillInv

\* The two sides are different, and each is the other's other.
LEMMA Sides ==
  /\ Left \in Side /\ Right \in Side /\ Left # Right
  /\ Other(Left) = Right /\ Other(Right) = Left
  /\ \A s \in Side : s = Left \/ s = Right
BY DEF Side, Left, Right, Other

\* The sections are different from each other.
LEMMA Sections ==
  /\ Section = {"corners", "recognise", Left, Right, "inside", "leave", "curve", "speed"}
  /\ Left = "left" /\ Right = "right"
BY DEF Section, Left, Right

----------------------------------------------------------------------------
(* What the searches leave.                                                 *)

\* The fills see a slight turn, a deep one or none.
LEMMA TurnTypes == Turns \subseteq [Side -> {0, 1, 3}]
BY DEF Turns, find_curve1, find_curve3, Cleared

\* A candidate stays one or is dropped; a ring is found on one side at most.
LEMMA FoundRing ==
  ASSUME NEW js \in [Side -> {0, 1}], NEW regained \in BOOLEAN, NEW apex \in BOOLEAN
  PROVE  LET k == find_huan3(find_huan2(js, regained), apex) IN
           /\ k \in [Side -> {0, 3}]
           /\ k[Left] = 3 => k[Right] = 0
<1> DEFINE j == find_huan2(js, regained)
           m == [s \in Side |-> IF j[s] = 2 /\ j[Other(s)] = 0 /\ apex THEN 3 ELSE j[s]]
<1>1. j \in [Side -> {0, 2}]
  BY Sides DEF find_huan2
<1>2. m \in [Side -> {0, 2, 3}] /\ (m[Left] = 3 => m[Right] = 0)
  BY <1>1, Sides
<1>3. find_huan3(j, apex) = IF \E s \in Side : m[s] = 2 THEN Cleared ELSE m
  BY DEF find_huan3
<1>4. Cleared \in [Side -> {0, 3}] /\ Cleared[Left] = 0
  BY Sides DEF Cleared
<1> HIDE DEF j, m
<1>5. CASE \E s \in Side : m[s] = 2
  BY <1>3, <1>4, <1>5 DEF j
<1>6. CASE \A s \in Side : m[s] # 2
  BY <1>2, <1>3, <1>6 DEF j
<1> QED
  BY <1>5, <1>6

\* The count of a cross never passes the value it is compared with.
LEMMA CrossCount ==
  ASSUME NEW f \in [{0, 1} -> 0 .. SHIZI_FRAMES - 1], f[1] \in {0, 1}
  PROVE  /\ CountCross(f) \in [{0, 1} -> 0 .. SHIZI_FRAMES - 1]
         /\ CountCross(f)[1] \in {0, 1}
BY DEF CountCross, SHIZI_FRAMES

\* The corners that keep a candidate make it one or clear it.
LEMMA CandidateType ==
  ASSUME js1js2 \in [Side -> {0, 1}], NEW corners, NEW unbroken
  PROVE  find_huan1(corners, unbroken) \in [Side -> {0, 1}]
BY DEF find_huan1

\* The new corners of a ring.
LEMMA CornerType ==
  ASSUME huanguaiflag \in [Side -> {0, 1}], NEW found
  PROVE  find_huanguai(found) \in [Side -> {0, 1}]
BY DEF find_huanguai

LEMMA Constants ==
  /\ Cleared \in [Side -> {0, 1}] /\ Cleared \in [Side -> {0, 1, 3}]
  /\ \A s \in Side : Cleared[s] = 0
  /\ NoCross \in [{0, 1} -> 0 .. SHIZI_FRAMES - 1] /\ NoCross[1] \in {0, 1}
BY DEF Cleared, NoCross, SHIZI_FRAMES

----------------------------------------------------------------------------
(* One section after the other.                                             *)

LEMMA CornersKeep == Inv /\ FindCorners /\ UNCHANGED world => Inv'
<1> SUFFICES ASSUME Inv, FindCorners, UNCHANGED world PROVE Inv'
  OBVIOUS
<1>1. /\ pc = "corners" /\ pc' = "recognise"
      /\ huanguaiflag' = Cleared /\ fill' = Unfilled /\ deviation' = "low" /\ beeps' = 0
      /\ UNCHANGED <<nested, spill, huanflag, H, huan, js3js4, js7js8, long_straight_flag,
                     shortstraight_flag, road_type>>
  BY DEF FindCorners, world
<1>2. js1js2' \in [Side -> {0, 1}]
  BY CandidateType DEF FindCorners, Inv, TypeOK
<1>3. turnflag' \in [Side -> {0, 1, 3}]
  BY TurnTypes, Constants DEF FindCorners
<1>4. shiziflag' \in [{0, 1} -> 0 .. SHIZI_FRAMES - 1] /\ shiziflag'[1] \in {0, 1}
  BY CrossCount DEF FindCorners, Inv, TypeOK
<1>5. Unfilled \in {"none", "ring", "exit", "turn"} \X Side
  BY Sides DEF Unfilled
<1>6. TypeOK'
  BY <1>1, <1>2, <1>3, <1>4, <1>5, Constants, Sections DEF Inv, TypeOK, Deviation
<1> QED
  BY <1>1, <1>6 DEF Inv, RingFlagsAgree, RingInProgress, OnePhase, CrossInv, FillInv

LEMMA RecogniseKeep == Inv /\ RecogniseRing /\ UNCHANGED world => Inv'
<1> SUFFICES ASSUME Inv, RecogniseRing, UNCHANGED world PROVE Inv'
  OBVIOUS
<1>1. PICK regained \in BOOLEAN, apex \in BOOLEAN :
        LET k == find_huan3(find_huan2(js1js2, regained), apex)
            found == {s \in Side : k[s] = 3}
        IN  /\ found # {} => nested \/ ~RingInProgress
            /\ huanflag' = [s \in Side |-> IF s \in found THEN 1 ELSE huanflag[s]]
            /\ js1js2' = [s \in Side |-> IF s \in found THEN 0 ELSE k[s]]
            /\ shiziflag' = IF found # {} THEN NoCross ELSE shiziflag
  BY DEF RecogniseRing
<1> DEFINE k == find_huan3(find_huan2(js1js2, regained), apex)
           found == {s \in Side : k[s] = 3}
<1>2. k \in [Side -> {0, 3}] /\ (k[Left] = 3 => k[Right] = 0)
  BY FoundRing DEF Inv, TypeOK
<1>3. found # {} => nested \/ ~RingInProgress
  BY <1>1
<1>4. \A s \in Side : huanflag'[s] = IF s \in found THEN 1 ELSE huanflag[s]
  BY <1>1
<1>5. huanflag' \in [Side -> {0, 1}]
  BY <1>1 DEF Inv, TypeOK
<1>6. js1js2' \in [Side -> {0, 1}]
  BY <1>1, <1>2
<1>7. shiziflag' \in [{0, 1} -> 0 .. SHIZI_FRAMES - 1] /\ shiziflag'[1] \in {0, 1}
  BY <1>1, Constants DEF Inv, TypeOK
<1>8. /\ pc = "recognise" /\ pc' = Left
      /\ UNCHANGED <<nested, spill, turnflag, huanguaiflag, fill, H, huan, js3js4, js7js8,
                     long_straight_flag, shortstraight_flag, deviation, road_type, beeps>>
  BY DEF RecogniseRing, world, frameVars, speedVars
<1>9. found \subseteq Side /\ (Left \in found => Right \notin found)
  BY <1>2
<1> HIDE DEF k, found
<1>10. TypeOK'
  BY <1>5, <1>6, <1>7, <1>8, Sections DEF Inv, TypeOK
<1>11. RingFlagsAgree'
  <2>1. RingInProgress => RingInProgress'
    BY <1>4, <1>8 DEF RingInProgress
  <2> QED
    BY <2>1, <1>8 DEF Inv, RingFlagsAgree
<1>12. OnePhase'
  <2> SUFFICES ASSUME ~nested PROVE OnePhase'
    BY <1>8 DEF OnePhase
  <2>1. CASE found = {}
    BY <2>1, <1>4, <1>8 DEF Inv, OnePhase
  <2>2. CASE found # {}
    <3>1. huan # 1 /\ \A s \in Side : huanflag[s] = 0
      BY <2>2, <1>3 DEF RingInProgress, Inv, TypeOK
    <3>2. huan = 0 /\ \A s \in Side : js3js4[s] = 0 /\ js7js8[s] = 0
      BY <3>1 DEF Inv, TypeOK, OnePhase, RingFlagsAgree
    <3> QED
      BY <3>1, <3>2, <1>4, <1>8, <1>9, Sides DEF OnePhase
  <2> QED
    BY <2>1, <2>2
<1>13. CrossInv' /\ FillInv'
  BY <1>8, Sections DEF CrossInv, FillInv
<1> QED
  BY <1>10, <1>11, <1>12, <1>13 DEF Inv

LEMMA FollowKeep ==
  ASSUME NEW s \in Side, Inv, FollowRing(s), UNCHANGED world
  PROVE  Inv'
<1>1. /\ pc = s /\ pc' = IF s = Left THEN Right ELSE "inside"
      /\ UNCHANGED <<nested, spill, js1js2, js7js8, shiziflag, long_straight_flag,
                     shortstraight_flag, deviation, road_type, beeps>>
  BY DEF FollowRing, world, speedVars
<1>2. CrossInv' /\ FillInv'
  BY <1>1, Sections DEF CrossInv, FillInv
<1>3. pc' \in Section
  BY <1>1, Sections
<1>4. CASE huanflag[s] = 0
  <2>1. UNCHANGED <<H, huanguaiflag, huanflag, huan, js3js4, turnflag, fill>>
    BY <1>4 DEF FollowRing
  <2> QED
    BY <2>1, <1>1, <1>2, <1>3
       DEF Inv, TypeOK, RingFlagsAgree, RingInProgress, OnePhase
<1>5. CASE huanflag[s] # 0
  <2>0. huanflag[s] = 1
    BY <1>5 DEF Inv, TypeOK
  <2>1. PICK narrow \in BOOLEAN, far \in BOOLEAN, found \in {{}, {Left}, {Right}} :
          LET seen == find_huanguai(found)
              inside == seen[Other(s)] = 1 /\ far
          IN  /\ H' = IF narrow THEN [H EXCEPT ![s] = 1] ELSE H
              /\ huanguaiflag' = IF inside THEN [seen EXCEPT ![s] = 0] ELSE seen
              /\ huanflag' = IF inside THEN [huanflag EXCEPT ![s] = 0] ELSE huanflag
              /\ huan' = IF inside THEN 1 ELSE huan
              /\ js3js4' = IF inside THEN [js3js4 EXCEPT ![s] = 1] ELSE js3js4
              /\ turnflag' = [turnflag EXCEPT ![s] = 0]
              /\ fill' = <<"ring", s>>
    BY <1>5 DEF FollowRing
  <2> DEFINE seen == find_huanguai(found)
             inside == seen[Other(s)] = 1 /\ far
  <2>2. seen \in [Side -> {0, 1}]
    BY CornerType DEF Inv, TypeOK
  <2> HIDE DEF seen
  <2>3. /\ H' \in [Side -> {0, 1}] /\ huanguaiflag' \in [Side -> {0, 1}]
        /\ huanflag' \in [Side -> {0, 1}] /\ huan' \in {0, 1}
        /\ js3js4' \in [Side -> {0, 1}] /\ turnflag' \in [Side -> {0, 1, 3}]
        /\ fill' \in {"none", "ring", "exit", "turn"} \X Side
    BY <2>1, <2>2 DEF Inv, TypeOK, seen
  <2>4. TypeOK'
    BY <2>3, <1>1, <1>3 DEF Inv, TypeOK
  <2>5. CASE ~inside
    <3>1. UNCHANGED <<huanflag, huan, js3js4>>
      BY <2>1, <2>5 DEF seen
    <3>2. RingInProgress /\ RingInProgress'
      BY <2>0, <3>1 DEF RingInProgress
    <3> QED
      BY <3>1, <3>2, <2>4, <1>1, <1>2 DEF Inv, RingFlagsAgree, OnePhase
  <2>6. CASE inside
    <3>1. huan' = 1 /\ huanflag' = [huanflag EXCEPT ![s] = 0]
          /\ js3js4' = [js3js4 EXCEPT ![s] = 1]
      BY <2>1, <2>6 DEF seen
    <3>2. js3js4'[s] = 1
      BY <3>1 DEF Inv, TypeOK
    <3>3. RingFlagsAgree'
      BY <3>1, <3>2, <1>1 DEF Inv, RingFlagsAgree, RingInProgress
    <3>4. OnePhase'
      <4> SUFFICES ASSUME ~nested PROVE OnePhase'
        BY <1>1 DEF OnePhase
      <4>1. \A t \in Side : js3js4[t] = 0 /\ js7js8[t] = 0 /\ (t # s => huanflag[t] = 0)
        BY <2>0 DEF Inv, OnePhase
      <4>2. \A t \in Side : /\ js7js8'[t] = 0 /\ huanflag'[t] = 0
                            /\ js3js4'[t] = IF t = s THEN 1 ELSE 0
        BY <4>1, <3>1, <1>1 DEF Inv, TypeOK
      <4> QED
        BY <4>2, <3>1 DEF OnePhase
    <3> QED
      BY <3>3, <3>4, <2>4, <1>2 DEF Inv
  <2> QED
    BY <2>5, <2>6
<1> QED
  BY <1>4, <1>5

LEMMA InsideKeep ==
  ASSUME NEW opening \in SUBSET Side, Inv, InsideRing(opening), UNCHANGED world
  PROVE  Inv'
<1>1. /\ pc = "inside" /\ pc' = "leave"
      /\ UNCHANGED <<nested, spill, turnflag, huanguaiflag, fill, js1js2, H, huan,
                     long_straight_flag, shortstraight_flag, deviation, road_type, beeps>>
  BY DEF InsideRing, world, frameVars, speedVars
<1>2. FillInv'
  BY <1>1 DEF FillInv
<1>3. pc' \in Section
  BY <1>1, Sections
<1>4. CASE huan # 1
  <2>1. UNCHANGED <<shiziflag, js7js8, js3js4, huanflag>>
    BY <1>4 DEF InsideRing
  <2> QED
    BY <2>1, <1>1, <1>2, <1>3, <1>4
       DEF Inv, TypeOK, RingFlagsAgree, RingInProgress, OnePhase, CrossInv
<1>5. CASE huan = 1
  <2> DEFINE out == Exits(opening)
  <2>1. /\ shiziflag' = NoCross
        /\ js7js8' = [s \in Side |-> IF s \in out THEN 1 ELSE js7js8[s]]
        /\ js3js4' = [s \in Side |-> IF s \in out THEN 0 ELSE js3js4[s]]
        /\ huanflag' = [s \in Side |-> IF s \in out THEN 0 ELSE huanflag[s]]
    BY <1>5 DEF InsideRing, NoCrossInside
  <2>2. out \subseteq Side /\ \A s \in out : js3js4[s] = 1
    BY DEF Exits
  <2> HIDE DEF out
  <2>3. /\ js7js8' \in [Side -> {0, 1}] /\ js3js4' \in [Side -> {0, 1}]
        /\ huanflag' \in [Side -> {0, 1}]
    BY <2>1 DEF Inv, TypeOK
  <2>4. TypeOK'
    BY <2>1, <2>3, <1>1, <1>3, Constants DEF Inv, TypeOK
  <2>5. RingFlagsAgree'
    <3>1. PICK s \in Side : js3js4[s] = 1 \/ js7js8[s] = 1
      BY <1>5 DEF Inv, RingFlagsAgree
    <3>2. js3js4'[s] = 1 \/ js7js8'[s] = 1
      BY <3>1, <2>1
    <3> QED
      BY <3>2, <1>1, <1>5 DEF RingFlagsAgree, RingInProgress
  <2>6. OnePhase'
    <3> SUFFICES ASSUME ~nested PROVE OnePhase'
      BY <1>1 DEF OnePhase
    <3>1. \A s \in Side : huanflag'[s] = 0
      BY <2>1, <1>5 DEF Inv, TypeOK, OnePhase
    <3>2. CASE out = {}
      BY <3>1, <3>2, <2>1, <1>1 DEF Inv, OnePhase
    <3>3. CASE out # {}
      <4>1. PICK s \in out : s \in Side /\ js3js4[s] = 1
        BY <3>3, <2>2
      <4>2. \A t \in Side : js7js8[t] = 0 /\ (t # s => js3js4[t] = 0)
        BY <4>1 DEF Inv, OnePhase
      <4>3. \A t \in Side : /\ js3js4'[t] = 0
                            /\ js7js8'[t] = IF t = s THEN 1 ELSE 0
        BY <4>1, <4>2, <2>1, <2>2
      <4> QED
        BY <3>1, <4>3, <1>1 DEF OnePhase
    <3> QED
      BY <3>2, <3>3
  <2>7. CrossInv'
    BY <2>1 DEF CrossInv
  <2> QED
    BY <2>4, <2>5, <2>6, <2>7, <1>2 DEF Inv
<1> QED
  BY <1>4, <1>5

LEMMA LeaveKeep ==
  ASSUME NEW bothLines \in BOOLEAN, Inv, LeaveRing(bothLines), UNCHANGED world
  PROVE  Inv'
<1>1. /\ pc = "leave" /\ pc' = "curve"
      /\ UNCHANGED <<nested, spill, huanguaiflag, js1js2, huanflag, js3js4,
                     long_straight_flag, shortstraight_flag, deviation, road_type, beeps>>
  BY DEF LeaveRing, world, speedVars
<1>2. pc' \in Section
  BY <1>1, Sections
<1>3. CASE \A s \in Side : js7js8[s] = 0
  <2>1. UNCHANGED <<turnflag, shiziflag, fill, huan, H, js7js8>>
    BY <1>3 DEF LeaveRing
  <2>2. FillInv'
    BY <2>1, <1>3 DEF FillInv
  <2> QED
    BY <2>1, <2>2, <1>1, <1>2
       DEF Inv, TypeOK, RingFlagsAgree, RingInProgress, OnePhase, CrossInv
<1>4. CASE \E s \in Side : js7js8[s] # 0
  <2>1. turnflag' = Cleared /\ shiziflag' = NoCross /\ fill' = ExitFill
    BY <1>4 DEF LeaveRing, TurnsAtExit
  <2>2. ExitFill \in {"none", "ring", "exit", "turn"} \X Side
    BY DEF ExitFill, Inv, TypeOK
  <2>3. CrossInv'
    BY <2>1 DEF CrossInv
  <2>4. CASE bothLines /\ shortstraight_flag # 0
    <3>1. huan' = 0 /\ H' = Cleared /\ js7js8' = Cleared
      BY <1>4, <2>4 DEF LeaveRing, EntranceAfterExit
    <3>2. \A s \in Side : js7js8'[s] = 0
      BY <3>1, Constants
    <3>3. TypeOK'
      BY <2>1, <2>2, <3>1, <1>1, <1>2, Constants DEF Inv, TypeOK
    <3>4. RingFlagsAgree'
      BY <3>1, <3>2 DEF RingFlagsAgree
    <3>5. FillInv'
      BY <3>2 DEF FillInv
    <3>6. OnePhase'
      <4> SUFFICES ASSUME ~nested PROVE OnePhase'
        BY <1>1 DEF OnePhase
      <4>1. \A s \in Side : js3js4[s] = 0
        BY <1>4 DEF Inv, TypeOK, OnePhase
      <4> QED
        BY <4>1, <3>1, <3>2, <1>1 DEF Inv, OnePhase
    <3> QED
      BY <3>3, <3>4, <3>5, <3>6, <2>3 DEF Inv
  <2>5. CASE ~(bothLines /\ shortstraight_flag # 0)
    <3>1. UNCHANGED <<huan, H, js7js8>>
      BY <1>4, <2>5 DEF LeaveRing
    <3>2. TypeOK'
      BY <2>1, <2>2, <3>1, <1>1, <1>2, Constants DEF Inv, TypeOK
    <3>3. RingFlagsAgree' /\ OnePhase'
      BY <3>1, <1>1 DEF Inv, RingFlagsAgree, RingInProgress, OnePhase
    <3>4. FillInv'
      <4> SUFFICES ASSUME NEW s \in Side, ~nested, js7js8[s] = 1
                   PROVE  turnflag' = Cleared /\ fill' = <<"exit", s>>
        BY <3>1, <1>1 DEF FillInv
      <4>1. js7js8[Other(s)] = 0 /\ \A t \in Side : js7js8[t] = 1 => t = s
        BY Sides DEF Inv, OnePhase
      <4>2. (CHOOSE t \in Side : js7js8[t] = 1) = s
        BY <4>1
      <4>3. ExitFill = <<"exit", s>>
        BY <4>1, <4>2 DEF ExitFill
      <4> QED
        BY <4>3, <2>1
    <3> QED
      BY <3>2, <3>3, <3>4, <2>3 DEF Inv
  <2> QED
    BY <2>4, <2>5
<1> QED
  BY <1>3, <1>4 DEF Inv, TypeOK

LEMMA CurveKeep == Inv /\ FillCurve /\ UNCHANGED world => Inv'
<1> SUFFICES ASSUME Inv, FillCurve, UNCHANGED world PROVE Inv'
  OBVIOUS
<1>1. /\ pc = "curve" /\ pc' = "speed"
      /\ UNCHANGED <<nested, spill, turnflag, huanguaiflag, js1js2, huanflag, H, huan, js3js4,
                     js7js8, shiziflag, long_straight_flag, shortstraight_flag, deviation,
                     road_type, beeps>>
  BY DEF FillCurve, world, ringVars, speedVars
<1>2. fill' \in {"none", "ring", "exit", "turn"} \X Side
  BY Sides DEF FillCurve, Inv, TypeOK
<1>3. TypeOK'
  BY <1>1, <1>2, Sections DEF Inv, TypeOK
<1>4. FillInv'
  <2> SUFFICES ASSUME NEW s \in Side, ~nested, js7js8[s] = 1
               PROVE  fill' = <<"exit", s>>
    BY <1>1 DEF FillInv
  <2>1. turnflag = Cleared /\ fill = <<"exit", s>>
    BY <1>1 DEF Inv, FillInv
  <2> QED
    BY <2>1, Constants, Sides DEF FillCurve
<1> QED
  BY <1>1, <1>3, <1>4 DEF Inv, RingFlagsAgree, RingInProgress, OnePhase, CrossInv

LEMMA SpeedKeep ==
  ASSUME NEW straight \in BOOLEAN, NEW dev \in Deviation,
         Inv, velocity_set(straight, dev), UNCHANGED world
  PROVE  Inv'
<1>1. /\ pc = "speed" /\ pc' = "corners"
      /\ UNCHANGED <<nested, spill, turnflag, huanguaiflag, fill, js1js2, huanflag, H, huan,
                     js3js4, js7js8, shiziflag>>
  BY DEF velocity_set, world, frameVars, ringVars
<1>2. \A long, short : RoadType(long, short) \in 0 .. 5
  BY DEF RoadType, LONG_STRAIGHT, SHORT_STRAIGHT, CURVE, LOOP, CROSS
<1>3. \A type : Beeps(type) \in 0 .. 2
  BY DEF Beeps
<1>4. short_straight_judge(dev) \in 0 .. 2 /\ long_straight_judge(straight) \in {0, 1}
  BY DEF short_straight_judge, long_straight_judge, Inv, TypeOK
<1>5. /\ long_straight_flag' \in {0, 1} /\ deviation' \in Deviation
      /\ shortstraight_flag' \in 0 .. 2 /\ beeps' \in 0 .. 2
      /\ road_type' \in [{0, 1} -> 0 .. 5]
  BY <1>2, <1>3, <1>4 DEF velocity_set, Inv, TypeOK
<1>6. TypeOK'
  BY <1>1, <1>5, Sections DEF Inv, TypeOK
<1> QED
  BY <1>1, <1>6, Sections
     DEF Inv, RingFlagsAgree, RingInProgress, OnePhase, CrossInv, FillInv

----------------------------------------------------------------------------
(* Every frame.                                                             *)

LEMMA InitInv == Init => Inv
<1> SUFFICES ASSUME Init PROVE Inv
  OBVIOUS
<1>1. TypeOK
  BY Constants, Sections, Sides DEF Init, TypeOK, Unfilled, Deviation
<1> QED
  BY <1>1, Constants, Sections
     DEF Init, Inv, RingFlagsAgree, RingInProgress, OnePhase, CrossInv, FillInv

LEMMA NextInv == Inv /\ [Next]_vars => Inv'
<1> SUFFICES ASSUME Inv, [Next]_vars PROVE Inv'
  OBVIOUS
<1>1. CASE Next
  BY <1>1, CornersKeep, RecogniseKeep, FollowKeep, InsideKeep, LeaveKeep, CurveKeep, SpeedKeep
     DEF Next
<1>2. CASE UNCHANGED vars
  BY <1>2 DEF vars, world, frameVars, ringVars, speedVars, Inv, TypeOK, RingFlagsAgree,
              RingInProgress, OnePhase, CrossInv, FillInv
<1> QED
  BY <1>1, <1>2

LEMMA AlwaysInv == Spec => []Inv
BY InitInv, NextInv, PTL DEF Spec

----------------------------------------------------------------------------

\* The flags and counters of findline2 and velocity_set stay in the range their
\* tests distinguish; shiziflag[0] never passes the value that confirms a cross.
THEOREM TrackTypes == Spec => []TypeOK
BY AlwaysInv, PTL DEF Inv

\* findline2 never says "inside a ring" (f2.huan) without waiting for the exit
\* or driving out through it, and forgets the ring's entrance with the ring:
\* whatever the pictures, also with rings seen inside rings.
THEOREM FlagsAgree == Spec => []RingFlagsAgree
BY AlwaysInv, PTL DEF Inv

\* velocity_set never finds a cross inside a ring, not even one whose corners
\* were counted in the same frame.
THEOREM CrossExcluded == Spec => []NoCrossInRing
<1>1. Inv => NoCrossInRing
  BY DEF Inv, CrossInv, NoCrossInRing
<1> QED
  BY <1>1, AlwaysInv, PTL

\* With one ring at a time findline2 is in one phase of one ring: ahead, inside
\* or leaving, on one side.
THEOREM PhasesExclude == Spec => []OnePhase
BY AlwaysInv, PTL DEF Inv

\* The line velocity_set and the steering get on the way out of a ring is the one
\* findline2 drew for the exit.
THEOREM ExitIsSteered == Spec => []ExitFillWins
<1>1. Inv => ExitFillWins
  BY DEF Inv, FillInv, ExitFillWins
<1> QED
  BY <1>1, AlwaysInv, PTL

\* A ring, once recognised, ends in one place of findline2 only: where both lines
\* are back while js7 or js8 is up.
THEOREM OneWayOut == Spec => RingEndsAtExit
<1> DEFINE Ends == RingInProgress /\ ~RingInProgress'
                     => pc = "leave" /\ \E s \in Side : js7js8[s] = 1
<1>1. Inv /\ [Next]_vars => Ends
  <2> SUFFICES ASSUME Inv, [Next]_vars, RingInProgress, ~RingInProgress'
               PROVE  pc = "leave" /\ \E s \in Side : js7js8[s] = 1
    OBVIOUS
  <2>1. CASE FindCorners
    BY <2>1 DEF FindCorners, RingInProgress
  <2>2. CASE RecogniseRing
    <3>1. huan' = huan /\ \A s \in Side : huanflag[s] = 1 => huanflag'[s] = 1
      BY <2>2 DEF RecogniseRing
    <3> QED
      BY <3>1 DEF RingInProgress
  <2>3. CASE \E s \in Side : FollowRing(s)
    <3>1. PICK s \in Side : FollowRing(s)
      BY <2>3
    <3>2. huan' = 1 \/ UNCHANGED <<huanflag, huan>>
      BY <3>1 DEF FollowRing
    <3> QED
      BY <3>2 DEF RingInProgress
  <2>4. CASE \E opening \in SUBSET Side : InsideRing(opening)
    BY <2>4 DEF InsideRing, RingInProgress
  <2>5. CASE \E bothLines \in BOOLEAN : LeaveRing(bothLines)
    <3>1. pc = "leave" /\ UNCHANGED huanflag
      BY <2>5 DEF LeaveRing
    <3>2. UNCHANGED huan \/ \E s \in Side : js7js8[s] # 0
      BY <2>5 DEF LeaveRing
    <3> QED
      BY <3>1, <3>2 DEF RingInProgress, Inv, TypeOK
  <2>6. CASE FillCurve
    BY <2>6 DEF FillCurve, ringVars, RingInProgress
  <2>7. CASE \E straight \in BOOLEAN, dev \in Deviation : velocity_set(straight, dev)
    BY <2>7 DEF velocity_set, ringVars, RingInProgress
  <2>8. CASE UNCHANGED vars
    BY <2>8 DEF vars, ringVars, RingInProgress
  <2> QED
    BY <2>1, <2>2, <2>3, <2>4, <2>5, <2>6, <2>7, <2>8 DEF Next
<1>2. Inv /\ [Next]_vars => [Ends]_vars
  BY <1>1
<1> QED
  BY <1>2, AlwaysInv, PTL DEF Spec, RingEndsAtExit
=============================================================================
