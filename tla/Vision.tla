------------------------------- MODULE Vision -------------------------------
(***************************************************************************)
(* From the grey picture to the borders of the road: gray_mean_filter,      *)
(* gray_to_binary, findline1 and what findline2 leaves to the next frame,   *)
(* in the order of main()'s loop.  ImageProcess and LineScan are the two    *)
(* stages; here they work on one image, and the pictures are those of a     *)
(* bright road on dark ground with one blot on it or beside it.             *)
(***************************************************************************)
EXTENDS Integers

CONSTANTS
  W, H,              \* 160, 120: the size of an image
  MID,               \* 80
  FIRST, BOTTOM,     \* 11, 118: the rows scanned
  NEAR, FAR,         \* 99, 15: the test for a turn
  TOP_TO, TOP_FROM,  \* 6, 100: rows where a vertex is looked for
  AHEAD,             \* {1, 3, 5}: rows above it that may be black
  EDGE_TO,           \* 3: last row where the middle may be at the margin
  LOW, HIGH,         \* 10, 150: the margins
  DARK, BRIGHT,      \* bound of the instances: grey of the ground and the road
  LEFT, WIDTH,       \* bound: where the road begins, and its width
  PATCH              \* bound: the size of a blot that is not just a pixel

ASSUME VisionAssumption ==
  /\ W \in Nat /\ W > 3 /\ H \in Nat /\ H > 2 /\ MID \in 0..(W - 1)
  /\ FIRST \in Nat \ {0} /\ BOTTOM \in FIRST..(H - 2)
  /\ NEAR \in Nat /\ FAR \in Nat \ {0} /\ NEAR + FAR <= BOTTOM + 1
  /\ TOP_TO \in Nat /\ TOP_FROM \in 0..BOTTOM /\ EDGE_TO \in 0..FIRST
  /\ AHEAD \subseteq 0..TOP_TO
  /\ LOW \in 0..(W - 1) /\ HIGH \in LOW..(W - 1)
  /\ DARK \in 0..255 /\ BRIGHT \in DARK..255
  /\ LEFT \subseteq Nat /\ WIDTH \in Nat \ {0} /\ PATCH \in Nat \ {0}

VARIABLES
  memory, FilterImage, BinImage, ImageThreshold,
  line, from, column_start, toppoint,
  done,     \* history: has the frame been processed?
  scene     \* history: what the camera saw

imageVars == <<memory, FilterImage, BinImage, ImageThreshold>>
lineVars == <<line, from, column_start, toppoint>>
vars == <<imageVars, lineVars, done, scene>>

Process == INSTANCE ImageProcess

Scan == INSTANCE LineScan WITH image <- BinImage

----------------------------------------------------------------------------
(* The pictures (external).                                                 *)

\* A road whose left border leans by up to a column per row, and may bend in the
\* middle of the picture; the blot is one pixel or a patch, bright or dark.
Scene ==
  [left : LEFT, near : -1..1, far : -1..1,
   x : 0..(W - 1), y : 0..(H - 1), size : {1, PATCH}, grey : {DARK, BRIGHT}]

\* The columns of the road in row y.
RoadAt(s, y) ==
  LET bend == H \div 2
      left == IF y >= bend THEN s.left + s.near * (H - 1 - y)
              ELSE s.left + s.near * (H - 1 - bend) + s.far * (bend - y)
  IN  left..(left + WIDTH - 1)

Grey(s, y, x) ==
  IF y \in s.y..(s.y + s.size - 1) /\ x \in s.x..(s.x + s.size - 1) THEN s.grey
  ELSE IF x \in RoadAt(s, y) THEN BRIGHT ELSE DARK

\* The picture, with bright bytes behind it.
Picture(s) ==
  [a \in Process!Memory |->
     IF a \in Process!Pixel THEN Grey(s, a \div W, a % W) ELSE BRIGHT]

NoScene == [left |-> 0, near |-> 0, far |-> 0, x |-> 0, y |-> 0, size |-> 1, grey |-> DARK]

----------------------------------------------------------------------------
Init ==
  /\ memory = Process!Dark /\ FilterImage = Process!Blank /\ BinImage = Process!Black
  /\ ImageThreshold = 0
  /\ Scan!Init
  /\ scene = NoScene

\* A frame of main(), up to the scan.
Frame ==
  /\ ~done /\ done' = TRUE
  /\ scene' \in Scene
  /\ Process!Process(Picture(scene'))
  /\ Scan!findline1(BinImage')

\* findline2, and the wait for the next frame.
Finish ==
  /\ done /\ done' = FALSE
  /\ Scan!findline2
  /\ Process!Rest
  /\ scene' = NoScene

Next == Frame \/ Finish

Spec == Init /\ [][Next]_vars

----------------------------------------------------------------------------
(* Properties.                                                              *)

First(road) == CHOOSE x \in road : \A y \in road : x <= y
Last(road) == CHOOSE x \in road : \A y \in road : x >= y

\* The filter hands on nothing from behind the image, and is the mean inside it
\* (gray_mean_filter, see ImageProcess).
FilterIsMean == Process!FilterIsMean

\* A scan that starts inside a road finds the borders of that road and not those
\* of another white patch (findline1, see LineScan).
FindsOwnRoad == Scan!FindsOwnRoad

\* From camera to borders: a single wrong pixel, wherever it is, neither hides
\* the road nor moves it.  In a row scanned from inside a road that lies in the
\* picture, both borders are found, within a column of where the picture has them
\* in that row and its neighbours, the rows the filter mixes (gray_mean_filter,
\* mean_threshold, findline1).
RoadFound ==
  \A i \in Scan!Scanned :
    LET near == {RoadAt(scene, j) : j \in (i - 1)..(i + 1)}
        road == UNION near
        always == {x \in road : \A r \in near : x \in r}
        inside(c) == c - 1 \in always /\ c + 1 \in always
        within(c, border(_)) == \E r \in near : \E d \in -1..1 : c + d = border(r)
    IN  (/\ done /\ scene.size = 1 /\ inside(from[i])
         /\ road \subseteq 4..(W - 5)) =>
          /\ line[i].l /\ within(line[i].left, First)
          /\ line[i].r /\ within(line[i].right, Last)
=============================================================================
