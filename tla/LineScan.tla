------------------------------ MODULE LineScan ------------------------------
(***************************************************************************)
(* The line scan (findline1 and find_toppoint, findLines.c).  Row by row,   *)
(* from the bottom of the binary image upwards, the borders of the road are *)
(* looked for to the left and to the right of column_start, the middle      *)
(* found in the row below; the first row starts at the middle of the last   *)
(* frame's first row.  Of findline2 only what the next scan sees is here.   *)
(* The image is that of ImageProcess (Vision).                              *)
(***************************************************************************)
EXTENDS Integers

CONSTANTS
  W,                 \* 160: columns
  MID,               \* 80
  FIRST, BOTTOM,     \* 11, 118: the rows scanned
  NEAR, FAR,         \* 99, 15: the test for a turn
  TOP_TO, TOP_FROM,  \* 6, 100: rows where a vertex is looked for
  AHEAD,             \* {1, 3, 5}: rows above it that may be black
  EDGE_TO,           \* 3: last row where the middle may be at the margin
  LOW, HIGH          \* 10, 150: the margins

Column == 0..(W - 1)
Row == 0..BOTTOM
Scanned == FIRST..BOTTOM
\* The rows a frame reads: the scanned ones and those above a vertex.
Seen == Scanned \cup TOP_TO..BOTTOM \cup {i - d : i \in TOP_TO..TOP_FROM, d \in AHEAD}

VARIABLES
  image,         \* Image: is the pixel white?
  line,          \* f1: per row leftline, rightline, midline and the two flags
  from,          \* history: the column each row was scanned from
  column_start,
  toppoint,      \* f2.toppoint, 0 if there is none
  done           \* history: has the frame been scanned?

NoLine == [left |-> 0, right |-> 0, mid |-> 0, l |-> FALSE, r |-> FALSE]

Init ==
  /\ line = [i \in Row |-> NoLine]
  /\ from = [i \in Row |-> MID]
  /\ column_start = MID
  /\ toppoint = 0
  /\ done = FALSE

Highest(S) == CHOOSE x \in S : \A y \in S : y <= x
Lowest(S) == CHOOSE x \in S : \A y \in S : x <= y

----------------------------------------------------------------------------
(* One row.                                                                 *)

\* Fault variant: the search to the right begins one column off.
RightSteps_off(row, k) == {j \in (k + 1)..(W - 4) : row[j] /\ row[j + 1] /\ ~row[j + 2]}

\* Columns where two white pixels are followed by a black one, to the left and
\* to the right of k.
LeftSteps(row, k) == {j \in 3..k : row[j] /\ row[j - 1] /\ ~row[j - 2]}
RightSteps(row, k) == {j \in k..(W - 4) : row[j] /\ row[j + 1] /\ ~row[j + 2]}

\* The right border of a row where none is found.
LostRight == W - 1

Within(c) == IF c > W - 1 THEN W - 1 ELSE IF c < 0 THEN 0 ELSE c

\* The middle of row i.  below is the line of the row under it, far that of the
\* row FAR under it.
Middle(i, l, r, left, right, below, far) ==
  LET far_lost == ~far.l /\ ~far.r
      turn == \/ ~l /\ right <= below.right
              \/ ~r /\ left >= below.left
  IN  IF ~l /\ ~r THEN (IF i = BOTTOM THEN MID ELSE below.mid)
      ELSE IF (~l \/ ~r) /\ i < NEAR /\ far_lost /\ turn THEN below.mid
      ELSE (left + right) \div 2

\* The line of row i, scanned from column k.
ScanRow(i, row, k, below, far) ==
  LET l == LeftSteps(row, k) # {}
      r == RightSteps(row, k) # {}
      left == IF l THEN Highest(LeftSteps(row, k)) - 1 ELSE 0
      right == IF r THEN Lowest(RightSteps(row, k)) + 1 ELSE LostRight
  IN  [left |-> left, right |-> right, l |-> l, r |-> r,
       mid |-> Within(Middle(i, l, r, left, right, below, far))]

\* The lines of the rows scanned, bottom first: each starts from the middle of
\* the row below it.
ScanRows(img, k) ==
  LET scan[i \in Scanned] ==
        IF i = BOTTOM THEN ScanRow(i, img[i], k, NoLine, NoLine)
        ELSE ScanRow(i, img[i], scan[i + 1].mid, scan[i + 1],
                     IF i < NEAR THEN scan[i + FAR] ELSE NoLine)
  IN  scan

----------------------------------------------------------------------------
(* The vertex of the road.                                                  *)

\* Rows where the middle is white and black a little further up.
Vertices(img, l) ==
  {i \in TOP_TO..TOP_FROM : img[i][l[i].mid] /\ \E d \in AHEAD : ~img[i - d][l[i].mid]}

\* Rows where the middle has left the image; the rows above FIRST count too.
Margins(l) == {i \in EDGE_TO..BOTTOM : l[i].mid > HIGH \/ l[i].mid < LOW}

find_toppoint(img, l) ==
  IF Vertices(img, l) # {} THEN Highest(Vertices(img, l))
  ELSE IF Margins(l) # {} THEN Highest(Margins(l)) ELSE 0

\* The start of the next frame, before findline2 bounds it.
StartOf(l) == l[BOTTOM].mid

\* A frame.
findline1(img) ==
  LET scan == ScanRows(img, column_start) IN
    /\ line' = [i \in Row |-> IF i \in Scanned THEN scan[i] ELSE line[i]]
    /\ from' = [i \in Row |-> IF i \notin Scanned THEN from[i]
                              ELSE IF i = BOTTOM THEN column_start ELSE scan[i + 1].mid]
    /\ column_start' = StartOf(line')
    /\ toppoint' = find_toppoint(img, line')
    /\ done' = TRUE

\* The start of the next frame.
Margined(c) == IF c > HIGH THEN HIGH ELSE IF c < LOW THEN LOW ELSE c

\* findline2 may fill in the middle line up to the top, and keeps the start of
\* the next frame within the margins.  The rows of the scan and toppoint are not
\* carried over: findline1 writes them before it reads them.
findline2 ==
  /\ done /\ done' = FALSE
  /\ \E filled \in BOOLEAN, bottom \in Column, mid \in [1..(FIRST - 1) -> Column] :
       /\ column_start' = Margined(IF filled THEN bottom ELSE line[BOTTOM].mid)
       /\ line' = [i \in Row |-> IF i \in Scanned THEN NoLine
                                ELSE IF filled /\ i > 0 THEN [line[i] EXCEPT !.mid = mid[i]]
                                ELSE line[i]]
  /\ toppoint' = 0
  /\ from' = [i \in Row |-> MID]

----------------------------------------------------------------------------
(* Properties.                                                              *)

\* The white run of a row around a column that is white on both sides of it.
RunEnds(row, k) ==
  LET whites(a, b) == \A j \in a..b : row[j]
  IN  [left |-> Lowest({a \in 0..k : whites(a, k)}),
       right |-> Highest({b \in k..(W - 1) : whites(k, b)})]

\* Where the scan starts inside the road it finds the borders of the road it is
\* in, not those of another white patch; and exactly those that do not touch
\* the two columns next to the image's edge.
FindsOwnRoad ==
  \A i \in Scanned :
    done /\ (\A j \in (from[i] - 1)..(from[i] + 1) : j \in Column /\ image[i][j]) =>
      LET run == RunEnds(image[i], from[i]) IN
        /\ line[i].l = (run.left >= 2)
        /\ line[i].l => line[i].left = run.left
        /\ line[i].r = (run.right <= W - 3)
        /\ line[i].r => line[i].right = run.right
=============================================================================
