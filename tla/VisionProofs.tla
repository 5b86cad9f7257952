---------------------------- MODULE VisionProofs ----------------------------
(***************************************************************************)
(* Proofs about Vision: the filter computes the mean of every inner pixel's *)
(* window, the scan of a row finds the borders of the road it starts in,    *)
(* and together they find the road of a picture with one wrong pixel, for   *)
(* images, rows and margins of any size.                                    *)
(***************************************************************************)
EXTENDS Vision, WellFoundedInduction, TLAPS

USE DEF Scan!Column, Scan!Row, Scan!Scanned

----------------------------------------------------------------------------
(* Least and greatest elements, and induction over a set.                   *)

LEMMA LeastOf ==
  ASSUME NEW T, T \subseteq Nat, T # {}
  PROVE  \E x \in T : \A y \in T : x <= y
<1> DEFINE R == OpToRel(<, Nat)
<1>1. IsWellFoundedOn(R, Nat)
  BY NatLessThanWellFounded
<1>2. PICK x \in T : \A y \in T : <<y, x>> \notin R
  <2> HIDE DEF R
  <2> QED
    BY <1>1, WFMin
<1>3. \A y \in T : ~(y < x)
  BY <1>2 DEF OpToRel
<1> QED
  BY <1>3

LEMMA StepByStep ==
  ASSUME NEW T, 0 \in T, \A n \in Nat : n \in T => n + 1 \in T
  PROVE  \A n \in Nat : n \in T
<1>1. SUFFICES ASSUME Nat \ T # {} PROVE FALSE
  OBVIOUS
<1>2. PICK x \in Nat \ T : \A y \in Nat \ T : x <= y
  BY <1>1, LeastOf
<1>3. x - 1 \in Nat /\ x - 1 \in T
  BY <1>2
<1> QED
  BY <1>3, <1>2

LEMMA LowestIs ==
  ASSUME NEW S, NEW a \in Int, S \subseteq Int, S # {}, \A x \in S : a <= x
  PROVE  Scan!Lowest(S) \in S /\ \A y \in S : Scan!Lowest(S) <= y
<1> DEFINE T == {x - a : x \in S}
<1>1. PICK t \in T : \A u \in T : t <= u
  <2>1. T # {}
    OBVIOUS
  <2>2. T \subseteq Nat
    <3> SUFFICES ASSUME NEW x \in S PROVE x - a \in Nat
      OBVIOUS
    <3> QED
      OBVIOUS
  <2> HIDE DEF T
  <2> QED
    BY <2>1, <2>2, LeastOf
<1>2. \A y \in S : y - a \in T
  OBVIOUS
<1>3. PICK x \in S : t = x - a
  OBVIOUS
<1>4. \A y \in S : x <= y
  <2> TAKE y \in S
  <2> t <= y - a
    BY <1>1, <1>2
  <2> QED
    BY <1>3
<1>5. \E z \in S : \A y \in S : z <= y
  BY <1>4
<1> QED
  BY <1>5 DEF Scan!Lowest

LEMMA HighestIs ==
  ASSUME NEW S, NEW b \in Int, S \subseteq Int, S # {}, \A x \in S : x <= b
  PROVE  Scan!Highest(S) \in S /\ \A y \in S : y <= Scan!Highest(S)
<1> DEFINE T == {b - x : x \in S}
<1>1. PICK t \in T : \A u \in T : t <= u
  <2>1. T # {}
    OBVIOUS
  <2>2. T \subseteq Nat
    <3> SUFFICES ASSUME NEW x \in S PROVE b - x \in Nat
      OBVIOUS
    <3> QED
      OBVIOUS
  <2> HIDE DEF T
  <2> QED
    BY <2>1, <2>2, LeastOf
<1>2. \A y \in S : b - y \in T
  OBVIOUS
<1>3. PICK x \in S : t = b - x
  OBVIOUS
<1>4. \A y \in S : y <= x
  <2> TAKE y \in S
  <2> t <= b - y
    BY <1>1, <1>2
  <2> QED
    BY <1>3
<1>5. \E z \in S : \A y \in S : y <= z
  BY <1>4
<1> QED
  BY <1>5 DEF Scan!Highest

----------------------------------------------------------------------------
(* One row.                                                                 *)

LEMMA LeftBorder ==
  ASSUME NEW row, NEW k \in 1..(W - 2), row[k - 1], row[k]
  PROVE  LET left == Scan!RunEnds(row, k).left IN
           /\ Scan!LeftSteps(row, k) # {} <=> left >= 2
           /\ Scan!LeftSteps(row, k) # {} => Scan!Highest(Scan!LeftSteps(row, k)) - 1 = left
<1> DEFINE A == {a \in 0..k : \A j \in a..k : row[j]}
           a == Scan!Lowest(A)
           L == Scan!LeftSteps(row, k)
<1>w. W \in Nat /\ k \in Int /\ 0 \in Int /\ W - 1 \in Int
  BY VisionAssumption
<1>1. Scan!RunEnds(row, k).left = a
  BY DEF Scan!RunEnds
<1>2. k - 1 \in A
  BY <1>w, \A j \in (k - 1)..k : j = k - 1 \/ j = k
<1>3. a \in A /\ \A b \in A : a <= b
  <2>1. A \subseteq Int /\ \A x \in A : 0 <= x
    BY <1>w
  <2>2. A # {}
    BY <1>2
  <2> HIDE DEF A
  <2> QED
    BY <2>2, <2>1, <1>w, LowestIs
<1> HIDE DEF a, A
<1>4. a \in 0..(k - 1) /\ \A j \in a..k : row[j]
  BY <1>2, <1>3, <1>w DEF A
<1>5. a >= 1 => ~row[a - 1]
  <2> SUFFICES ASSUME a >= 1, row[a - 1] PROVE FALSE
    OBVIOUS
  <2>1. \A j \in (a - 1)..k : j = a - 1 \/ j \in a..k
    BY <1>4, <1>w
  <2>2. a - 1 \in A
    BY <2>1, <1>4, <1>w DEF A
  <2> QED
    BY <2>2, <1>3, <1>4
<1>6. \A j \in L : j \in 3..k /\ j <= a + 1
  <2> SUFFICES ASSUME NEW j \in L PROVE j \in 3..k /\ j <= a + 1
    OBVIOUS
  <2>1. j \in 3..k /\ ~row[j - 2]
    BY DEF Scan!LeftSteps
  <2>2. j - 2 \notin a..k
    BY <2>1, <1>4
  <2> QED
    BY <2>1, <2>2, <1>4, <1>w
<1>7. a >= 2 => a + 1 \in L
  <2> SUFFICES ASSUME a >= 2 PROVE a + 1 \in L
    OBVIOUS
  <2>1. a + 1 \in 3..k /\ (a + 1) - 1 = a /\ (a + 1) - 2 = a - 1
    BY <1>4, <1>w
  <2>2. row[a + 1] /\ row[a]
    BY <1>4, <2>1
  <2> QED
    BY <2>1, <2>2, <1>5 DEF Scan!LeftSteps
<1>8. L # {} => Scan!Highest(L) \in L /\ \A y \in L : y <= Scan!Highest(L)
  <2> HIDE DEF L
  <2> QED
    BY <1>6, <1>4, <1>w, HighestIs
<1> HIDE DEF L
<1>9. L # {} <=> a >= 2
  BY <1>6, <1>7, <1>4, <1>w
<1>10. L # {} => Scan!Highest(L) - 1 = a
  BY <1>6, <1>7, <1>8, <1>9, <1>4, <1>w
<1> QED
  BY <1>1, <1>9, <1>10 DEF L

LEMMA RightBorder ==
  ASSUME NEW row, NEW k \in 1..(W - 2), row[k + 1], row[k]
  PROVE  LET right == Scan!RunEnds(row, k).right IN
           /\ Scan!RightSteps(row, k) # {} <=> right <= W - 3
           /\ Scan!RightSteps(row, k) # {} => Scan!Lowest(Scan!RightSteps(row, k)) + 1 = right
<1> DEFINE B == {b \in k..(W - 1) : \A j \in k..b : row[j]}
           b == Scan!Highest(B)
           R == Scan!RightSteps(row, k)
<1>w. W \in Nat /\ k \in Int /\ 0 \in Int /\ W - 1 \in Int
  BY VisionAssumption
<1>1. Scan!RunEnds(row, k).right = b
  BY DEF Scan!RunEnds
<1>2. k + 1 \in B
  BY <1>w, \A j \in k..(k + 1) : j = k + 1 \/ j = k
<1>3. b \in B /\ \A c \in B : c <= b
  <2>1. B \subseteq Int /\ \A x \in B : x <= W - 1
    BY <1>w
  <2>2. B # {}
    BY <1>2
  <2> HIDE DEF B
  <2> QED
    BY <2>2, <2>1, <1>w, HighestIs
<1> HIDE DEF b, B
<1>4. b \in (k + 1)..(W - 1) /\ \A j \in k..b : row[j]
  BY <1>2, <1>3, <1>w DEF B
<1>5. b <= W - 2 => ~row[b + 1]
  <2> SUFFICES ASSUME b <= W - 2, row[b + 1] PROVE FALSE
    OBVIOUS
  <2>1. \A j \in k..(b + 1) : j = b + 1 \/ j \in k..b
    BY <1>4, <1>w
  <2>2. b + 1 \in B
    BY <2>1, <1>4, <1>w DEF B
  <2> QED
    BY <2>2, <1>3, <1>4
<1>6. \A j \in R : j \in k..(W - 4) /\ j >= b - 1
  <2> SUFFICES ASSUME NEW j \in R PROVE j \in k..(W - 4) /\ j >= b - 1
    OBVIOUS
  <2>1. j \in k..(W - 4) /\ ~row[j + 2]
    BY DEF Scan!RightSteps
  <2>2. j + 2 \notin k..b
    BY <2>1, <1>4
  <2> QED
    BY <2>1, <2>2, <1>4, <1>w
<1>7. b <= W - 3 => b - 1 \in R
  <2> SUFFICES ASSUME b <= W - 3 PROVE b - 1 \in R
    OBVIOUS
  <2>1. b - 1 \in k..(W - 4) /\ (b - 1) + 1 = b /\ (b - 1) + 2 = b + 1
    BY <1>4, <1>w
  <2>2. row[b - 1] /\ row[b]
    BY <1>4, <2>1
  <2> QED
    BY <2>1, <2>2, <1>5, <1>4, <1>w DEF Scan!RightSteps
<1>8. R # {} => Scan!Lowest(R) \in R /\ \A y \in R : Scan!Lowest(R) <= y
  <2> HIDE DEF R
  <2> QED
    BY <1>6, <1>4, <1>w, LowestIs
<1> HIDE DEF R
<1>9. R # {} <=> b <= W - 3
  BY <1>6, <1>7, <1>4, <1>w
<1>10. R # {} => Scan!Lowest(R) + 1 = b
  BY <1>6, <1>7, <1>8, <1>9, <1>4, <1>w
<1> QED
  BY <1>1, <1>9, <1>10 DEF R

----------------------------------------------------------------------------
(* The rows of a frame, each scanned from the middle of the one below it.   *)

LineType == [left : Int, right : Int, mid : Scan!Column, l : BOOLEAN, r : BOOLEAN]

\* What the scan makes of row i, s being the lines of the rows below it.
RowOf(img, k, s, i) ==
  IF i = BOTTOM THEN Scan!ScanRow(i, img[i], k, Scan!NoLine, Scan!NoLine)
  ELSE Scan!ScanRow(i, img[i], s[i + 1].mid, s[i + 1],
                    IF i < NEAR THEN s[i + FAR] ELSE Scan!NoLine)

LEMMA NoLineType == Scan!NoLine \in LineType
<1>1. 0 \in 0..(W - 1)
  BY VisionAssumption
<1> QED
  BY <1>1 DEF LineType, Scan!NoLine

\* What a row's line says of its borders, and that its middle is in the image.
LEMMA RowLine ==
  ASSUME NEW i, NEW row, NEW k \in Scan!Column,
         NEW below \in LineType, NEW far \in LineType
  PROVE  LET new == Scan!ScanRow(i, row, k, below, far)
             L == Scan!LeftSteps(row, k)
             R == Scan!RightSteps(row, k)
         IN  /\ new \in LineType
             /\ new.l = (L # {}) /\ (new.l => new.left = Scan!Highest(L) - 1)
             /\ new.r = (R # {}) /\ (new.r => new.right = Scan!Lowest(R) + 1)
<1> DEFINE L == Scan!LeftSteps(row, k)
           R == Scan!RightSteps(row, k)
           left == IF L # {} THEN Scan!Highest(L) - 1 ELSE 0
           right == IF R # {} THEN Scan!Lowest(R) + 1 ELSE Scan!LostRight
           m == Scan!Middle(i, L # {}, R # {}, left, right, below, far)
<1>w. W \in Nat /\ W > 3 /\ k \in Int /\ MID \in Int
  BY VisionAssumption
<1>1. Scan!ScanRow(i, row, k, below, far) =
        [left |-> left, right |-> right, l |-> L # {}, r |-> R # {}, mid |-> Scan!Within(m)]
  BY DEF Scan!ScanRow
<1>2. left \in Int
  <2>1. L \subseteq Int /\ \A x \in L : x <= k
    BY <1>w DEF Scan!LeftSteps
  <2> HIDE DEF L
  <2>2. L # {} => Scan!Highest(L) \in L
    BY <2>1, <1>w, HighestIs
  <2>3. CASE L # {}
    <3>1. Scan!Highest(L) \in Int
      BY <2>1, <2>2, <2>3
    <3>2. left = Scan!Highest(L) - 1
      BY <2>3
    <3> QED
      BY <3>1, <3>2
  <2>4. CASE L = {}
    BY <2>4, <1>w
  <2> QED
    BY <2>3, <2>4
<1>3. right \in Int
  <2>1. R \subseteq Int /\ \A x \in R : k <= x
    BY <1>w DEF Scan!RightSteps
  <2> HIDE DEF R
  <2>2. R # {} => Scan!Lowest(R) \in R
    BY <2>1, <1>w, LowestIs
  <2>3. CASE R # {}
    <3>1. Scan!Lowest(R) \in Int
      BY <2>1, <2>2, <2>3
    <3>2. right = Scan!Lowest(R) + 1
      BY <2>3
    <3> QED
      BY <3>1, <3>2
  <2>4. CASE R = {}
    BY <2>4, <1>w DEF Scan!LostRight
  <2> QED
    BY <2>3, <2>4
<1> HIDE DEF left, right
<1>4. m \in Int
  <2>1. below.mid \in Int
    BY <1>w DEF LineType
  <2>2. (left + right) \div 2 \in Int
    BY <1>2, <1>3
  <2> QED
    BY <2>1, <2>2, <1>w DEF Scan!Middle
<1>5. Scan!Within(m) \in 0..(W - 1)
  <2> HIDE DEF m
  <2> QED
    BY <1>4, <1>w DEF Scan!Within
<1> HIDE DEF m
<1>6. (L # {}) \in BOOLEAN /\ (R # {}) \in BOOLEAN
  OBVIOUS
<1> HIDE DEF L, R
<1>7. Scan!ScanRow(i, row, k, below, far) \in LineType
  BY <1>1, <1>2, <1>3, <1>5, <1>6 DEF LineType
<1>8. L # {} => left = Scan!Highest(L) - 1
  BY DEF left
<1>9. R # {} => right = Scan!Lowest(R) + 1
  BY DEF right
<1> DEFINE new == Scan!ScanRow(i, row, k, below, far)
<1>10. /\ new.l = (L # {}) /\ new.left = left
       /\ new.r = (R # {}) /\ new.right = right
  BY <1>1
<1> HIDE DEF new
<1>11. /\ new.l = (L # {}) /\ (new.l => new.left = Scan!Highest(L) - 1)
       /\ new.r = (R # {}) /\ (new.r => new.right = Scan!Lowest(R) + 1)
  BY <1>8, <1>9, <1>10
<1> QED
  BY <1>7, <1>11 DEF L, R, new

\* A row depends on the rows below it only.
LEMMA RowBelow ==
  ASSUME NEW img, NEW k, NEW f, NEW g, NEW i \in Scan!Scanned,
         \A j \in (i + 1)..BOTTOM : f[j] = g[j]
  PROVE  RowOf(img, k, f, i) = RowOf(img, k, g, i)
<1>1. CASE i = BOTTOM
  BY <1>1 DEF RowOf
<1>2. CASE i # BOTTOM
  <2>1. i + 1 \in (i + 1)..BOTTOM
    BY <1>2, VisionAssumption
  <2>2. i < NEAR => i + FAR \in (i + 1)..BOTTOM
    BY <1>2, VisionAssumption
  <2>3. f[i + 1] = g[i + 1] /\ (i < NEAR => f[i + FAR] = g[i + FAR])
    BY <2>1, <2>2
  <2> QED
    BY <1>2, <2>3 DEF RowOf
<1> QED
  BY <1>1, <1>2

\* The lines of the rows exist: the recursion of the scan is well defined.
LEMMA RowsExist ==
  ASSUME NEW img, NEW k
  PROVE  \E s : s = [i \in Scan!Scanned |-> RowOf(img, k, s, i)]
<1> DEFINE T == {n \in Nat : n <= BOTTOM - FIRST =>
                   \E s : \A i \in (BOTTOM - n)..BOTTOM : s[i] = RowOf(img, k, s, i)}
<1>w. BOTTOM \in Int /\ FIRST \in Int /\ FIRST <= BOTTOM /\ BOTTOM - FIRST \in Nat
  BY VisionAssumption
<1>1. 0 \in T
  <2> DEFINE s == [i \in {BOTTOM} |-> RowOf(img, k, <<>>, i)]
  <2>1. RowOf(img, k, <<>>, BOTTOM) = RowOf(img, k, s, BOTTOM)
    BY DEF RowOf
  <2>2. \A i \in (BOTTOM - 0)..BOTTOM : i = BOTTOM
    BY <1>w
  <2>3. s[BOTTOM] = RowOf(img, k, s, BOTTOM)
    BY <2>1
  <2> HIDE DEF s
  <2> QED
    BY <2>2, <2>3
<1>2. \A n \in Nat : n \in T => n + 1 \in T
  <2> SUFFICES ASSUME NEW n \in Nat, n \in T, n + 1 <= BOTTOM - FIRST
               PROVE  \E g : \A i \in (BOTTOM - (n + 1))..BOTTOM : g[i] = RowOf(img, k, g, i)
    OBVIOUS
  <2>1. PICK s : \A i \in (BOTTOM - n)..BOTTOM : s[i] = RowOf(img, k, s, i)
    BY <1>w
  <2> DEFINE top == BOTTOM - (n + 1)
             g == [i \in top..BOTTOM |-> IF i = top THEN RowOf(img, k, s, i) ELSE s[i]]
  <2>2. /\ top \in Int /\ top + 1 = BOTTOM - n
        /\ \A i \in top..BOTTOM : i \in Scan!Scanned /\ (i = top \/ i \in (BOTTOM - n)..BOTTOM)
    BY <1>w
  <2>3. \A i \in top..BOTTOM : g[i] = IF i = top THEN RowOf(img, k, s, i) ELSE s[i]
    OBVIOUS
  <2> HIDE DEF top, g
  <2>4. ASSUME NEW i \in top..BOTTOM PROVE g[i] = RowOf(img, k, g, i)
    <3>1. \A j \in (i + 1)..BOTTOM : j \in top..BOTTOM /\ j # top
      BY <2>2, <1>w
    <3>2. \A j \in (i + 1)..BOTTOM : s[j] = g[j]
      BY <3>1, <2>3
    <3>3. RowOf(img, k, s, i) = RowOf(img, k, g, i)
      BY <3>2, <2>2, RowBelow
    <3> QED
      BY <3>3, <2>1, <2>2, <2>3
  <2> QED
    BY <2>4 DEF top
<1>3. \A n \in Nat : n \in T
  <2> HIDE DEF T
  <2> QED
    BY <1>1, <1>2, StepByStep
<1>4. PICK s : \A i \in FIRST..BOTTOM : s[i] = RowOf(img, k, s, i)
  <2>1. BOTTOM - FIRST \in T
    <3> HIDE DEF T
    <3> QED
      BY <1>3, <1>w
  <2>2. BOTTOM - (BOTTOM - FIRST) = FIRST
    BY <1>w
  <2> QED
    BY <2>1, <2>2, <1>w
<1> DEFINE g == [i \in Scan!Scanned |-> s[i]]
<1>5. ASSUME NEW i \in Scan!Scanned PROVE g[i] = RowOf(img, k, g, i)
  <2>1. \A j \in (i + 1)..BOTTOM : j \in Scan!Scanned
    BY <1>w
  <2>2. \A j \in (i + 1)..BOTTOM : s[j] = g[j]
    BY <2>1
  <2>3. RowOf(img, k, s, i) = RowOf(img, k, g, i)
    BY <2>2, RowBelow
  <2> QED
    BY <2>3, <1>4
<1>6. g = [i \in Scan!Scanned |-> RowOf(img, k, g, i)]
  BY <1>5
<1> QED
  BY <1>6

LEMMA RowsAre ==
  ASSUME NEW img, NEW k
  PROVE  LET s == Scan!ScanRows(img, k)
         IN  s = [i \in Scan!Scanned |-> RowOf(img, k, s, i)]
<1>1. Scan!ScanRows(img, k) = CHOOSE s : s = [i \in Scan!Scanned |-> RowOf(img, k, s, i)]
  BY DEF Scan!ScanRows, RowOf
<1> QED
  BY <1>1, RowsExist

\* Every row has a line, and is scanned from a column of the image.
LEMMA RowsType ==
  ASSUME NEW img, NEW k \in Scan!Column
  PROVE  \A i \in Scan!Scanned : Scan!ScanRows(img, k)[i] \in LineType
<1> DEFINE s == Scan!ScanRows(img, k)
           T == {n \in Nat : \A i \in (BOTTOM - n)..BOTTOM : i \in Scan!Scanned => s[i] \in LineType}
<1>w. /\ BOTTOM \in Int /\ FIRST \in Int /\ FIRST <= BOTTOM /\ BOTTOM - FIRST \in Nat
      /\ NEAR \in Int /\ FAR \in Nat /\ FAR > 0 /\ NEAR + FAR <= BOTTOM + 1
  BY VisionAssumption
<1>a. \A i \in Scan!Scanned : s[i] = RowOf(img, k, s, i)
  <2>1. s = [i \in Scan!Scanned |-> RowOf(img, k, s, i)]
    BY RowsAre
  <2> HIDE DEF s
  <2> QED
    BY <2>1
<1> HIDE DEF s
<1>1. 0 \in T
  <2>1. \A i \in (BOTTOM - 0)..BOTTOM : i = BOTTOM
    BY <1>w
  <2>2. RowOf(img, k, s, BOTTOM) \in LineType
    BY RowLine, NoLineType DEF RowOf
  <2> QED
    BY <2>1, <2>2, <1>a
<1>2. \A n \in Nat : n \in T => n + 1 \in T
  <2> SUFFICES ASSUME NEW n \in Nat, n \in T,
                      NEW i \in (BOTTOM - (n + 1))..BOTTOM, i \in Scan!Scanned
               PROVE  s[i] \in LineType
    OBVIOUS
  <2>1. \A j \in (BOTTOM - n)..BOTTOM : j \in Scan!Scanned => s[j] \in LineType
    OBVIOUS
  <2>2. CASE i \in (BOTTOM - n)..BOTTOM
    BY <2>1, <2>2
  <2>3. CASE i \notin (BOTTOM - n)..BOTTOM
    <3>1. i + 1 \in (BOTTOM - n)..BOTTOM /\ i + 1 \in Scan!Scanned /\ i # BOTTOM
      BY <2>3, <1>w
    <3>2. i < NEAR => i + FAR \in (BOTTOM - n)..BOTTOM /\ i + FAR \in Scan!Scanned
      BY <2>3, <1>w
    <3>3. s[i + 1] \in LineType /\ s[i + 1].mid \in Scan!Column
      BY <3>1, <2>1 DEF LineType
    <3>4. (IF i < NEAR THEN s[i + FAR] ELSE Scan!NoLine) \in LineType
      BY <3>2, <2>1, NoLineType
    <3>5. RowOf(img, k, s, i) \in LineType
      BY <3>1, <3>3, <3>4, RowLine DEF RowOf
    <3> QED
      BY <3>5, <1>a
  <2> QED
    BY <2>2, <2>3
<1>3. \A n \in Nat : n \in T
  <2> HIDE DEF T
  <2> QED
    BY <1>1, <1>2, StepByStep
<1>4. BOTTOM - FIRST \in T
  <2> HIDE DEF T
  <2> QED
    BY <1>3, <1>w
<1>5. BOTTOM - (BOTTOM - FIRST) = FIRST
  BY <1>w
<1> QED
  BY <1>4, <1>5 DEF s

----------------------------------------------------------------------------
(* What is known of the lines between the scan and findline2.               *)

\* The line of a row that was scanned from column k.
LineFrom(row, k, new) ==
  LET L == Scan!LeftSteps(row, k)
      R == Scan!RightSteps(row, k)
  IN  /\ new \in LineType
      /\ new.l = (L # {}) /\ (new.l => new.left = Scan!Highest(L) - 1)
      /\ new.r = (R # {}) /\ (new.r => new.right = Scan!Lowest(R) + 1)

\* The next scan starts inside the image, and every line is what the picture has
\* around the column its row was scanned from.
ScanInv ==
  /\ column_start \in Scan!Column
  /\ done => \A i \in Scan!Scanned :
       from[i] \in Scan!Column /\ LineFrom(BinImage[i], from[i], line[i])

\* A row's start and line, for any image and start of the frame.
LEMMA RowsFrom ==
  ASSUME NEW img, NEW k \in Scan!Column, NEW i \in Scan!Scanned
  PROVE  LET s == Scan!ScanRows(img, k)
             start == IF i = BOTTOM THEN k ELSE s[i + 1].mid
         IN  start \in Scan!Column /\ LineFrom(img[i], start, s[i])
<1> DEFINE s == Scan!ScanRows(img, k)
           start == IF i = BOTTOM THEN k ELSE s[i + 1].mid
<1>w. /\ i \in Int /\ BOTTOM \in Int /\ FIRST \in Int /\ NEAR \in Int /\ FAR \in Nat
      /\ NEAR + FAR <= BOTTOM + 1
  BY VisionAssumption
<1>1. \A j \in Scan!Scanned : s[j] \in LineType
  BY RowsType
<1>2. s = [j \in Scan!Scanned |-> RowOf(img, k, s, j)]
  BY RowsAre
<1> HIDE DEF s
<1>3. s[i] = RowOf(img, k, s, i)
  BY <1>2
<1>4. CASE i = BOTTOM
  <2>1. s[i] = Scan!ScanRow(i, img[i], k, Scan!NoLine, Scan!NoLine)
    BY <1>3, <1>4 DEF RowOf
  <2>2. LineFrom(img[i], k, s[i])
    BY <2>1, NoLineType, RowLine DEF LineFrom
  <2> QED
    BY <2>2, <1>4 DEF s
<1>5. CASE i # BOTTOM
  <2> DEFINE far == IF i < NEAR THEN s[i + FAR] ELSE Scan!NoLine
  <2>1. i + 1 \in Scan!Scanned /\ (i < NEAR => i + FAR \in Scan!Scanned)
    BY <1>5, <1>w
  <2>2. s[i + 1] \in LineType /\ far \in LineType
    BY <2>1, <1>1, NoLineType
  <2>3. s[i + 1].mid \in Scan!Column
    BY <2>2 DEF LineType
  <2>4. s[i] = Scan!ScanRow(i, img[i], s[i + 1].mid, s[i + 1], far)
    BY <1>3, <1>5 DEF RowOf
  <2> HIDE DEF far
  <2>5. LineFrom(img[i], s[i + 1].mid, s[i])
    BY <2>2, <2>3, <2>4, RowLine DEF LineFrom
  <2> QED
    BY <2>3, <2>5, <1>5 DEF s
<1> QED
  BY <1>4, <1>5

LEMMA ScanInit == Init => ScanInv
BY VisionAssumption DEF Init, Scan!Init, ScanInv

LEMMA ScanFrame ==
  ASSUME ScanInv, Frame
  PROVE  ScanInv'
<1> DEFINE s == Scan!ScanRows(BinImage', column_start)
<1>w. /\ BOTTOM \in Int /\ FIRST \in Nat /\ FIRST <= BOTTOM
  BY VisionAssumption
<1>1. Scan!findline1(BinImage') /\ column_start \in Scan!Column
  BY DEF Frame, ScanInv
<1>2. /\ line' = [i \in Scan!Row |-> IF i \in Scan!Scanned THEN s[i] ELSE line[i]]
      /\ from' = [i \in Scan!Row |-> IF i \notin Scan!Scanned THEN from[i]
                    ELSE IF i = BOTTOM THEN column_start ELSE s[i + 1].mid]
      /\ column_start' = line'[BOTTOM].mid
  BY <1>1 DEF Scan!findline1, Scan!StartOf
<1>3. ASSUME NEW i \in Scan!Scanned
      PROVE  /\ line'[i] = s[i]
             /\ from'[i] \in Scan!Column /\ LineFrom(BinImage'[i], from'[i], line'[i])
  <2>1. i \in Scan!Row
    BY <1>w
  <2> DEFINE start == IF i = BOTTOM THEN column_start ELSE s[i + 1].mid
  <2>2. start \in Scan!Column /\ LineFrom(BinImage'[i], start, s[i])
    BY <1>1, RowsFrom
  <2>3. line'[i] = s[i] /\ from'[i] = start
    BY <1>2, <2>1
  <2> QED
    BY <2>2, <2>3
<1>4. column_start' \in Scan!Column
  <2>1. BOTTOM \in Scan!Scanned
    BY <1>w
  <2>2. line'[BOTTOM] \in LineType
    BY <2>1, <1>3 DEF LineFrom
  <2> QED
    BY <2>2, <1>2 DEF LineType
<1> QED
  BY <1>3, <1>4 DEF ScanInv

LEMMA ScanFinish ==
  ASSUME ScanInv, Finish
  PROVE  ScanInv'
<1>w. /\ BOTTOM \in Int /\ FIRST \in Nat /\ FIRST <= BOTTOM /\ W \in Nat
      /\ LOW \in 0..(W - 1) /\ HIGH \in LOW..(W - 1)
  BY VisionAssumption
<1>1. done /\ ~done'
  BY DEF Finish
<1>2. line[BOTTOM].mid \in Scan!Column
  <2>1. line[BOTTOM] \in LineType
    BY <1>1, <1>w DEF ScanInv, LineFrom
  <2> QED
    BY <2>1 DEF LineType
<1>3. PICK c \in Scan!Column : column_start' = Scan!Margined(c)
  BY <1>2 DEF Finish, Scan!findline2
<1>4. Scan!Margined(c) \in Scan!Column
  BY <1>w DEF Scan!Margined
<1> QED
  BY <1>1, <1>3, <1>4 DEF ScanInv

\* The scan starts in the image, frame after frame, although findline2 moves the
\* start (column_start in findline1 and findline2).
THEOREM ScanStartsInside == Spec => []ScanInv
<1>1. Init => ScanInv
  BY ScanInit
<1>2. ScanInv /\ [Next]_vars => ScanInv'
  <2> SUFFICES ASSUME ScanInv, [Next]_vars PROVE ScanInv'
    OBVIOUS
  <2>1. CASE Frame
    BY <2>1, ScanFrame
  <2>2. CASE Finish
    BY <2>2, ScanFinish
  <2>3. CASE UNCHANGED vars
    BY <2>3 DEF ScanInv, vars, imageVars, lineVars
  <2> QED
    BY <2>1, <2>2, <2>3 DEF Next
<1> QED
  BY <1>1, <1>2, PTL DEF Spec

LEMMA ScanFinds == ScanInv => FindsOwnRoad
<1> SUFFICES ASSUME ScanInv, done, NEW i \in Scan!Scanned,
                    \A j \in (from[i] - 1)..(from[i] + 1) : j \in Scan!Column /\ BinImage[i][j]
             PROVE  LET run == Scan!RunEnds(BinImage[i], from[i]) IN
                      /\ line[i].l = (run.left >= 2)
                      /\ line[i].l => line[i].left = run.left
                      /\ line[i].r = (run.right <= W - 3)
                      /\ line[i].r => line[i].right = run.right
  BY DEF FindsOwnRoad, Scan!FindsOwnRoad
<1> DEFINE k == from[i]
           row == BinImage[i]
<1>1. k \in Scan!Column /\ LineFrom(row, k, line[i]) /\ W \in Nat
  BY VisionAssumption DEF ScanInv
<1> HIDE DEF k, row
<1>2. \A j \in (k - 1)..(k + 1) : j \in Scan!Column /\ row[j]
  BY DEF k, row
<1>3. k - 1 \in Scan!Column /\ k + 1 \in Scan!Column /\ row[k - 1] /\ row[k] /\ row[k + 1]
  <2>1. k - 1 \in (k - 1)..(k + 1) /\ k \in (k - 1)..(k + 1) /\ k + 1 \in (k - 1)..(k + 1)
    BY <1>1
  <2> QED
    BY <2>1, <1>2
<1>4. k \in 1..(W - 2)
  BY <1>1, <1>3
<1> DEFINE run == Scan!RunEnds(row, k)
           new == line[i]
<1>5. /\ Scan!LeftSteps(row, k) # {} <=> run.left >= 2
      /\ Scan!LeftSteps(row, k) # {} => Scan!Highest(Scan!LeftSteps(row, k)) - 1 = run.left
  BY <1>3, <1>4, LeftBorder
<1>6. /\ Scan!RightSteps(row, k) # {} <=> run.right <= W - 3
      /\ Scan!RightSteps(row, k) # {} => Scan!Lowest(Scan!RightSteps(row, k)) + 1 = run.right
  BY <1>3, <1>4, RightBorder
<1> HIDE DEF run, new
<1>7. /\ new.l = (Scan!LeftSteps(row, k) # {})
      /\ new.l => new.left = Scan!Highest(Scan!LeftSteps(row, k)) - 1
      /\ new.r = (Scan!RightSteps(row, k) # {})
      /\ new.r => new.right = Scan!Lowest(Scan!RightSteps(row, k)) + 1
  BY <1>1 DEF LineFrom, new
<1> DEFINE L == Scan!LeftSteps(row, k)
           R == Scan!RightSteps(row, k)
<1>8. (L # {}) = (run.left >= 2)
  BY <1>5
<1>9. (R # {}) = (run.right <= W - 3)
  BY <1>6
<1>10. new.l <=> L # {}
  BY <1>7
<1>11. new.r <=> R # {}
  BY <1>7
<1>12. new.l => new.left = run.left
  BY <1>5, <1>7, <1>10
<1>13. new.r => new.right = run.right
  BY <1>6, <1>7, <1>11
<1>14. new.l = (run.left >= 2)
  BY <1>7, <1>8, Zenon DEF L
<1>15. new.r = (run.right <= W - 3)
  BY <1>7, <1>9, Zenon DEF R
<1> QED
  BY <1>12, <1>13, <1>14, <1>15 DEF run, new, k, row

\* A row scanned from inside a road is given that road's borders, and exactly
\* those that keep two columns from the edge (the loops of findline1), whatever
\* is in the picture and wherever the rows below put the start.
THEOREM RoadIsOwn == Spec => []FindsOwnRoad
BY ScanStartsInside, ScanFinds, PTL

----------------------------------------------------------------------------
(* The filter.                                                              *)

LEMMA PixelAt ==
  ASSUME NEW y \in 0..(H - 1), NEW x \in 0..(W - 1)
  PROVE  /\ y * W + x \in Process!Pixel
         /\ Process!Row(y * W + x) = y /\ Process!Column(y * W + x) = x
<1>w. W \in Nat /\ W > 0 /\ H \in Nat /\ x \in Nat /\ x < W /\ y \in Nat /\ y < H
  BY VisionAssumption
<1> DEFINE p == y * W
           a == p + x
           q == a \div W
           r == a % W
<1>1. p \in Nat
  BY <1>w
<1>2. q \in Nat /\ r \in 0..(W - 1) /\ a = q * W + r
  BY <1>w, <1>1
<1>3. q = y
  <2>1. ASSUME q >= y + 1 PROVE FALSE
    <3>1. q * W >= (y + 1) * W
      BY <2>1, <1>2, <1>w, SMT
    <3>2. (y + 1) * W = p + W
      BY <1>w
    <3> QED
      BY <3>1, <3>2, <1>1, <1>2, <1>w
  <2>2. ASSUME y >= q + 1 PROVE FALSE
    <3>1. y * W >= (q + 1) * W
      BY <2>2, <1>2, <1>w, SMT
    <3>2. (q + 1) * W = q * W + W
      BY <1>2, <1>w
    <3> QED
      BY <3>1, <3>2, <1>1, <1>2, <1>w
  <2> QED
    BY <2>1, <2>2, <1>2, <1>w
<1>4. r = x
  BY <1>1, <1>2, <1>3, <1>w
<1>5. a < W * H
  <2>1. (y + 1) * W <= H * W
    BY <1>w, SMT
  <2>2. (y + 1) * W = p + W /\ H * W = W * H
    BY <1>w
  <2> QED
    BY <2>1, <2>2, <1>1, <1>w
<1>6. a \in 0..(W * H - 1)
  BY <1>1, <1>5, <1>w
<1> QED
  BY <1>3, <1>4, <1>6 DEF Process!Pixel, Process!Row, Process!Column

FilterInv ==
  done => \A a \in Process!Pixel :
    FilterImage[a] = IF Process!Edge(a) THEN memory[a] ELSE Process!Smooth(memory, a)

LEMMA FilterStep == FilterInv /\ [Next]_vars => FilterInv'
<1> SUFFICES ASSUME FilterInv, [Next]_vars PROVE FilterInv'
  OBVIOUS
<1>1. CASE Frame
  <2>1. FilterImage' =
          [a \in Process!Pixel |->
             IF Process!Edge(a) THEN memory'[a]
             ELSE IF Process!Row(a) >= 1 /\ Process!Column(a) >= 1 THEN Process!Smooth(memory', a)
             ELSE FilterImage[a]]
    BY <1>1 DEF Frame, Process!Process, Process!gray_mean_filter
  <2>2. ASSUME NEW a \in Process!Pixel, ~Process!Edge(a)
        PROVE  Process!Row(a) >= 1 /\ Process!Column(a) >= 1
    <3>1. a \in Nat /\ W \in Nat /\ W > 0
      BY VisionAssumption DEF Process!Pixel
    <3>2. Process!Row(a) \in Nat /\ Process!Column(a) \in Nat
      BY <3>1 DEF Process!Row, Process!Column
    <3> QED
      BY <2>2, <3>2 DEF Process!Edge
  <2> QED
    BY <2>1, <2>2 DEF FilterInv
<1>2. CASE Finish
  BY <1>2 DEF Finish, FilterInv
<1>3. CASE UNCHANGED vars
  BY <1>3 DEF FilterInv, vars, imageVars, Process!Smooth
<1> QED
  BY <1>1, <1>2, <1>3 DEF Next

LEMMA FilterMeans == FilterInv => FilterIsMean
<1> SUFFICES ASSUME FilterInv, done, NEW y \in 0..(H - 1), NEW x \in 0..(W - 1)
             PROVE  LET grey(v, u) == memory[(y + v) * W + x + u]
                        row(v) == grey(v, -1) + grey(v, 0) + grey(v, 1)
                    IN  FilterImage[y * W + x] =
                          IF y \in 1..(H - 2) /\ x \in 1..(W - 2)
                          THEN (row(-1) + row(0) + row(1)) \div 9
                          ELSE grey(0, 0)
  BY DEF FilterIsMean, Process!FilterIsMean
<1> DEFINE p == y * W
           a == p + x
<1>w. W \in Nat /\ W > 0 /\ H \in Nat /\ x \in Nat /\ x < W /\ y \in Nat /\ y < H
  BY VisionAssumption
<1>1. a \in Process!Pixel /\ Process!Row(a) = y /\ Process!Column(a) = x
  BY PixelAt
<1>2. FilterImage[a] = IF Process!Edge(a) THEN memory[a] ELSE Process!Smooth(memory, a)
  BY <1>1 DEF FilterInv
<1>3. Process!Edge(a) <=> ~(y \in 1..(H - 2) /\ x \in 1..(W - 2))
  BY <1>1, <1>w DEF Process!Edge
<1>4. p \in Int /\ (y + -1) * W = p - W /\ (y + 0) * W = p /\ (y + 1) * W = p + W
  BY <1>w
<1> HIDE DEF p
<1>5. /\ (p - W) + x + -1 = (a - W) - 1 /\ (p - W) + x + 0 = a - W
      /\ (p - W) + x + 1 = (a - W) + 1
      /\ p + x + -1 = a - 1 /\ p + x + 0 = a /\ p + x + 1 = a + 1
      /\ (p + W) + x + -1 = (a + W) - 1 /\ (p + W) + x + 0 = a + W
      /\ (p + W) + x + 1 = (a + W) + 1
  BY <1>4, <1>w
<1>6. /\ (y + 0) * W + x + 0 = a
      /\ Process!Smooth(memory, a) =
           ( (memory[(y + -1) * W + x + -1] + memory[(y + -1) * W + x + 0] + memory[(y + -1) * W + x + 1])
           + (memory[(y + 0) * W + x + -1] + memory[(y + 0) * W + x + 0] + memory[(y + 0) * W + x + 1])
           + (memory[(y + 1) * W + x + -1] + memory[(y + 1) * W + x + 0] + memory[(y + 1) * W + x + 1])) \div 9
  BY <1>4, <1>5 DEF Process!Smooth
<1> QED
  BY <1>2, <1>3, <1>6 DEF p

\* Nothing the first loop of gray_mean_filter reads past the image survives: the
\* second loops overwrite every pixel it could have reached, for images of any
\* size and whatever lies behind them in memory.
THEOREM FilterCorrect == Spec => []FilterIsMean
<1>1. Init => FilterInv
  BY DEF Init, Scan!Init, FilterInv
<1> QED
  BY <1>1, FilterStep, FilterMeans, PTL DEF Spec

----------------------------------------------------------------------------
(* From the picture to the borders.                                         *)

\* The first column of the road in row y.
LeftAt(s, y) ==
  IF y >= H \div 2 THEN s.left + s.near * (H - 1 - y)
  ELSE s.left + s.near * (H - 1 - H \div 2) + s.far * (H \div 2 - y)

OnRoad(s, y, x) == LeftAt(s, y) <= x /\ x <= LeftAt(s, y) + WIDTH - 1

LEMMA LeftMoves ==
  ASSUME NEW s \in Scene, NEW y \in Int
  PROVE  LeftAt(s, y) \in Int /\ LeftAt(s, y + 1) - LeftAt(s, y) \in -1..1
<1> DEFINE b == H \div 2
           p == s.left
           n == s.near
           f == s.far
<1>w. /\ H \in Int /\ b \in Int /\ p \in Int
      /\ n \in {-1, 0, 1} /\ f \in {-1, 0, 1}
  <2>1. H \in Int /\ LEFT \subseteq Int
    BY VisionAssumption
  <2>2. p \in LEFT /\ n \in -1..1 /\ f \in -1..1
    BY DEF Scene
  <2>3. b \in Int
    BY <2>1
  <2> HIDE DEF b, p, n, f
  <2> QED
    BY <2>1, <2>2, <2>3
<1>1. LeftAt(s, y) = IF y >= b THEN p + n * (H - 1 - y) ELSE p + n * (H - 1 - b) + f * (b - y)
  BY DEF LeftAt
<1>2. LeftAt(s, y + 1) = IF y + 1 >= b THEN p + n * (H - 1 - (y + 1))
                         ELSE p + n * (H - 1 - b) + f * (b - (y + 1))
  BY DEF LeftAt
<1> HIDE DEF b, p, n, f
<1>3. \A k \in Int : n * k = (IF n = 0 THEN 0 ELSE IF n = 1 THEN k ELSE -k)
  BY <1>w
<1>4. \A k \in Int : f * k = (IF f = 0 THEN 0 ELSE IF f = 1 THEN k ELSE -k)
  BY <1>w
<1>5. /\ n * (H - 1 - y) \in Int /\ n * (H - 1 - b) \in Int /\ f * (b - y) \in Int
      /\ n * (H - 1 - (y + 1)) = n * (H - 1 - y) - n
      /\ f * (b - (y + 1)) = f * (b - y) - f
      /\ y = b => n * (H - 1 - y) = n * (H - 1 - b)
      /\ y = b - 1 => n * (H - 1 - (y + 1)) = n * (H - 1 - b) /\ f * (b - y) = f
  BY <1>3, <1>4, <1>w
<1> DEFINE a1 == n * (H - 1 - y)
           a2 == n * (H - 1 - b)
           a3 == f * (b - y)
           a4 == n * (H - 1 - (y + 1))
           a5 == f * (b - (y + 1))
<1>6. /\ a1 \in Int /\ a2 \in Int /\ a3 \in Int /\ a4 = a1 - n /\ a5 = a3 - f
      /\ y = b => a1 = a2
      /\ y = b - 1 => a4 = a2 /\ a3 = f
  BY <1>5
<1>7. /\ LeftAt(s, y) = IF y >= b THEN p + a1 ELSE p + a2 + a3
      /\ LeftAt(s, y + 1) = IF y + 1 >= b THEN p + a4 ELSE p + a2 + a5
  BY <1>1, <1>2
<1> HIDE DEF a1, a2, a3, a4, a5
<1> QED
  BY <1>6, <1>7, <1>w

LEMMA RoadIs ==
  ASSUME NEW s \in Scene, NEW y \in Int
  PROVE  RoadAt(s, y) = LeftAt(s, y)..(LeftAt(s, y) + WIDTH - 1)
BY DEF RoadAt, LeftAt

LEMMA IntervalEnds ==
  ASSUME NEW a \in Int, NEW b \in Int, a <= b
  PROVE  First(a..b) = a /\ Last(a..b) = b
<1>1. a \in a..b /\ b \in a..b /\ \A y \in a..b : y \in Int /\ a <= y /\ y <= b
  OBVIOUS
<1> DEFINE S == a..b
<1>2. S \subseteq Int /\ a \in S /\ b \in S /\ \A y \in S : a <= y /\ y <= b
  BY <1>1
<1> HIDE DEF S
<1>3. First(S) = a
  <2>1. \A x \in S : (\A y \in S : x <= y) => x = a
    BY <1>2
  <2>2. a \in S /\ \A y \in S : a <= y
    BY <1>2
  <2> QED
    BY <2>1, <2>2 DEF First
<1>4. Last(S) = b
  <2>1. \A x \in S : (\A y \in S : x >= y) => x = b
    BY <1>2
  <2>2. b \in S /\ \A y \in S : b >= y
    BY <1>2
  <2> QED
    BY <2>1, <2>2 DEF Last
<1> QED
  BY <1>3, <1>4 DEF S

\* With a blot of one pixel only that pixel is not the road's or the ground's.
LEMMA GreyIs ==
  ASSUME NEW s \in Scene, s.size = 1, NEW y \in Int, NEW x \in Int
  PROVE  Grey(s, y, x) = IF y = s.y /\ x = s.x THEN s.grey
                         ELSE IF OnRoad(s, y, x) THEN BRIGHT ELSE DARK
<1>1. s.y \in Int /\ s.x \in Int
  BY VisionAssumption DEF Scene
<1>2. LeftAt(s, y) \in Int /\ WIDTH \in Int
  BY LeftMoves, VisionAssumption
<1>3. (y \in s.y..(s.y + s.size - 1) /\ x \in s.x..(s.x + s.size - 1)) <=> (y = s.y /\ x = s.x)
  BY <1>1
<1>4. x \in RoadAt(s, y) <=> OnRoad(s, y, x)
  BY <1>2, RoadIs DEF OnRoad
<1> QED
  BY <1>3, <1>4 DEF Grey

\* Three pixels of a row.
Three(s, y, x) == Grey(s, y, x - 1) + Grey(s, y, x) + Grey(s, y, x + 1)

\* What the blot can take away from a row, or add to it.
Stain(s, y) == IF y = s.y THEN BRIGHT - DARK ELSE 0

LEMMA ThreeBounds ==
  ASSUME NEW s \in Scene, s.size = 1, NEW y \in Int, NEW x \in Int
  PROVE  /\ Three(s, y, x) \in Int
         /\ OnRoad(s, y, x) /\ WIDTH >= 2 => Three(s, y, x) >= 2 * BRIGHT + DARK - Stain(s, y)
         /\ x + 1 < LeftAt(s, y) \/ x - 1 > LeftAt(s, y) + WIDTH - 1
              => Three(s, y, x) <= 3 * DARK + Stain(s, y)
<1> DEFINE g(v) == Grey(s, y, v)
           l == LeftAt(s, y)
           d == Stain(s, y)
<1>w. /\ l \in Int /\ WIDTH \in Int
      /\ DARK \in Int /\ BRIGHT \in Int /\ DARK <= BRIGHT
      /\ s.grey \in {DARK, BRIGHT} /\ s.x \in Int
  <2>1. /\ WIDTH \in Int /\ DARK \in Int /\ BRIGHT \in Int /\ DARK <= BRIGHT /\ W \in Int
    BY VisionAssumption
  <2>2. s.grey \in {DARK, BRIGHT} /\ s.x \in 0..(W - 1)
    BY DEF Scene
  <2> QED
    BY <2>1, <2>2, LeftMoves
<1>1. \A v \in Int : g(v) = IF y = s.y /\ v = s.x THEN s.grey
                            ELSE IF l <= v /\ v <= l + WIDTH - 1 THEN BRIGHT ELSE DARK
  BY GreyIs DEF OnRoad
<1>2. d = IF y = s.y THEN BRIGHT - DARK ELSE 0
  BY DEF Stain
<1>3. /\ Three(s, y, x) = g(x - 1) + g(x) + g(x + 1)
      /\ OnRoad(s, y, x) <=> l <= x /\ x <= l + WIDTH - 1
  BY DEF Three, OnRoad
<1> HIDE DEF g, l, d
<1>4. /\ x - 1 \in Int /\ x + 1 \in Int
      /\ g(x - 1) \in {DARK, BRIGHT} /\ g(x) \in {DARK, BRIGHT} /\ g(x + 1) \in {DARK, BRIGHT}
  BY <1>1, <1>w
<1>5. g(x - 1) + g(x) + g(x + 1) \in Int
  BY <1>4, <1>w
<1>6. ASSUME l <= x, x <= l + WIDTH - 1, WIDTH >= 2
      PROVE  g(x - 1) + g(x) + g(x + 1) >= 2 * BRIGHT + DARK - d
  BY <1>6, <1>1, <1>2, <1>4, <1>w
<1>7. ASSUME x + 1 < l \/ x - 1 > l + WIDTH - 1
      PROVE  g(x - 1) + g(x) + g(x + 1) <= 3 * DARK + d
  BY <1>7, <1>1, <1>2, <1>4, <1>w
<1> QED
  BY <1>3, <1>5, <1>6, <1>7 DEF l, d

\* What the binary image is made of, from the frame to findline2.
PictureInv ==
  done => /\ scene \in Scene /\ memory = Picture(scene)
          /\ \A y \in 0..(H - 1), x \in 0..(W - 1) :
               BinImage[y][x] = (FilterImage[y * W + x] > ImageThreshold)

LEMMA PictureStep == PictureInv /\ [Next]_vars => PictureInv'
<1> SUFFICES ASSUME PictureInv, [Next]_vars PROVE PictureInv'
  OBVIOUS
<1>1. CASE Frame
  <2>1. /\ scene' \in Scene /\ memory' = Picture(scene')
        /\ BinImage' = Process!gray_to_binary(FilterImage', ImageThreshold')
    BY <1>1 DEF Frame, Process!Process
  <2>2. (memory = Picture(scene))' <=> memory' = Picture(scene')
    BY DEF Picture, Grey, RoadAt
  <2>3. \A y \in 0..(H - 1), x \in 0..(W - 1) :
          BinImage'[y][x] = (FilterImage'[y * W + x] > ImageThreshold')
    BY <2>1 DEF Process!gray_to_binary
  <2> QED
    BY <2>1, <2>2, <2>3 DEF PictureInv
<1>2. CASE Finish
  BY <1>2 DEF Finish, PictureInv
<1>3. CASE UNCHANGED vars
  BY <1>3 DEF PictureInv, vars, imageVars, Picture, Grey, RoadAt
<1> QED
  BY <1>1, <1>2, <1>3 DEF Next

LEMMA MemoryAt ==
  ASSUME PictureInv, done, NEW y \in 0..(H - 1), NEW x \in 0..(W - 1)
  PROVE  memory[y * W + x] = Grey(scene, y, x)
<1> DEFINE a == y * W + x
<1>1. a \in Process!Pixel /\ a \div W = y /\ a % W = x
  BY PixelAt DEF Process!Row, Process!Column
<1>2. a \in Process!Memory
  <2>1. W * H \in Nat /\ W \in Nat
    BY VisionAssumption
  <2> HIDE DEF a
  <2> QED
    BY <1>1, <2>1 DEF Process!Pixel, Process!Memory
<1> HIDE DEF a
<1>3. memory = Picture(scene)
  BY DEF PictureInv
<1>4. memory[a] = Grey(scene, a \div W, a % W)
  BY <1>1, <1>2, <1>3 DEF Picture
<1>5. memory[a] = Grey(scene, y, x)
  BY <1>1, <1>4
<1> QED
  BY <1>5 DEF a

LEMMA FilteredAt ==
  ASSUME PictureInv, FilterIsMean, done, NEW y \in 1..(H - 2), NEW x \in 1..(W - 2)
  PROVE  /\ FilterImage[y * W + x] =
              (Three(scene, y - 1, x) + Three(scene, y, x) + Three(scene, y + 1, x)) \div 9
         /\ BinImage[y][x] = (FilterImage[y * W + x] > ImageThreshold)
<1>w. W \in Int /\ H \in Int /\ y \in 0..(H - 1) /\ x \in 0..(W - 1)
  BY VisionAssumption
<1> DEFINE grey(v, u) == memory[(y + v) * W + x + u]
           row(v) == grey(v, -1) + grey(v, 0) + grey(v, 1)
<1>1. FilterImage[y * W + x] = (row(-1) + row(0) + row(1)) \div 9
  BY <1>w DEF FilterIsMean, Process!FilterIsMean
<1>2. ASSUME NEW v \in -1..1, NEW u \in -1..1
      PROVE  grey(v, u) = Grey(scene, y + v, x + u)
  <2>1. y + v \in 0..(H - 1) /\ x + u \in 0..(W - 1)
    BY <1>w
  <2>2. memory[(y + v) * W + (x + u)] = Grey(scene, y + v, x + u)
    BY <2>1, MemoryAt
  <2>3. (y + v) * W + (x + u) = (y + v) * W + x + u
    <3>1. (y + v) * W \in Int
      BY <1>w
    <3> QED
      BY <3>1, <1>w
  <2> QED
    BY <2>2, <2>3
<1>3. \A v \in -1..1 : row(v) = Three(scene, y + v, x)
  <2> TAKE v \in -1..1
  <2>1. x + -1 = x - 1 /\ x + 0 = x
    BY <1>w
  <2>2. /\ grey(v, -1) = Grey(scene, y + v, x + -1)
        /\ grey(v, 0) = Grey(scene, y + v, x + 0)
        /\ grey(v, 1) = Grey(scene, y + v, x + 1)
    BY <1>2
  <2> HIDE DEF grey
  <2> QED
    BY <2>1, <2>2 DEF Three
<1> HIDE DEF row
<1>4. y + -1 = y - 1 /\ y + 0 = y
  BY <1>w
<1>5. row(-1) = Three(scene, y - 1, x) /\ row(0) = Three(scene, y, x) /\ row(1) = Three(scene, y + 1, x)
  BY <1>3, <1>4
<1> QED
  BY <1>1, <1>5, <1>w DEF PictureInv

\* The threshold lies between the mean of nine pixels of which one is bright and
\* that of nine of which five are.
Separates ==
  ImageThreshold \in ((8 * DARK + BRIGHT) \div 9)..(((5 * BRIGHT + 4 * DARK) \div 9) - 1)

\* White where the road is in all three rows, black beside it.
LEMMA RoadIsWhite ==
  ASSUME PictureInv, FilterIsMean, done, scene.size = 1, Separates, WIDTH >= 2,
         NEW y \in 1..(H - 2), NEW x \in 1..(W - 2)
  PROVE  /\ (\A r \in (y - 1)..(y + 1) : OnRoad(scene, r, x)) => BinImage[y][x]
         /\ (\A r \in (y - 1)..(y + 1) :
               x + 1 < LeftAt(scene, r) \/ x - 1 > LeftAt(scene, r) + WIDTH - 1) => ~BinImage[y][x]
<1> DEFINE t(r) == Three(scene, r, x)
           e(r) == Stain(scene, r)
           white == \A r \in (y - 1)..(y + 1) : OnRoad(scene, r, x)
           black == \A r \in (y - 1)..(y + 1) :
                      x + 1 < LeftAt(scene, r) \/ x - 1 > LeftAt(scene, r) + WIDTH - 1
           sum == t(y - 1) + t(y) + t(y + 1)
<1>w. /\ H \in Int /\ W \in Int /\ y \in Int /\ x \in Int
      /\ DARK \in Int /\ BRIGHT \in Int /\ DARK <= BRIGHT
  BY VisionAssumption
<1>s. scene \in Scene
  BY DEF PictureInv
<1>1. \A r \in (y - 1)..(y + 1) :
        /\ t(r) \in Int
        /\ OnRoad(scene, r, x) => t(r) >= 2 * BRIGHT + DARK - e(r)
        /\ x + 1 < LeftAt(scene, r) \/ x - 1 > LeftAt(scene, r) + WIDTH - 1
             => t(r) <= 3 * DARK + e(r)
  BY <1>s, <1>w, ThreeBounds
<1>2. \A r \in (y - 1)..(y + 1) : e(r) = IF r = scene.y THEN BRIGHT - DARK ELSE 0
  BY DEF Stain
<1>3. BinImage[y][x] = (sum \div 9 > ImageThreshold)
  BY FilteredAt
<1> HIDE DEF t, e
<1>4. y - 1 \in (y - 1)..(y + 1) /\ y \in (y - 1)..(y + 1) /\ y + 1 \in (y - 1)..(y + 1)
  BY <1>w
<1>5. e(y - 1) + e(y) + e(y + 1) <= BRIGHT - DARK /\ e(y - 1) \in Int /\ e(y) \in Int /\ e(y + 1) \in Int
  BY <1>2, <1>4, <1>w
<1>6. t(y - 1) \in Int /\ t(y) \in Int /\ t(y + 1) \in Int
  BY <1>1, <1>4
<1>7. ASSUME white PROVE BinImage[y][x]
  <2>1. /\ t(y - 1) >= 2 * BRIGHT + DARK - e(y - 1)
        /\ t(y) >= 2 * BRIGHT + DARK - e(y)
        /\ t(y + 1) >= 2 * BRIGHT + DARK - e(y + 1)
    BY <1>7, <1>1, <1>4
  <2>2. sum >= 5 * BRIGHT + 4 * DARK /\ sum \in Int
    BY <2>1, <1>5, <1>6, <1>w
  <2> HIDE DEF sum
  <2>3. sum \div 9 >= (5 * BRIGHT + 4 * DARK) \div 9 /\ sum \div 9 \in Int
    BY <2>2, <1>w
  <2>4. ImageThreshold < (5 * BRIGHT + 4 * DARK) \div 9 /\ ImageThreshold \in Int
    BY <1>w DEF Separates
  <2>5. (5 * BRIGHT + 4 * DARK) \div 9 \in Int
    BY <1>w
  <2>6. sum \div 9 > ImageThreshold
    BY <2>3, <2>4, <2>5
  <2> QED
    BY <2>6, <1>3
<1>8. ASSUME black PROVE ~BinImage[y][x]
  <2>1. /\ t(y - 1) <= 3 * DARK + e(y - 1)
        /\ t(y) <= 3 * DARK + e(y)
        /\ t(y + 1) <= 3 * DARK + e(y + 1)
    BY <1>8, <1>1, <1>4
  <2>2. sum <= 8 * DARK + BRIGHT /\ sum \in Int
    BY <2>1, <1>5, <1>6, <1>w
  <2> HIDE DEF sum
  <2>3. sum \div 9 <= (8 * DARK + BRIGHT) \div 9 /\ sum \div 9 \in Int
    BY <2>2, <1>w
  <2>4. ImageThreshold >= (8 * DARK + BRIGHT) \div 9 /\ ImageThreshold \in Int
    BY <1>w DEF Separates
  <2>5. (8 * DARK + BRIGHT) \div 9 \in Int
    BY <1>w
  <2>6. ~(sum \div 9 > ImageThreshold)
    BY <2>3, <2>4, <2>5
  <2> QED
    BY <2>6, <1>3
<1> QED
  BY <1>7, <1>8

\* The road in the rows above, at and below row i, by the first columns: what is
\* in all three rows, and what is in one of them.
LEMMA NearRows ==
  ASSUME NEW s \in Scene, NEW i \in Int, NEW x
  PROVE  LET near == {RoadAt(s, j) : j \in (i - 1)..(i + 1)}
             road == UNION near
             always == {c \in road : \A r \in near : c \in r}
         IN  /\ x \in road <=> \E j \in (i - 1)..(i + 1) : x \in RoadAt(s, j)
             /\ x \in always <=> \A j \in (i - 1)..(i + 1) : x \in RoadAt(s, j)
<1>1. i \in (i - 1)..(i + 1)
  OBVIOUS
<1> QED
  BY <1>1

\* Among three numbers that move by at most one, every number from one below the
\* least to the greatest is within one of one of them.
LEMMA CloseToOne ==
  ASSUME NEW a \in Int, NEW b \in Int, NEW c \in Int, b - a \in -1..1, c - b \in -1..1,
         NEW v \in Int
  PROVE  /\ (\E m \in {a, b, c} : m - 1 <= v) /\ (\E m \in {a, b, c} : v <= m)
              => \E m \in {a, b, c} : \E d \in -1..1 : v + d = m
         /\ (\E m \in {a, b, c} : m <= v) /\ (\E m \in {a, b, c} : v <= m + 1)
              => \E m \in {a, b, c} : \E d \in -1..1 : v + d = m
<1>1. (\E m \in {a, b, c} : v - m \in -1..1) => \E m \in {a, b, c} : \E d \in -1..1 : v + d = m
  <2> SUFFICES ASSUME NEW m \in {a, b, c}, v - m \in -1..1
               PROVE  \E d \in -1..1 : v + d = m
    OBVIOUS
  <2>1. m - v \in -1..1 /\ v + (m - v) = m
    OBVIOUS
  <2> QED
    BY <2>1
<1>2. (v - a \in -1..1 \/ v - b \in -1..1 \/ v - c \in -1..1)
      => \E m \in {a, b, c} : v - m \in -1..1
  OBVIOUS
<1>3. ASSUME a - 1 <= v \/ b - 1 <= v \/ c - 1 <= v, v <= a \/ v <= b \/ v <= c
      PROVE  v - a \in -1..1 \/ v - b \in -1..1 \/ v - c \in -1..1
  BY <1>3
<1>4. ASSUME a <= v \/ b <= v \/ c <= v, v <= a + 1 \/ v <= b + 1 \/ v <= c + 1
      PROVE  v - a \in -1..1 \/ v - b \in -1..1 \/ v - c \in -1..1
  BY <1>4
<1> QED
  BY <1>1, <1>2, <1>3, <1>4

\* The white run around a column, bounded by where the row is known to be white
\* and by a black column on either side of that.
LEMMA RunBetween ==
  ASSUME NEW row, NEW k \in 0..(W - 1), NEW lo \in Int, NEW hi \in Int,
         lo \in 0..k, hi \in k..(W - 1), \A j \in lo..hi : row[j],
         NEW p \in 0..(lo - 1), ~row[p], NEW q \in (hi + 1)..(W - 1), ~row[q]
  PROVE  LET run == Scan!RunEnds(row, k)
         IN  /\ run.left \in (p + 1)..lo
             /\ run.right \in hi..(q - 1)
<1> DEFINE A == {a \in 0..k : \A j \in a..k : row[j]}
           B == {b \in k..(W - 1) : \A j \in k..b : row[j]}
           a0 == Scan!Lowest(A)
           b0 == Scan!Highest(B)
<1>w. W \in Nat /\ k \in Int /\ W - 1 \in Int /\ 0 \in Int /\ p \in Int /\ q \in Int
  BY VisionAssumption
<1>1. Scan!RunEnds(row, k).left = a0 /\ Scan!RunEnds(row, k).right = b0
  BY DEF Scan!RunEnds
<1>2. lo \in A /\ hi \in B
  BY <1>w
<1>3. a0 \in A /\ \A y \in A : a0 <= y
  <2>1. A \subseteq Int /\ \A x \in A : 0 <= x
    BY <1>w
  <2> HIDE DEF A
  <2> QED
    BY <1>2, <2>1, <1>w, LowestIs
<1>4. b0 \in B /\ \A y \in B : y <= b0
  <2>1. B \subseteq Int /\ \A x \in B : x <= W - 1
    BY <1>w
  <2> HIDE DEF B
  <2> QED
    BY <1>2, <2>1, <1>w, HighestIs
<1> HIDE DEF a0, b0
<1>5. a0 <= lo /\ hi <= b0 /\ a0 \in Int /\ b0 \in Int
  BY <1>2, <1>3, <1>4
<1>6. ~(a0 <= p)
  <2> SUFFICES ASSUME a0 <= p PROVE FALSE
    OBVIOUS
  <2>1. p \in a0..k
    BY <1>5, <1>w
  <2> QED
    BY <2>1, <1>3
<1>7. ~(q <= b0)
  <2> SUFFICES ASSUME q <= b0 PROVE FALSE
    OBVIOUS
  <2>1. q \in k..b0
    BY <1>5, <1>w
  <2> QED
    BY <2>1, <1>4
<1> QED
  BY <1>1, <1>5, <1>6, <1>7, <1>w

\* In a row scanned from inside the road the white run is the road's, give or
\* take the column the filter blurs.
LEMMA PictureFinds ==
  ASSUME ScanInv, PictureInv, FilterIsMean, Separates
  PROVE  RoadFound
<1> SUFFICES ASSUME NEW i \in Scan!Scanned,
                    LET near == {RoadAt(scene, j) : j \in (i - 1)..(i + 1)}
                        road == UNION near
                        always == {x \in road : \A r \in near : x \in r}
                    IN  /\ done /\ scene.size = 1
                        /\ from[i] - 1 \in always /\ from[i] + 1 \in always
                        /\ road \subseteq 4..(W - 5)
             PROVE  /\ line[i].l /\ \E j \in (i - 1)..(i + 1) : \E d \in -1..1 :
                                      line[i].left + d = First(RoadAt(scene, j))
                    /\ line[i].r /\ \E j \in (i - 1)..(i + 1) : \E d \in -1..1 :
                                      line[i].right + d = Last(RoadAt(scene, j))
  BY DEF RoadFound
<1> DEFINE k == from[i]
           l(j) == LeftAt(scene, j)
           e == WIDTH - 1
           row == BinImage[i]
           new == line[i]
           run == Scan!RunEnds(row, k)
<1>w. /\ i \in Int /\ i \in 1..(H - 2) /\ W \in Int /\ H \in Int /\ e \in Nat /\ WIDTH = e + 1
      /\ k \in Int /\ k \in 0..(W - 1)
  <2>1. /\ FIRST \in Nat \ {0} /\ BOTTOM \in FIRST..(H - 2) /\ W \in Int /\ H \in Int
        /\ WIDTH \in Nat \ {0}
    BY VisionAssumption
  <2>2. done
    OBVIOUS
  <2>3. k \in 0..(W - 1)
    BY <2>2 DEF ScanInv
  <2> HIDE DEF k
  <2> QED
    BY <2>1, <2>3
<1>s. scene \in Scene
  BY DEF PictureInv
<1>1. \A j \in Int : l(j) \in Int /\ l(j + 1) - l(j) \in -1..1 /\ RoadAt(scene, j) = l(j)..(l(j) + e)
  BY <1>s, LeftMoves, RoadIs
<1>2. \A j \in Int : First(RoadAt(scene, j)) = l(j) /\ Last(RoadAt(scene, j)) = l(j) + e
  <2> TAKE j \in Int
  <2>1. l(j) \in Int /\ l(j) + e \in Int /\ l(j) <= l(j) + e
    BY <1>1, <1>w
  <2> QED
    BY <2>1, <1>1, IntervalEnds
<1>3. \A j \in (i - 1)..(i + 1) :
        /\ k - 1 \in RoadAt(scene, j) /\ k + 1 \in RoadAt(scene, j)
        /\ RoadAt(scene, j) \subseteq 4..(W - 5)
  BY <1>s, <1>w, NearRows
<1>4. \A j \in (i - 1)..(i + 1) :
        l(j) <= k - 1 /\ k + 1 <= l(j) + e /\ 4 <= l(j) /\ l(j) + e <= W - 5
  <2> TAKE j \in (i - 1)..(i + 1)
  <2>0. j \in Int
    BY <1>w
  <2>1. l(j) \in Int /\ RoadAt(scene, j) = l(j)..(l(j) + e)
    BY <2>0, <1>1
  <2> HIDE DEF l, e, k
  <2>2. l(j) \in l(j)..(l(j) + e) /\ l(j) + e \in l(j)..(l(j) + e)
    BY <2>1, <1>w
  <2>3. l(j) \in 4..(W - 5) /\ l(j) + e \in 4..(W - 5)
    BY <2>1, <2>2, <1>3
  <2>4. k - 1 \in l(j)..(l(j) + e) /\ k + 1 \in l(j)..(l(j) + e)
    BY <2>1, <1>3 DEF k
  <2> QED
    BY <2>1, <2>3, <2>4, <1>w
<1>5. l(i - 1) \in Int /\ l(i) \in Int /\ l(i + 1) \in Int
      /\ l(i) - l(i - 1) \in -1..1 /\ l(i + 1) - l(i) \in -1..1
  <2>1. i - 1 \in Int /\ (i - 1) + 1 = i
    BY <1>w
  <2>2. i \in Int /\ i + 1 \in Int
    BY <1>w
  <2> HIDE DEF l
  <2>3. \A j \in Int : l(j) \in Int /\ l(j + 1) - l(j) \in -1..1
    BY <1>1
  <2>4. l(i - 1) \in Int /\ l((i - 1) + 1) - l(i - 1) \in -1..1
    BY <2>1, <2>3
  <2>5. l(i) - l(i - 1) \in -1..1
    BY <2>1, <2>4
  <2> QED
    BY <2>2, <2>3, <2>4, <2>5
<1> HIDE DEF l, e, row, new, run
<1> DEFINE three == {l(i - 1), l(i), l(i + 1)}
<1>6. /\ i - 1 \in (i - 1)..(i + 1) /\ i \in (i - 1)..(i + 1) /\ i + 1 \in (i - 1)..(i + 1)
      /\ \A j \in (i - 1)..(i + 1) : l(j) \in three
      /\ three \subseteq Int
  BY <1>w, <1>5, \A j \in (i - 1)..(i + 1) : j = i - 1 \/ j = i \/ j = i + 1
<1>7. PICK lo \in three : \A m \in three : m <= lo
  BY <1>5
<1>8. PICK mn \in three : \A m \in three : mn <= m
  BY <1>5
<1>9. \A m \in three : m <= k - 1 /\ k + 1 <= m + e /\ 4 <= m /\ m + e <= W - 5
  BY <1>4, <1>6
<1>10. /\ lo \in Int /\ mn \in Int /\ mn <= lo
       /\ lo <= k - 1 /\ k + 1 <= mn + e /\ 4 <= mn /\ lo + e <= W - 5
  BY <1>5, <1>6, <1>7, <1>8, <1>9
<1>11. WIDTH >= 2
  BY <1>10, <1>w
<1>12. \A j \in (i - 1)..(i + 1) : l(j) \in Int /\ mn <= l(j) /\ l(j) <= lo
  BY <1>6, <1>7, <1>8
<1>13. ASSUME NEW x \in 1..(W - 2), lo <= x, x <= mn + e PROVE row[x]
  <2>1. \A j \in (i - 1)..(i + 1) : OnRoad(scene, j, x)
    BY <1>12, <1>13, <1>10, <1>w DEF OnRoad, l, e
  <2> QED
    BY <2>1, <1>11, <1>w, RoadIsWhite DEF row
<1>14. ASSUME NEW x \in 1..(W - 2), x + 1 < mn \/ x - 1 > lo + e PROVE ~row[x]
  <2>1. ASSUME NEW j \in (i - 1)..(i + 1)
        PROVE  x + 1 < l(j) \/ x - 1 > l(j) + e
    BY <1>12, <1>14, <1>10, <1>w
  <2>2. \A j \in (i - 1)..(i + 1) :
          x + 1 < LeftAt(scene, j) \/ x - 1 > LeftAt(scene, j) + WIDTH - 1
    <3> TAKE j \in (i - 1)..(i + 1)
    <3>1. l(j) + WIDTH - 1 = l(j) + e
      BY <1>12, <1>w
    <3> QED
      BY <3>1, <2>1 DEF l
  <2> QED
    BY <2>2, <1>11, <1>w, RoadIsWhite DEF row
<1>15. /\ run.left \in (mn - 1)..lo
       /\ run.right \in (mn + e)..(lo + e + 1)
  <2> DEFINE p == mn - 2
             q == lo + e + 2
  <2>1. /\ lo \in 0..k /\ mn + e \in k..(W - 1) /\ mn + e \in Int
        /\ p \in 0..(lo - 1) /\ q \in (mn + e + 1)..(W - 1)
        /\ p \in 1..(W - 2) /\ q \in 1..(W - 2) /\ p + 1 < mn /\ q - 1 > lo + e
        /\ p + 1 = mn - 1 /\ q - 1 = lo + e + 1
    BY <1>10, <1>w
  <2> HIDE DEF p, q
  <2>2. ~row[p] /\ ~row[q]
    BY <2>1, <1>14
  <2>3. \A x \in lo..(mn + e) : row[x]
    <3> TAKE x \in lo..(mn + e)
    <3>1. x \in 1..(W - 2) /\ lo <= x /\ x <= mn + e
      BY <1>10, <1>w
    <3> QED
      BY <3>1, <1>13
  <2> HIDE DEF k
  <2>4. run.left \in (p + 1)..lo /\ run.right \in (mn + e)..(q - 1)
    BY <2>1, <2>2, <2>3, <1>10, <1>w, RunBetween DEF run
  <2> QED
    BY <2>1, <2>4
<1>16. \A j \in (k - 1)..(k + 1) : j \in Scan!Column /\ row[j]
  <2> TAKE j \in (k - 1)..(k + 1)
  <2>1. j \in 1..(W - 2) /\ lo <= j /\ j <= mn + e
    BY <1>10, <1>w
  <2>2. row[j]
    BY <2>1, <1>13
  <2>3. j \in Scan!Column
    BY <2>1, <1>w
  <2> QED
    BY <2>2, <2>3
<1>17. /\ new.l = (run.left >= 2) /\ (new.l => new.left = run.left)
       /\ new.r = (run.right <= W - 3) /\ (new.r => new.right = run.right)
  <2>1. FindsOwnRoad
    BY ScanFinds
  <2> QED
    BY <2>1, <1>16 DEF FindsOwnRoad, Scan!FindsOwnRoad, row, run, new
<1>18. new.l /\ new.left = run.left /\ new.r /\ new.right = run.right
  <2>1. run.left >= 2 /\ run.right <= W - 3
    BY <1>15, <1>10, <1>w
  <2> QED
    BY <2>1, <1>17
<1>19. \E m \in three : \E d \in -1..1 : new.left + d = m
  <2>1. (\E m \in three : m - 1 <= run.left) /\ (\E m \in three : run.left <= m)
    BY <1>7, <1>8, <1>15
  <2>2. run.left \in Int
    BY <1>15, <1>10
  <2> QED
    BY <2>1, <2>2, <1>5, <1>18, CloseToOne
<1>20. \E m \in three : \E d \in -1..1 : new.right + d = m + e
  <2> DEFINE v == run.right - e
  <2>1. v \in Int /\ run.right \in Int /\ mn <= v /\ v <= lo + 1
    BY <1>15, <1>10, <1>w
  <2> HIDE DEF v
  <2>2. (\E m \in three : m <= v) /\ (\E m \in three : v <= m + 1)
    BY <2>1, <1>7, <1>8
  <2>3. PICK m \in three, d \in -1..1 : v + d = m
    BY <2>2, <2>1, <1>5, CloseToOne
  <2>4. run.right + d = m + e
    BY <2>1, <2>3, <1>6, <1>w DEF v
  <2> QED
    BY <2>4, <1>18
<1>21. \A m \in three : \E j \in (i - 1)..(i + 1) : m = First(RoadAt(scene, j))
                                                   /\ m + e = Last(RoadAt(scene, j))
  <2> TAKE m \in three
  <2>1. PICK j \in (i - 1)..(i + 1) : m = l(j)
    BY <1>6
  <2> QED
    BY <2>1, <1>2, <1>w DEF l, e
<1>22. \E j \in (i - 1)..(i + 1) : \E d \in -1..1 : new.left + d = First(RoadAt(scene, j))
  BY <1>19, <1>21
<1>23. \E j \in (i - 1)..(i + 1) : \E d \in -1..1 : new.right + d = Last(RoadAt(scene, j))
  BY <1>20, <1>21
<1> QED
  BY <1>18, <1>22, <1>23 DEF new

\* A single wrong pixel neither hides the road nor moves it, from the camera to
\* the borders (gray_mean_filter, gray_to_binary, findline1), for images, roads
\* and greys of any size, with any threshold that tells one bright pixel of nine
\* from five.
THEOREM RoadIsFound == Spec => [](Separates => RoadFound)
<1>1. Init => PictureInv /\ FilterInv
  BY DEF Init, Scan!Init, PictureInv, FilterInv
<1>2. ScanInv /\ PictureInv /\ FilterIsMean => (Separates => RoadFound)
  BY PictureFinds
<1> QED
  BY <1>1, <1>2, ScanStartsInside, FilterCorrect, PictureStep, PTL DEF Spec
=============================================================================
