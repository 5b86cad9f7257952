---------------------------- MODULE ImageProcess ----------------------------
(***************************************************************************)
(* From the camera's grey image to the binary one (imageProcess.c): the     *)
(* 3 x 3 mean filter, the mean threshold and the binarisation, once per     *)
(* frame (the first half of Frame in Vision).                               *)
(* An image is the memory it lies in: the pixel in row y and column x is at *)
(* y * W + x, and what lies after the array is read by the filter too.      *)
(***************************************************************************)
EXTENDS Integers

CONSTANTS W, H     \* 160, 120: img_width and img_height

Pixel == 0..(W * H - 1)
\* The memory the two loops reach, the W + 1 bytes after the image included.
Memory == 0..(W * H + W)

Row(a) == a \div W
Column(a) == a % W

VARIABLES
  memory,          \* mt9v03x_csi_image and what lies behind it
  FilterImage,
  BinImage,        \* by rows: is the pixel white?
  ImageThreshold,
  done             \* history: has the frame been processed?

Blank == [a \in Pixel |-> 0]
Black == [y \in 0..(H - 1) |-> [x \in 0..(W - 1) |-> FALSE]]
Dark == [a \in Memory |-> 0]

\* The sum of the pixels of an image.
Total(img) == LET sum[a \in -1..(W * H - 1)] == IF a < 0 THEN 0 ELSE sum[a - 1] + img[a]
              IN  sum[W * H - 1]

----------------------------------------------------------------------------
(* The filter.                                                              *)

\* The first loop: the mean of the nine pixels around a.
Smooth(mem, a) ==
  LET three(b) == mem[b - 1] + mem[b] + mem[b + 1]
  IN  (three(a - W) + three(a) + three(a + W)) \div 9

\* Fault variant: the last column keeps what the first loop left there.
Edge_left(a) == Row(a) \in {0, H - 1} \/ Column(a) = 0

\* The pixels the two loops over the edges overwrite with the original ones.
Edge(a) == Row(a) \in {0, H - 1} \/ Column(a) \in {0, W - 1}

\* The first loop leaves row 0 and column 0 alone.
gray_mean_filter(mem) ==
  [a \in Pixel |-> IF Edge(a) THEN mem[a]
                   ELSE IF Row(a) >= 1 /\ Column(a) >= 1 THEN Smooth(mem, a)
                   ELSE FilterImage[a]]

----------------------------------------------------------------------------
(* The threshold of mode 1, the one main() passes.                          *)

mean_threshold(img) == (((Total(img) \div W) \div H) * 7) \div 10 + 10

\* White, 255, or black, 0, for every pixel.
gray_to_binary(img, threshold) ==
  [y \in 0..(H - 1) |-> [x \in 0..(W - 1) |-> img[y * W + x] > threshold]]

\* Fault variant: the camera's image is binarised, not the filtered one.
Process_raw(mem) ==
  /\ memory' = mem
  /\ FilterImage' = gray_mean_filter(memory')
  /\ ImageThreshold' = mean_threshold(FilterImage')
  /\ BinImage' = gray_to_binary(memory', ImageThreshold')

\* A frame; what lies behind the image in memory is anything.
Process(mem) ==
  /\ memory' = mem
  /\ FilterImage' = gray_mean_filter(memory')
  /\ ImageThreshold' = mean_threshold(FilterImage')
  /\ BinImage' = gray_to_binary(FilterImage', ImageThreshold')

\* Between two frames: every pixel is written again before it is read.
Rest ==
  /\ memory' = Dark
  /\ FilterImage' = Blank /\ BinImage' = Black /\ ImageThreshold' = 0

----------------------------------------------------------------------------
(* Properties.                                                              *)

\* The first loop runs to the last row and column and reads up to W + 1 bytes
\* past the image: nothing of it survives.  Inside, a pixel is the mean of the
\* 3 x 3 window, on the edge it is the original.
FilterIsMean ==
  \A y \in 0..(H - 1), x \in 0..(W - 1) :
    LET grey(v, u) == memory[(y + v) * W + x + u]
        row(v) == grey(v, -1) + grey(v, 0) + grey(v, 1)
    IN  done => FilterImage[y * W + x] =
                  IF y \in 1..(H - 2) /\ x \in 1..(W - 2)
                  THEN (row(-1) + row(0) + row(1)) \div 9
                  ELSE grey(0, 0)
=============================================================================
