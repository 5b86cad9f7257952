CONSTANTS
  FRAME = 3
  LATENCY = 7
  FILTER = 4
  SEM_MAX = 3
SPECIFICATION FairSpec
INVARIANT NoTornFrame
INVARIANT CaptureNeverStarves
PROPERTY DoubleBuffered
PROPERTY FreshFrame
PROPERTY PublishesFinishedBuffer
PROPERTY KeepsProcessing
