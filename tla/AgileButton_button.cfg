SPECIFICATION Spec
CONSTANTS
  TICK_MAX = 10
  REPEAT_MAX = 2
  INTERVAL = 2
  ELIM_MIN = 1
  ELIM_MAX = 2
  CYCLE_MIN = 2
  CYCLE_MAX = 2
  POLL = 1
  GAP = 2
  CALLBACK = 1
  RECONFIGURE = TRUE
  CLOCK_MAX = 7
INVARIANT ListedOnce
INVARIANT PressReported
INVARIANT RepeatForgotten
PROPERTY Protocol
PROPERTY Debounced
PROPERTY HoldPeriod
