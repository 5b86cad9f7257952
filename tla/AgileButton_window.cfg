SPECIFICATION Spec
CONSTANTS
  TICK_MAX = 11
  REPEAT_MAX = 2
  INTERVAL = 5
  ELIM_MIN = 2
  ELIM_MAX = 2
  CYCLE_MIN = 3
  CYCLE_MAX = 3
  POLL = 1
  GAP = 1
  CALLBACK = 0
  RECONFIGURE = FALSE
  CLOCK_MAX = 10
PROPERTIES
  RepeatWindow
