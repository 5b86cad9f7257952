SPECIFICATION Spec
CONSTANT N = 2
CONSTANT MUTEX = FALSE
CONSTANT WAIT_START = 2
CONSTANT WAIT_END = 3
CONSTANT WAIT_MAX = 6
CONSTANT LOW = 1
CONSTANT SEM_MAX = 9
CONSTANT LATE = 0
CONSTANT E_PULSE = 2
CONSTANT E_GAP = 3
CONSTANT B_PULSE = 1
CONSTANT B_GAP = 1
CONSTANT COUNTS = {1, 2}
CONSTANT PROGRAMS = {{"burst"}, {"endless"}, {"stop", "init", "deinit"}}
CONSTANT USED = {2}
INVARIANT CorrectionPending
INVARIANT DaemonServesSlots
INVARIANT WakesInTime
PROPERTY FlashLength
PROPERTY ErrorLedBlinks
PROPERTY BeepFallsSilent
