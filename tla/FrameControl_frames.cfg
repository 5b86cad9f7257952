SPECIFICATION Spec
CONSTANT LAST = 3
CONSTANT MID = 2
CONSTANT HALF_WIDTH = 2
CONSTANT ERR_MAX = 2
CONSTANT ERR_STEP = 1
CONSTANT WINDOW = 4
CONSTANT NEED = 2
CONSTANT Speed = {2}
CONSTANT DEAD = 1
CONSTANT DIFF_P = 0
CONSTANT Gains = {1, 3}
CONSTANT Slopes = {1}
CONSTANT IntegralGains = {0, 1}
CONSTANT DerivativeGains = {0}
CONSTANT START_KP = 2
CONSTANT START_J = 0
CONSTANT START_MAX = 2
CONSTANT START_KI = 0
CONSTANT START_KD = 1
CONSTANT OUT_MAX = 4
CONSTANT WINDUP = 2
CONSTANT ANGLE_MAX = 4
CONSTANT HALF = 1
CONSTANT ASK_MAX = 0
INVARIANT StopLine
INVARIANT GainCapped
INVARIANT WindupYields
