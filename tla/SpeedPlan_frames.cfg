SPECIFICATION Spec
CONSTANT s_zhi = 20
CONSTANT s_max = 22
CONSTANT s_wan1 = 17
CONSTANT s_wan2 = 15
CONSTANT s_cross = 21
CONSTANT s_huan = 10
CONSTANT SHORT_CUT = 7
CONSTANT CURVE_CUT = 3
CONSTANT SHORT_DIV = 2
CONSTANT CURVE_DIV = 2
CONSTANT ERR_MAX = 3
CONSTANT HIST = 5
CONSTANT SEEN_FROM = 1
CONSTANT SEEN_TO = 2
CONSTANT SHORT_FROM = 2
CONSTANT SHORT_TO = 3
CONSTANT CURVE_FROM = 4
CONSTANT CURVE_TO = 5
CONSTANT SPILL = TRUE
INVARIANT SpeedInRange
INVARIANT CutAfterStraight
PROPERTY SlowerWhenWorse
