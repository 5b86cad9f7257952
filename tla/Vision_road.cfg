SPECIFICATION Spec
CONSTANT W = 15
CONSTANT H = 5
CONSTANT MID = 7
CONSTANT FIRST = 1
CONSTANT BOTTOM = 3
CONSTANT NEAR = 2
CONSTANT FAR = 2
CONSTANT TOP_TO = 1
CONSTANT TOP_FROM = 3
CONSTANT EDGE_TO = 1
CONSTANT LOW = 6
CONSTANT HIGH = 8
CONSTANT AHEAD = {1}
CONSTANT DARK = 40
CONSTANT BRIGHT = 200
CONSTANT LEFT = {4, 5, 6, 7}
CONSTANT WIDTH = 4
CONSTANT PATCH = 3
INVARIANT FilterIsMean
INVARIANT FindsOwnRoad
INVARIANT RoadFound
