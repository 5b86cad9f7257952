SPECIFICATION Spec
INVARIANT CurveRecorded
