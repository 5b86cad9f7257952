SPECIFICATION FairSpec
CONSTANT Speed = {1}
CONSTANT Error = {0}
CONSTANT DIFF_P = 1
CONSTANT Unset = 1
CONSTANT MAX_OUT = 2
CONSTANT MOTOR_MAX = 1
INVARIANT TypeOK
INVARIANT NoNullWheel
INVARIANT TargetsPaired
INVARIANT ChannelsExclusive
PROPERTY SwitchStopsMotors
PROPERTY TargetsReachWheels
