SPECIFICATION FairSpec
INVARIANT RingFlagsAgree
INVARIANT NoCrossInRing
INVARIANT OnePhase
INVARIANT ExitFillWins
PROPERTY RingEndsAtExit
PROPERTY RingIsLeft
