SPECIFICATION Spec
INVARIANT ThreadContextKnown
