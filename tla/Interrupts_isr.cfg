SPECIFICATION Spec
INVARIANT InterruptContextKnown
