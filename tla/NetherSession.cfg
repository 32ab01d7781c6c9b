\* One session whose client sends up to three batches, in or out of turn.
SPECIFICATION Spec
CONSTANTS
    Sessions = {s1}
    Batches <- SomeBatches
    MaxSends = 3
    LinkFails = TRUE
INVARIANTS ConformingClientIsHeard ClientCanDecode BundleIsLast
PROPERTIES LoginEndsSession AbandonedSessionEnds
CHECK_DEADLOCK FALSE
