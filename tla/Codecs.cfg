\* Frame sets, batches, Logins and skin sizes at the limits of their encodings, cut anywhere.
SPECIFICATION Spec
CONSTANTS
    FrameSets <- MCFrameSets
    Batches <- MCBatches
    Logins <- MCLogins
    Skins <- MCSkins
INVARIANTS FrameSetReadBack BatchPrefixRead LoginReadBack SkinTaken
CHECK_DEADLOCK FALSE
