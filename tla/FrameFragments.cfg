\* A fragment in front of another frame of its datagram.
SPECIFICATION Spec
CONSTANTS
    FrameSets <- Followed
    Batches = {}
    Logins = {}
    Skins = {}
INVARIANTS AllFramesReturned
CHECK_DEADLOCK FALSE
