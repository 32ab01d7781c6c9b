\* Two threads, two captures of the same player and skin.
SPECIFICATION Spec
CONSTANTS
    c1 = c1
    c2 = c2
    c3 = c3
    Workers = {w1, w2}
    Captures = {c1, c2, c3}
    BaseName <- CollidingNames
    SaveModes = {2}
    OldPng <- NoName
    OldJson <- NoName
    Foreign = Foreign
    MaxCount = 6
    DiskMayFail = FALSE
    MaxCrashes = 0
INVARIANTS SavedIsOnDisk
