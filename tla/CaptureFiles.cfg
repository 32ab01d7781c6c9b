\* One thread that skips, overwrites or numbers, over older files, with colliding
\* names, few numbers, two kills, and system calls that may fail.
SPECIFICATION Spec
CONSTANTS
    c1 = c1
    c2 = c2
    c3 = c3
    Workers = {w1}
    Captures = {c1, c2, c3}
    BaseName <- CollidingNames
    SaveModes = {0, 1, 2}
    OldPng <- FirstName
    OldJson <- SecondName
    Foreign = Foreign
    MaxCount = 2
    DiskMayFail = TRUE
    MaxCrashes = 2
INVARIANTS SavedIsOnDisk PairFromOneCapture NumberingIsDense TornOnlyWhenInterrupted
PROPERTIES OldFilesKept ImplementsLog SavesReturn
