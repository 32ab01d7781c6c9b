\* Two sessions saving at once, the first over an older image.
SPECIFICATION ServiceSpec
CONSTANTS
    s1 = s1
    s2 = s2
    Sessions = {s1, s2}
    Batches <- SomeBatches
    MaxSends = 1
    LinkFails = FALSE
    BaseName <- Names
    SaveModes = {0, 2}
    OldPng <- FirstName
    OldJson <- NoName
    Foreign = Foreign
    MaxCount = 2
    DiskMayFail = FALSE
    MaxCrashes = 0
INVARIANTS ToldWhenSettled
PROPERTIES LoginBecomesFile ImplementsSessions
CHECK_DEADLOCK FALSE
