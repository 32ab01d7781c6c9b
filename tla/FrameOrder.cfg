\* Two messages of one ordered channel on a network that reorders.
SPECIFICATION Spec
CONSTANTS
    Cases <- TwoOrdered
    Unordered = Unordered
    IndexMod = 8
    SplitIds = {0, 1}
    MaxParts = 2
    TTL = 1
    MaxFrames = 2
    MaxLog = 3
    MaxTicks = 0
INVARIANTS DispatchedInOrder
CHECK_DEADLOCK FALSE
