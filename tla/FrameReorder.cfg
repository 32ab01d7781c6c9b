\* Split and ordered messages, a goodbye, indexes and split ids that come round,
\* any datagrams of up to two frames, and time for the queues to expire; and a
\* mixture of messages over a network that keeps order.
SPECIFICATION Spec
CONSTANTS
    Cases <- AllCases
    Unordered = Unordered
    IndexMod = 3
    SplitIds = {0, 1}
    MaxParts = 3
    TTL = 1
    MaxFrames = 2
    MaxLog = 3
    MaxTicks = 2
INVARIANTS QueuesInOrder ReassemblyIntact InOrderWithinLife AckedIsAccounted
PROPERTIES ImplementsFifo
CHECK_DEADLOCK FALSE
