\* Two tasks, a message in two fragments and one that is not reliable; the
\* session is dropped once at any moment, time passes, messages are sent again
\* and expire.
SPECIFICATION Spec
CONSTANTS
    m1 = m1  m2 = m2  m3 = m3
    Senders = {t1, t2}
    Messages = {m1, m3}
    NoMessage = NoMessage
    Shape <- SplitAndLoose
    FrameSize = 3
    WireMod = 4
    WindowInit = 8
    ThresholdInit = 12
    WindowFloor = 2
    RtoInit = 1
    RtoMin = 1
    RtoMax = 2
    RttGain = 2
    MaxAttempts = 2
    TTL = 2
    AgeCap = 3
    NoRtt = NoRtt
    MaxDrops = 1
    MaxAges = TRUE
SYMMETRY SenderSymmetry
INVARIANTS FlowWithinLimits NoSilentLoss RetriesBounded InFlightCoversPending NumbersAreUnique
CHECK_DEADLOCK FALSE
