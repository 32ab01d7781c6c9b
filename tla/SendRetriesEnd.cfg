\* One task sends two messages, to a peer that may never answer.
SPECIFICATION Spec
CONSTANTS
    m1 = m1  m2 = m2  m3 = m3
    Senders = {t1}
    Messages = {m1, m2}
    NoMessage = NoMessage
    Shape <- TwoSingle
    FrameSize = 3
    WireMod = 2
    WindowInit = 8
    ThresholdInit = 12
    WindowFloor = 2
    RtoInit = 1
    RtoMin = 1
    RtoMax = 2
    RttGain = 2
    MaxAttempts = 2
    TTL = 2
    AgeCap = 3
    NoRtt = NoRtt
    MaxDrops = 0
    MaxAges = TRUE
PROPERTIES RetriesEnd
CHECK_DEADLOCK FALSE
