\* One receive loop for two peers, every kind of datagram, four of them, and for one peer,
\* five of them; and two tasks at once, with logins of two protocols, disconnects and new
\* handshakes, three of them.
SPECIFICATION FairSpec
CONSTANTS
    p1 = p1
    p2 = p2
    t1 = t1
    t2 = t2
    Peers = {p1, p2}
    Tasks = {t1, t2}
    NoTask = NoTask
    Protocols = {422, 475, 2225, 65958}
    Unread = Unread
    Known = {422, 475, 2225}
    ConfigProtocol = 2225
    Callers <- SomeCallers
INVARIANTS TypeOK LoginEndsLife CompressedOnlyAfterSettings VersionPairsAgree
PROPERTIES LivesStartAtHandshake CapturedSessionEnds CallsReturn
CHECK_DEADLOCK FALSE
