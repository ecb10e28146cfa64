SPECIFICATION PeerSpec
CONSTANTS
    h = h
    f = f
    Peers = {h, f}
    Honest = {h}
    Order <- MCOrder
    Earliest <- MCEarliest
    Start = 1
    Scenarios <- MCScenarios
    Lag = 1
    FallBehind = 1
    RangeSize = 3
    GapSize = 2
    StrikeLimit = 4
    ForkOnlyLimit = 2
    RetryLimit = 2
    QueueLimit = 2
    MaxInbox = 1
INVARIANTS PeerTypeOK LiveHasSocket
PROPERTIES CatchesUp CatchupEnds GapFillEnds
CHECK_DEADLOCK FALSE
