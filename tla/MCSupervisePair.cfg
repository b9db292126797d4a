CONSTANTS
    b = b
    f = f
    c1 = c1
    p1 = p1
    p2 = p2
    p3 = p3
    None = None
    Keys <- Pair
    Peer <- PairPeer
    Row <- OwnRow
    Containered = {}
    Procs = {p1, p2, p3}
    Callers = {c1}
    Tasks <- Fork
SPECIFICATION PairSpec
INVARIANT FrontendAfterBackend
PROPERTIES
    CallAnswered
    StopReturns
