CONSTANTS
    be1 = be1
    dl1 = dl1
    None = None
    Deploys = {1, 2}
    Side <- Shared
    Download <- NoDownload
    Fragile = {}
    Workers = {w1}
    Callers = {c1}
    Cleaners = {"poll", "sweep", "delete"}
    WorkCap = 1
    Asks = 2
    Rounds = 3
    Lives = 1
SPECIFICATION ListedFirst
INVARIANT GarbageIsCollected
CHECK_DEADLOCK FALSE
