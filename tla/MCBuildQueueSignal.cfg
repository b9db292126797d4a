CONSTANTS
    be1 = be1
    dl1 = dl1
    None = None
    Deploys = {1}
    Side <- Shared
    Download <- NoDownload
    Fragile = {}
    Workers = {w1}
    Callers = {c1}
    Cleaners = {}
    WorkCap = 1
    Asks = 1
    Rounds = 0
    Lives = 2
SPECIFICATION Spec
INVARIANT InterruptedIsNotFailed
CHECK_DEADLOCK FALSE
