CONSTANTS
    be1 = be1
    dl1 = dl1
    None = None
    Deploys = {1}
    Side <- Shared
    Download <- OneDownload
    Fragile = {dl1}
    Workers = {w1, w2}
    Callers = {c1}
    Cleaners = {}
    WorkCap = 1
    Asks = 2
    Rounds = 0
    Lives = 2
SPECIFICATION Spec
PROPERTY BuildsResolve
CHECK_DEADLOCK FALSE
