CONSTANTS
    be1 = be1
    dl1 = dl1
    None = None
    Deploys = {1, 2}
    Side <- Shared
    Download <- NoDownload
    Fragile = {}
    Workers = {w1}
    Callers = {c1}
    Cleaners = {"poll"}
    WorkCap = 2
    Asks = 2
    Rounds = 1
    Lives = 1
SPECIFICATION Spec
INVARIANT ReadyIsProvisioned
CHECK_DEADLOCK FALSE
