CONSTANTS
    be1 = be1
    dl1 = dl1
    None = None
    Deploys = {1, 2}
    Side <- Shared
    Download <- OneDownload
    Fragile = {be1}
    Workers = {w1, w2}
    Callers = {c1}
    Cleaners = {}
    WorkCap = 1
    Asks = 3
    Rounds = 0
    Lives = 2
SPECIFICATION Spec
INVARIANTS
    TypeOK InFlightHeld OutcomeIsRight ReadyIsProvisioned ReadyHasFiles
PROPERTIES
    ImplementsDeployLife
SYMMETRY Alike
CHECK_DEADLOCK FALSE
