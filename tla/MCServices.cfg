CONSTANTS
    Addr = {a1}
    Readers = {r1}
    PersistWorkers = {w1}
    PersistQueueSize = 1
    Builds = 1
    Sweeps = 1
    Mishaps = 1
    NoAddr = NoAddr

    InitWorkers = {v1, v2}
    Requests = {q1}
    Losses = 1
    Reboots = 1

    Endpoints = {e1}
    Instances = {i1, i2}
    Policies = {y1, y2}
    Unset = Unset
    Hits = 1
    Restarts = 1
    Refusals = 1
    PolicySets = 2
    NoWorker = NoWorker

    m1 = m1
    m2 = m2
    k1 = k1
    k2 = k2
    Workers = {m1, m2}
    Autoscaled = {m1}
    Keys = {k1, k2}
    Weight <- MCWeight
    TopScore = 2
    MaxWarm <- MCMaxWarm
    MinWarm = 1
    Changes = 1

    c1 = c1
    c2 = c2
    Branches = {main, topic}
    Commits = {c1, c2}
    History <- MCHistory
    First = c1
    Watched = {main}
    Gone = Gone
    NoPass = NoPass
    Pushes = 2
    Settings = 2
    Meddlings = 1

    Repos = {1, 2}
    Deleters = {d1}
    Outages = 1
    CloneFaults = 1
    NoMirror = NoMirror

    Tabs = {t1, t2}
    NoTab = NoTab
    OnyxBefore = "host"
    Visits = 2
    Expiries = 1

    Pages = {g1}
    NoRoute = NoRoute
    Faults = 3

    Hops = 2
    Inputs = 1
    Outputs = 1

    OutsideCalls = 1

    LogNodes = {n1, n2}
    TailBytes = 1
    ChunkBytes = 1
    LogStarts = 2
    LogBytes = 3
    LogFaults = 1

    NetworkIds = 3
    DaemonFaults = 2

    x1 = x1
    Exchanges = {x1, x2}
    Compressors = {z1, z2}
    SmallBelow = 2
    KindsOf <- MCKinds
    BodyUnits <- MCBodyUnits

    DeployIds = 3
    PageSize = 1
    Processes = {p1}
    RowChanges = 2

    b1 = b1
    f1 = f1
    WarmKeys = {b1, f1}
    NoPeer = NoPeer
    Peer <- MCPeer
    WarmPolicies <- MCWarmPolicies

SPECIFICATION ServicesSpec
INVARIANTS
    PartsConsistent
    WholeUnlessTorn
    MirrorFollowsRow
    StatusIsTheCommands
    ServedAsDeclared
    FollowedInOrder
    
    WireIsTheResponse
    WindowOnlyShifts
PROPERTIES
    ImplementsArtifactLife
    BlindStartsEnd
    CloneEnds
    HitTotalsCount
    PolicyReachesWorkers
    OnlyAffectedKeysMove
    TipsGetDeployed
    VisitorArrives
    SessionEnds
    BurstIsPruned
CHECK_DEADLOCK FALSE
