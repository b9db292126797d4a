CONSTANTS
    Repos = {1, 2}
    Deleters = {d1}
    Outages = 1
    CloneFaults = 1
    NoMirror = NoMirror

SPECIFICATION CloneJobsSpec
PROPERTY ShutdownIsNoFailure
CHECK_DEADLOCK FALSE
