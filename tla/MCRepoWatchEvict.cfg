CONSTANTS
    c1 = c1
    c2 = c2
    Branches = {main, topic}
    Commits = {c1, c2}
    History <- TwoCommits
    First = c1
    Watched = {main}
    Gone = Gone
    NoPass = NoPass
    Pushes = 2
    Settings = 1
    Meddlings = 1
SPECIFICATION RepoWatchSpec
PROPERTY LiveCommitIsKept
CHECK_DEADLOCK FALSE
