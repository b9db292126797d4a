CONSTANTS
    b = b
    f = f
    c1 = c1
    p1 = p1
    p2 = p2
    p3 = p3
    None = None
    Keys <- OneKey
    Peer <- AlonePeer
    Row <- OwnRow
    Containered = {b}
    Procs = {p1, p2}
    Callers = {c1}
    Tasks <- ForkAndShutdown
SPECIFICATION Spec
INVARIANTS
    TypeOK OneChildPerKey QuiescedCopy LiveChildTracked TrackedHasOutcome
    FailureSubject NoRivalOfEarlierLife
PROPERTIES StopLeavesNothing ImplementsKeyLife
SYMMETRY AnyProc
