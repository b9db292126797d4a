CONSTANTS
    b = b
    f = f
    c1 = c1
    p1 = p1
    p2 = p2
    p3 = p3
    None = None
    Keys <- OneKey
    Peer <- AlonePeer
    Row <- OwnRow
    Containered = {}
    Procs = {p1, p2}
    Callers = {c1}
    Tasks <- Shutdown
SPECIFICATION Spec
INVARIANT NoChildOutlivesShutdown
SYMMETRY AnyProc
