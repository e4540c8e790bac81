SPECIFICATION Spec
CONSTANTS
    Reads = {r1, r2}
    Writes = {w1, w2}
    Fds = {fd1, fd2}
    Paths = {p1, p2}
    SecondWrite = w2
    SecondPath = p2
    None = None
ACTION_CONSTRAINT TwoWritesOrReads
INVARIANTS
    TypeOK
    ReadLockHeld
    OneDescriptor
    WatchOwned
    WaitsWatched
    NoForeignRead
PROPERTY
    ImplementsTransport
