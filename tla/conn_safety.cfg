SPECIFICATION Spec
CONSTANTS
    Readers = {r1, r2}
    Keepalives = {k1, k2}
    Inits = {i1, i2}
    Loops = {l1, l2}
    Starter = Starter
    NoTask = NoTask
    Env <- AnyEnv
SYMMETRY Slots
INVARIANTS
    TypeOK
    ConnectedMeansOpen
    ConnectedMeansServed
    OneReconnectLoop
    ClosedIsQuiet
    LifecycleInv
PROPERTY
    FreshDescriptor
