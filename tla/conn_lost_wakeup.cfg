SPECIFICATION FairSpec
CONSTANTS
    Readers = {r1, r2}
    Keepalives = {k1, k2}
    Inits = {i1}
    Loops = {l1}
    Starter = Starter
    NoTask = NoTask
    Env <- BadReportEnv
PROPERTY Recovers
