SPECIFICATION Spec
CONSTANTS
    Reads = {r1}
    Writes = {w1, w2}
    Fds = {fd1}
    Paths = {p1}
    SecondWrite = w2
    SecondPath = p2
    None = None
INVARIANT
    WriteToClosedSaysSo
