\* Two threads, two names and two payloads.
CONSTANTS
    w1 = w1
    w2 = w2
    n1 = n1
    n2 = n2
    p1 = p1
    p2 = p2
    None = None
    Workers = {w1, w2}
    Names = {n1, n2}
    Payloads = {p1, p2}
    MaxRequests = 4
    MaxCrashes = 1
    MaxFaults = 1
SYMMETRY Symmetries
SPECIFICATION Spec
INVARIANTS
    TypeOK
    SnapshotsMatch
    NoSilentDuplicates
    OnlyDeletionsRaise
    TrailTellsTrue
PROPERTIES
    Implements
CHECK_DEADLOCK FALSE
