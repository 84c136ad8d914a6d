\* One session, strategies on separate feeds, two crashes, one transient fault,
\* one thread serving stop requests.
CONSTANTS
    Sessions = {s1}
    s1 = s1
    f1 = f1
    f2 = f2
    Feeds = {f1, f2}
    StrategyOrder <- MCOrder
    Subs <- Apart
    BrokenFeeds = {}
    Stoppers = {r1}
    None = None
    MaxClock = 4
    MaxCrashes = 2
    MaxFaults = 1
SPECIFICATION FairSpec
INVARIANTS
    TypeOK
PROPERTIES
    StoppedForGood
    Implements
    CatchesUp
