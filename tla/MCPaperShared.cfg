\* Two strategies of s1 share feed f1; f2, which s2 follows, is no longer
\* served; two threads serve stop requests.
CONSTANTS
    s1 = s1
    f1 = f1
    f2 = f2
    Sessions = {s1, s2}
    Feeds = {f1, f2}
    StrategyOrder <- MCOrder
    Subs <- Mixed
    BrokenFeeds = {f2}
    Stoppers = {r1, r2}
    None = None
    MaxClock = 2
    MaxCrashes = 1
    MaxFaults = 1
SPECIFICATION Spec
INVARIANTS
    EachCandleOnce
    LossBounded
