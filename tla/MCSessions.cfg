\* Two tabs of one browser.
CONSTANTS
    t1 = t1
    t2 = t2
    Tabs = {t1, t2}
    Tokens = {1, 2, 3, 4, 5, 6, 7, 8, 9, 10}
    MaxCalls = 4
    MaxFaults = 1
SPECIFICATION FairSpec
INVARIANTS
    TypeOK
    CommittedOnce
    OnlyRacedCallsRefused
PROPERTIES
    EndedForGood
    CallsEnd
CHECK_DEADLOCK FALSE
