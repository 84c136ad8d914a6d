CONSTANTS
    Workers = {job}
    Backtests = {job}
    Ranges <- OneRange
    PageLimit = 2
    MaxAttempts = 1
    MaxClock = 1
    MaxRequests = 1
    MaxGlitches = 0
    MaxDeletes = 0
SPECIFICATION Spec
INVARIANTS ClosedCandlesOnly
