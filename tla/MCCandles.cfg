CONSTANTS
    Workers = {api, job}
    Backtests = {job}
    Ranges <- AllRanges
    PageLimit = 2
    MaxAttempts = 2
    MaxClock = 2
    MaxRequests = 3
    MaxGlitches = 1
    MaxDeletes = 1
SPECIFICATION Spec
INVARIANTS TypeOK ValidMeansComplete AnswersFit RunsSeeWholeRange CorrectAnswersLeaveNoGaps
PROPERTY NoLostConflict
