\* Two jobs and one slot, one crash, no failing database call: every job settles.
CONSTANTS
    Jobs = {j1, j2}
    NoTask = NoTask
    MaxConcurrency = 1
    Units = 2
    MaxCrashes = 1
    MaxFaults = 0
SPECIFICATION FairSpec
CHECK_DEADLOCK FALSE
PROPERTIES
    Implements
