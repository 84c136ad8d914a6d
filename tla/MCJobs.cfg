\* Three jobs compete for two slots; one crash and one failing database call.
CONSTANTS
    Jobs = {j1, j2, j3}
    NoTask = NoTask
    MaxConcurrency = 2
    Units = 2
    MaxCrashes = 1
    MaxFaults = 1
SPECIFICATION Spec
SYMMETRY JobSymmetry
CHECK_DEADLOCK FALSE
INVARIANTS
    TypeOK
    SlotsConserved
    ResultsAreWhole
    TransitionsAccepted
    NoOrphans
    CancelStopsWork
PROPERTIES
    SettledRowsFrozen
