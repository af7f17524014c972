SPECIFICATION FairSpec
CONSTANTS
    NMessages = 2
    NJobs = 1
    Batch = 2
    MaxAttempts = 2
    MaxForeign = 1
    Removal = "trash"
    Forbidden = {}
INVARIANTS
    KeptAndShown
    RemovalTracked
    ReportsHold
PROPERTIES
    RunsEnd
