SPECIFICATION BackupSpec
CONSTANTS
    NJobs = 1
    NRecipients = 2
    DailyCap <- MCCapOne
    Gap = 1
    Day = 1
    BackoffBase = 1
    BackoffMax = 1
    MaxResends = 1
INVARIANTS
    TypeOK
    AtMostOnce
    ReportsAreTrue
PROPERTIES
    ReviewStopsMerge
    SpacedUnlessNudged
    KeepsPermits
