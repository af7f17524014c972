SPECIFICATION Spec
CONSTANTS
    NMessages = 1
    NJobs = 1
    Batch = 1
    MaxAttempts = 1
    MaxForeign = 1
    Removal = "trash"
    Forbidden = {}
PROPERTIES
    CancelKeepsServerCopy
