SPECIFICATION Spec
CONSTANTS
    NItems = 2
    NFirst = 1
    MaxText = 1
    MaxForeign = 1
    MaxMishaps = 1
    Disturbed = {}
PROPERTIES
    ConflictsAreNew
CHECK_DEADLOCK FALSE
