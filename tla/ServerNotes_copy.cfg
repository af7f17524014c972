SPECIFICATION FairSpec
CONSTANTS
    NNew = 1
    NFirst = 0
    NAddress = 2
    MaxText = 1
    MaxBreaks = 1
    Disturbed = {"twin"}
INVARIANTS
    OneCopy
CHECK_DEADLOCK FALSE
