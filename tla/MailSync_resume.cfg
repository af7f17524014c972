SPECIFICATION FairSpec
CONSTANTS
    NMail = 3
    NFirst = 2
    MaxChanges = 2
    MaxBreaks = 2
    Disturbed = {"break"}
INVARIANTS
    CheckpointCovers
CHECK_DEADLOCK FALSE
