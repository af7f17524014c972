SPECIFICATION AllFairSpec
CONSTANTS
    Messages <- TwoMessages
    NOps = 2
    MaxAttempts = 2
    ThreadKinds <- UserKinds
    MessageKinds <- DuplicateKinds
INVARIANTS
    ReportsAreReal
    RequestsAreWanted
    GivenUpIsTakenBack
PROPERTIES
    ChangesSettle
    DailyCapHolds
    MergesMove
    OutboxMoves
CHECK_DEADLOCK FALSE
