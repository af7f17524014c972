SPECIFICATION Spec
CONSTANTS
    plain = plain
    edited = edited
    Drafts <- TwoDrafts
    MaxText <- SomeTexts
    MaxTasks = 1
    Imap = FALSE
INVARIANTS
    SendIsKept
