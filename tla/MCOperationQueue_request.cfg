SPECIFICATION Spec
CONSTANTS
    Messages <- TwoMessages
    NOps = 2
    MaxAttempts = 1
    ThreadKinds <- NoKinds
    MessageKinds <- FilingKinds
PROPERTIES
    RequestIsTheChange
