SPECIFICATION AllFairSpec
CONSTANTS
    NMail = 3
    NFirst = 2
    MaxChanges = 2
    MaxBreaks = 1
    Disturbed = {}
    NNew = 1
    NotesNFirst = 1
    NAddress = 2
    MaxText = 3
    NotesMaxBreaks = 1
    NotesDisturbed = {}
    WatchMail = {"copy", "answer", "aside"}
    Known = {"header"}
    MaxRow = 2
    ScanBatch = 1
    WatchMaxBreaks = 1
    WatchDisturbed = {}
    NDevices = 2
    Slow = {}
    MaxEdits = 2
    MaxMishaps = 1
    MaxEvents = 2
    SettingsDisturbed = {}
INVARIANTS
    SyncIsSound
    EditsKept
    SettingsKept
PROPERTIES
    CacheFollows
    ServerIsKept
    NotesSettle
    ExpiresUnanswered
    WatchesEnd
    DevicesAgree
CHECK_DEADLOCK FALSE
