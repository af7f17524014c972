SPECIFICATION AllFairSpec
CONSTANTS
    NItems = 2
    RoomOf <- OneRoom
    MaxLost = 2
    MaxDevices = 2
    NChanges = 3
    MaxAttempts = 2
    MaxExternal = 1
    MaxFaults = 1
    MaxLists = 5
    MaxListChanges = 2
    MaxListAttempts = 2
    MaxListFaults = 2
    MaxTaskEdits = 1
    Mail = {1, 2}
    MaxTroubles = 2
    MaxWishes = 2
    NEntries = 2
    MaxRestores = 2
    MaxAccidents = 2
    DavNItems = 2
    NFirst = 1
    MaxText = 1
    MaxForeign = 1
    MaxMishaps = 1
    Disturbed = {}
INVARIANTS
    RoomIsRight
    QueueIsSound
    ListsAreRight
    SidesAgree
    ProfileIsWhole
    CollectionIsSound
PROPERTIES
    ChatMoves
    TaskChangesMove
    ListChangesInTime
    DownloadedOnce
    RestoreSettles
    CollectionMeets
CHECK_DEADLOCK FALSE
