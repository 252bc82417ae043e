SPECIFICATION FairSpec
CONSTANTS
    Last = 3
    Settings <- MCSettings
    Cap = 2
    QueueCap = 1
    MaxCrashes = 1
INVARIANTS WorkAnswered NothingLost OffersInOrder
PROPERTIES InboxDrains
CHECK_DEADLOCK FALSE
