SPECIFICATION Spec
CONSTANTS
    MaxEvents = 3
    MaxExpired = 1
    MaxCrashes = 1
    MaxQueue = 2
    EventCountLimit = 2
    Switchable = TRUE
CHECK_DEADLOCK FALSE
INVARIANTS
    TypeOK
    WithinLimit
    InOrder
    NothingLost
PROPERTY
    EventsSettle
