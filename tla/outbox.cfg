SPECIFICATION FairSpec
CONSTANTS
    p1 = p1 p2 = p2
    MaxEvents = 3
    Requests = {p1, p2}
    Limit = 2
    MaxCrashes = 1
INVARIANTS
    TypeOK
    LaterRequestReturnsNews
    EveryEventIsAccountedFor
PROPERTIES
    ImplementsFeed
    EveryRecordIsDelivered
