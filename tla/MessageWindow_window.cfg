SPECIFICATION FairSpec
CONSTANTS
    Messages = {m1}
    m1 = m1
    MaxRows = 2
    PageSize = 1
    MaxEvents = 2
CHECK_DEADLOCK FALSE
INVARIANTS
    TypeOK
    CaughtUp
    QueueIsCurrent
    ShownOnce
    SendsEnd
    BannerFollowsSocket
PROPERTIES
    RowsArrive
