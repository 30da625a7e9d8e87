\* One message of a client and one of the Hub, two runtimes, one event.
SPECIFICATION FairSpec
CONSTANTS
    a = a
    b = b
    Messages <- MCMessages
    Passive <- OnlyB
    Mode <- OneMode
    MaxRetries = 1
    Runtimes = 2
    MaxEvents = 1
CHECK_DEADLOCK FALSE
INVARIANTS
    TypeOK
    RunsFollowTheLog
    QueueFollowsLog
    WaitingIsHeld
    NothingSleeps
    IdleIsTimed
PROPERTIES WaitingSettles
