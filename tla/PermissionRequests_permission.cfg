SPECIFICATION FairSpec
CONSTANTS
    Requests = {q1, q2}
    Runtimes = 2
    MaxClicks = 1
    MaxEvents = 1
CHECK_DEADLOCK FALSE
INVARIANTS
    TypeOK
    CopiesAreVersioned
    ShownIsPending
    WaitingIsPending
    ToldOnce
PROPERTIES
    OneBook
    UpdatesLand
