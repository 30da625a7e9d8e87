\* One unit of time is one second: the constants are the ones of the code.
SPECIFICATION FairSpec
CONSTANTS
    PersistInterval = 10
    InactiveTimeout = 30
    KeepAliveInterval = 10
    MaxDelay = 2
PROPERTIES CrashedSessionExpires
