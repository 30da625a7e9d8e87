SPECIFICATION Spec
CONSTANTS
    Drivers = {claude}
    Tokens = {t1}
    NoToken = NoToken
    Runtimes = {r1, r2}
    NoRuntime = NoRuntime
    Commands = {"close", "archive", "unarchive", "resume", "start", "abort", "send"}
    Ops = {o1, o2}
    Fallback <- AllContinuity
    MaxRestarts = 0
SYMMETRY Symmetry
INVARIANTS TypeOK CacheIsCoherent IdleSessionIsNeverRunning
PROPERTIES PresenceNeverRevivesHistory TokenIsHeld TokenComesBack
