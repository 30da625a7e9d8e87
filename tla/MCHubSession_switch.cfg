SPECIFICATION FairSpec
CONSTANTS
    Drivers = {claude, pi}
    Tokens = {t1}
    NoToken = NoToken
    Runtimes = {r1}
    NoRuntime = NoRuntime
    Commands = {"switch", "send", "close"}
    Ops = {o1}
    Fallback <- AllContinuity
    MaxRestarts = 1
INVARIANTS CacheIsCoherent
PROPERTIES PresenceNeverRevivesHistory BootSettlesDrift CommandsEnd
