SPECIFICATION Spec
CONSTANTS
    Drivers = {claude}
    Tokens = {t1}
    NoToken = NoToken
    Runtimes = {r1}
    NoRuntime = NoRuntime
    Commands = {"close", "resume"}
    Ops = {o1}
    Fallback <- NoFallback
    MaxRestarts = 0
INVARIANTS NoActiveHistory
