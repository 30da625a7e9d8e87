SPECIFICATION Spec
CONSTANTS
    Drivers = {claude}
    Tokens = {t1}
    NoToken = NoToken
    Runtimes = {r1, r2}
    NoRuntime = NoRuntime
    Commands = {"resume", "start"}
    Ops = {o1, o2}
    Fallback <- NoFallback
    MaxRestarts = 0
PROPERTIES BootKeepsHandles
