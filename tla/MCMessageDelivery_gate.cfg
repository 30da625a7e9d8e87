\* No kill: a runtime that is asked to exit has announced it.
SPECIFICATION Spec
CONSTANTS
    a = a
    b = b
    Messages <- MCMessages
    Passive = {}
    Mode <- OneMode
    MaxRetries = 0
    Runtimes = 1
    MaxEvents = 0
CHECK_DEADLOCK FALSE
PROPERTIES SendsWaitForTheRuntime
