\* Under the same bounds: the debugger after a retry.
CONSTANTS
    w1 = w1
    w2 = w2
    renewer = renewer
    Workers <- MCWorkers
    Renewer = renewer
    NoCaller = NoCaller
    MaxCalls = 3
    MaxNext = 2
SPECIFICATION CallSpec
PROPERTY PausesAfterRetry
CHECK_DEADLOCK FALSE
