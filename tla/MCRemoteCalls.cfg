\* Two workers and the renewer, three ssh processes each.
CONSTANTS
    w1 = w1
    w2 = w2
    renewer = renewer
    Workers <- MCWorkers
    Renewer = renewer
    NoCaller = NoCaller
    MaxCalls = 3
    MaxNext = 2
SPECIFICATION CallSpec
INVARIANTS FirstAuthAlone OnlyWhatWasAsked
PROPERTY UnattendedCallsEnd
CHECK_DEADLOCK FALSE
