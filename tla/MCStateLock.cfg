\* Two Lock() calls on one host that an old client shares, with one power loss,
\* under the fairness of the scripts, timers and clients.
CONSTANTS
    a1 = a1
    a2 = a2
    Attempt = {a1, a2}
    Pausable = {}
    LeaseTTL = 4
    RenewInterval = 1
    RenewTimeout = 1
    RecoveryGrace = 4
    LockTimeout = 4
    LegacyClients = TRUE
    MaxTime = 5
    MaxPowerLoss = 1
SPECIFICATION LiveSpec
INVARIANTS MutualExclusion LegacyExclusion Recoverable
PROPERTIES NoResurrection ImplementsLeaseLock CallsEnd
CHECK_DEADLOCK FALSE
