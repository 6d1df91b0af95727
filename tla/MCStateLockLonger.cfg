\* The safety of the same lock over a longer time.
CONSTANTS
    a1 = a1
    a2 = a2
    Attempt = {a1, a2}
    Pausable = {}
    LeaseTTL = 4
    RenewInterval = 1
    RenewTimeout = 1
    RecoveryGrace = 4
    LockTimeout = 5
    LegacyClients = TRUE
    MaxTime = 7
    MaxPowerLoss = 1
SPECIFICATION Spec
SYMMETRY AttemptSymmetry
INVARIANTS MutualExclusion LegacyExclusion Recoverable
PROPERTIES NoResurrection ImplementsLeaseLock
CHECK_DEADLOCK FALSE
