\* A run whose writes may succeed without an answer, at once or later.
CONSTANTS
    h1 = h1
    h2 = h2
    orphan = orphan
    file = file
    unit = unit
    package = package
    output = output
    script = script
    restart = restart
    adopted = adopted
    gone = gone
    reload = reload
    Item <- MCItem
    Address <- MCItem
    Host = {h1, h2}
    HostOf <- MCHostOf
    Action <- MCAction
    DependsOn <- MCDependsOn
    WaveOf <- MCWaveOf
    LastWave = 4
    Safe <- MCSafe
    NodeDeps <- MCNodeDeps
    Outputs <- MCOutputs
    Completes <- MCCompletes
    Prior <- MCPrior
    Parallel = 3
    PerHost = 2
    MaxLate = 1
SPECIFICATION LiveSpec
INVARIANTS UnsafeRunsAlone NoLostUpdate SuccessIsComplete
PROPERTIES RunSafety RunLiveness
CHECK_DEADLOCK FALSE
