\* Every set of at most two moves over every state, two runs, and
\* one change of the file between a plan and its preparation.
CONSTANTS
    a = a
    b = b
    c = c
    x = x
    y = y
    z = z
    Component = {a, b, c}
    HostScope = HostScope
    NoComponent = NoComponent
    Suffix = {x, y, z}
    Address <- MCAddress
    Deps <- MCDeps
    Declarations <- MCDeclarations
    MaxRuns = 2
    MaxForeign = 1
SPECIFICATION Spec
INVARIANTS ResolvedDirectly MoveOnlyIsNoOp RetryIsSafe
PROPERTY ApprovedMovesOnly
CHECK_DEADLOCK FALSE
