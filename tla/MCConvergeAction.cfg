\* A unit with a change action, nobody but dbf, and one failure.
CONSTANTS
    unit = unit
    file1 = file1
    file2 = file2
    dir1 = dir1
    dir2 = dir2
    pu = pu
    pf = pf
    pd = pd
    Resource = {unit}
    KindOf <- MCKindOf
    Path = {pu}
    PathOf <- MCPathOf
    Version = {v1, v2}
    Hooks = {"action"}
    Missing = Missing
    Undeclared = Undeclared
    NoRecord = NoRecord
    Incomplete = Incomplete
    Budgets <- OneUnit
SPECIFICATION Spec
PROPERTY CompletedAfterRun
CHECK_DEADLOCK FALSE
