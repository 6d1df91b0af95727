\* prevent_destroy is added to a file and later the declaration is removed.
CONSTANTS
    unit = unit
    file1 = file1
    file2 = file2
    dir1 = dir1
    dir2 = dir2
    pu = pu
    pf = pf
    pd = pd
    Resource = {file1}
    KindOf <- MCKindOf
    Path = {pf}
    PathOf <- MCPathOf
    Version = {v1, v2}
    Hooks = {"none"}
    Missing = Missing
    Undeclared = Undeclared
    NoRecord = NoRecord
    Incomplete = Incomplete
    Budgets <- OneFile
SPECIFICATION Spec
PROPERTY ProtectionHolds
CHECK_DEADLOCK FALSE
