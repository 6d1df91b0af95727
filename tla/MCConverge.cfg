\* A unit with or without a change action over three edits, two changes by others
\* and two faults, or a directory that two addresses declare in turn.
CONSTANTS
    unit = unit
    file1 = file1
    file2 = file2
    dir1 = dir1
    dir2 = dir2
    pu = pu
    pf = pf
    pd = pd
    Resource = {unit, dir1, dir2}
    KindOf <- MCKindOf
    Path = {pu, pd}
    PathOf <- MCPathOf
    Version = {v1, v2}
    Hooks = {"none", "action"}
    Missing = Missing
    Undeclared = Undeclared
    NoRecord = NoRecord
    Incomplete = Incomplete
    Budgets <- Disturbed
SPECIFICATION Spec
INVARIANTS Converged ActionNotForgotten
PROPERTY RemovesOnlyItsOwn
CHECK_DEADLOCK FALSE
