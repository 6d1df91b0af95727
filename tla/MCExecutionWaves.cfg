\* All small graphs and plans.
CONSTANTS
    n1 = n1
    n2 = n2
    n3 = n3
    op1 = op1
    op2 = op2
    x1 = x1
    x2 = x2
    x3 = x3
    Node = {n1, n2, n3}
    Op = {op1, op2}
    Orphan = {x1, x2, x3}
    Inputs <- MCInputs
SPECIFICATION Spec
INVARIANTS CompleteAndTight DependencyOrder
CHECK_DEADLOCK FALSE
