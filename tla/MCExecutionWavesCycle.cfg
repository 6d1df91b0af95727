\* Can every plan for a validated graph be scheduled?
CONSTANTS
    n1 = n1
    n2 = n2
    n3 = n3
    op1 = op1
    op2 = op2
    Node = {n1, n2, n3}
    Op = {op1, op2}
    Orphan = {}
    Inputs <- ThreeNodeInputs
SPECIFICATION Spec
INVARIANT ValidatedGraphSchedules
CHECK_DEADLOCK FALSE
