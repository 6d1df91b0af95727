\* Two runs lock the same two hosts with one or two workers each.
CONSTANTS
    h1 = h1
    h2 = h2
    h3 = h3
    r1 = r1
    r2 = r2
    Run = {r1, r2}
    Host = {h1, h2}
    Order <- BothHosts
    Parallels = {1, 2}
SPECIFICATION Spec
SYMMETRY RunSymmetry
INVARIANTS TypeOK AllOrNothing LeasesAccountedFor NoWaitCycle
CHECK_DEADLOCK FALSE
