\* One run locks three hosts with one, two or three workers, and its work may
\* never end.
CONSTANTS
    h1 = h1
    h2 = h2
    h3 = h3
    r1 = r1
    Run = {r1}
    Host = {h1, h2, h3}
    Order <- AllHosts
    Parallels = {1, 2, 3}
SPECIFICATION LiveSpec
INVARIANTS AllOrNothing LeasesAccountedFor
PROPERTIES LockingEnds LostLeaseEndsRun
CHECK_DEADLOCK FALSE
