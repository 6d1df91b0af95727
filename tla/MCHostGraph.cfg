\* Every host of at most three declarations of the pool is validated and
\* compiled; nine hosts are planned with every set of changes and run with
\* at most two failures.
CONSTANTS
    Hosts <- MCHosts
    RunHosts <- MCRunHosts
    MaxFailures = 2
SPECIFICATION Spec
INVARIANTS AcceptedCompiles ClaimedOnce OrderedForUse
