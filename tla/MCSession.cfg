\* Two items, three values, two changes by others.
CONSTANTS
    i1 = i1
    i2 = i2
    Items <- MCItems
    Values <- MCValues
    Fact = Fact
    NoPlan = NoPlan
    Invocations <- MCInvocations
    Hosts <- MCHosts
    MaxOthers = 2
SPECIFICATION Spec
INVARIANTS HighestSourceWins LastWordTrue ReadsNoTornHost
PROPERTIES ExecutedWasApproved CommandEnds
