\* The same commands: is the directory of the control sockets always removed?
CONSTANTS
    i1 = i1
    i2 = i2
    Items <- MCItems
    Values <- MCValues
    Fact = Fact
    NoPlan = NoPlan
    Invocations <- MCInvocations
    Hosts <- MCHosts
    MaxOthers = 2
SPECIFICATION Spec
INVARIANT ControlDirectoryRemoved
