\* Every kind over two edits of its declaration, one change by others and one
\* call cut off or record lost.
CONSTANTS
    Undeclared = Undeclared
    NoRecord = NoRecord
    NoOriginal = NoOriginal
    Kinds <- AllKinds
    MaxEdits = 2
    MaxDrift = 1
    MaxFaults = 1
SPECIFICATION Spec
INVARIANT AppliedIsDeclared
PROPERTIES RestoresOriginal DiagnosticHonest LeavesTheRest ArchiveReplacedWhole
