\* An apt source file over three edits of its declaration, nothing failing.
CONSTANTS
    Undeclared = Undeclared
    NoRecord = NoRecord
    NoOriginal = NoOriginal
    Kinds = {"apt_source_file"}
    MaxEdits = 3
    MaxDrift = 0
    MaxFaults = 0
SPECIFICATION Spec
INVARIANT RestoreHonoured
