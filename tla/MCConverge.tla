----------------------------- MODULE MCConverge -----------------------------
(* A unit, a file that two addresses declare and a directory that two      *)
(* addresses declare.                                                      *)
EXTENDS Converge

CONSTANTS unit, file1, file2, dir1, dir2, pu, pf, pd

MCKindOf ==
    [a \in Resource |-> CASE a = unit -> "unit"
                          [] a \in {file1, file2} -> "file"
                          [] a \in {dir1, dir2} -> "directory"]
MCPathOf ==
    [a \in Resource |-> CASE a = unit -> pu
                          [] a \in {file1, file2} -> pf
                          [] a \in {dir1, dir2} -> pd]

Budget(scope, edits, drift, faults) ==
    [scope |-> scope, edits |-> edits, drift |-> drift, faults |-> faults]

Disturbed == {Budget({unit}, 3, 2, 2), Budget({dir1, dir2}, 3, 0, 0)}
Handoff   == {Budget({file1, file2}, 2, 0, 0)}
OneFile   == {Budget({file1}, 3, 0, 0)}
OneUnit   == {Budget({unit}, 1, 0, 1)}
=============================================================================
