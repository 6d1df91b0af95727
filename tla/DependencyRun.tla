--------------------------- MODULE DependencyRun ---------------------------
(***************************************************************************)
(* What executing a plan promises, whatever the waves, goroutines,         *)
(* semaphores and state files below it: every item runs after everything   *)
(* it depends on has succeeded, or not at all, and every item is settled   *)
(* in the end.                                                             *)
(***************************************************************************)
CONSTANTS Item, DependsOn

VARIABLE status

Settled == {"ok", "failed", "blocked"}
Statuses == {"waiting", "running"} \cup Settled

Init == status = [i \in Item |-> "waiting"]

\* Item i may go from its status to s.
MayBecome(i, s) ==
    \/ /\ status[i] = "waiting" /\ s = "running"
       /\ \A d \in DependsOn[i] : status[d] = "ok"
    \/ /\ status[i] = "waiting" /\ s = "blocked"
       /\ \E d \in DependsOn[i] : status[d] \in {"failed", "blocked"}
    \/ status[i] = "running" /\ s \in {"ok", "failed"}

\* Any number of items move at once.
Next ==
    /\ status' \in [Item -> Statuses]
    /\ \A i \in Item : status'[i] # status[i] => MayBecome(i, status'[i])

Safety == Init /\ [][Next]_status

Liveness == <>(\A i \in Item : status[i] \in Settled)

Spec == Safety /\ Liveness
=============================================================================
