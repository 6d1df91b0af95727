----------------------------- MODULE LeaseLock -----------------------------
(***************************************************************************)
(* What the lock of one host promises its callers (the interfaces Lock and *)
(* renewableLockLease of the engine), whatever files, scripts and clocks   *)
(* it is made of: an attempt tries at most once, holds only while nobody   *)
(* else does, and when it stops holding -- released, lost or dead -- it    *)
(* never holds again.                                                      *)
(***************************************************************************)
CONSTANT Attempt

VARIABLE phase

Phases == {"out", "trying", "holding", "released"}

Init == phase = [a \in Attempt |-> "out"]

Try(a) ==
    /\ phase[a] = "out"
    /\ phase' = [phase EXCEPT ![a] = "trying"]

Acquire(a) ==
    /\ phase[a] = "trying"
    /\ \A b \in Attempt : phase[b] # "holding"
    /\ phase' = [phase EXCEPT ![a] = "holding"]

Release(a) ==
    /\ phase[a] \in {"trying", "holding"}
    /\ phase' = [phase EXCEPT ![a] = "released"]

Next == \E a \in Attempt : Try(a) \/ Acquire(a) \/ Release(a)

Spec == Init /\ [][Next]_phase
=============================================================================
