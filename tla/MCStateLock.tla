---------------------------- MODULE MCStateLock ----------------------------
(* The state lock on small instances: two Lock() calls on one host.       *)
EXTENDS StateLock, TLC

AttemptSymmetry == Permutations(Attempt)
=============================================================================
