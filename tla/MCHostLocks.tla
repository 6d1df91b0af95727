---------------------------- MODULE MCHostLocks ----------------------------
(* Runs that share hosts, which the program lists in sorted order.         *)
EXTENDS HostLocks, TLC

CONSTANTS h1, h2, h3

BothHosts == [r \in Run |-> <<h1, h2>>]
AllHosts == [r \in Run |-> <<h1, h2, h3>>]
RunSymmetry == Permutations(Run)
=============================================================================
