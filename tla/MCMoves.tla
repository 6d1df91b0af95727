------------------------------ MODULE MCMoves ------------------------------
(* All records of three components with two resources each, one of which   *)
(* depends on the other, one of them also on another component's, and a    *)
(* resource of the host that depends on all; all pairs of moves, and a     *)
(* cycle of three.                                                         *)
EXTENDS Moves, TLC

CONSTANTS a, b, c, x, y, z

MCAddress == ({a, b, c} \X {x, y}) \cup {<<HostScope, z>>}
MCDeps ==
    [p \in MCAddress |->
        CASE p[1] = HostScope -> {<<a, x>>, <<b, y>>, <<c, x>>}
          [] p = <<c, x>> -> {<<c, y>>, <<a, y>>}
          [] p[2] = x -> {<<p[1], y>>}
          [] OTHER -> {}]
MCDeclarations ==
    {D \in SUBSET Declaration : Cardinality(D) =< 2}
      \cup {{[from |-> a, to |-> b], [from |-> b, to |-> c], [from |-> c, to |-> a]}}
=============================================================================
