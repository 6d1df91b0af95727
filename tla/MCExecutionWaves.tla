-------------------------- MODULE MCExecutionWaves --------------------------
(* Every validated graph of a few nodes and operations, with every plan.   *)
EXTENDS ExecutionWaves, TLC

CONSTANTS n1, n2, n3, op1, op2

\* A set of dependencies is free of cycles iff every nonempty set of addresses
\* has a member without a dependency inside the set (the reference definition
\* of what validateAcyclic accepts).
Acyclic(deps) ==
    \A S \in SUBSET (DOMAIN deps) \ {{}} : \E x \in S : deps[x] \cap S = {}

\* Up to renaming, a node depends only on nodes that come before it; an
\* operation depends on the nodes it follows.
ThreeNodeGraphs ==
    {g \in {n1 :> a @@ n2 :> b @@ n3 :> c @@ op1 :> d :
              a \in SUBSET {op1}, b \in SUBSET {n1, op1},
              c \in SUBSET {n1, n2, op1}, d \in SUBSET Node \ {{}}} : Acyclic(g)}

TwoOperationGraphs ==
    {g \in {n1 :> a @@ n2 :> b @@ op1 :> c @@ op2 :> d \cup e :
              a \in SUBSET Op, b \in SUBSET {n1, op1, op2},
              c \in SUBSET {n1, n2} \ {{}}, d \in SUBSET {n1, n2},
              e \in SUBSET {op1}} : Acyclic(g) /\ g[op2] # {}}

\* The input made of a graph on part of the addresses; the rest is inert.
\* An operation is triggered by the nodes of trig it depends on or, when it
\* depends on operations only, by what triggers those (nftables.activate).
\* Only component scripts have the mode "each", and nothing depends on them.
TriggersIn(g, o) ==
    IF g[o] \cap Node # {} THEN g[o] \cap Node ELSE UNION {g[p] \cap Node : p \in g[o]}

InputOf(g, trig, each, act, prior) ==
    [nodeDeps    |-> [n \in Node |-> IF n \in DOMAIN g THEN g[n] ELSE {}],
     opDeps      |-> [o \in Op |-> IF o \in DOMAIN g THEN g[o] ELSE {}],
     triggeredBy |-> [o \in Op |-> IF o \in DOMAIN g THEN trig \cap TriggersIn(g, o) ELSE {}],
     each        |-> each \ UNION {g[x] : x \in DOMAIN g},
     action      |-> [n \in Node |-> IF n \in DOMAIN act THEN act[n] ELSE "no-op"],
     priorDeps   |-> prior]

NoPrior == [o \in Orphan |-> {}]

\* Three nodes and an operation that all or some of its dependencies trigger.
ThreeNodeInputs ==
    {InputOf(g, t, e, a, NoPrior) :
        g \in ThreeNodeGraphs, t \in {Node, Node \ {n1}}, e \in SUBSET {op1},
        a \in [Node -> {"no-op", "update", "delete"}]}

\* Two nodes and two operations, one of which may depend on the other.
TwoOperationInputs ==
    {InputOf(g, Node, e, a, NoPrior) :
        g \in TwoOperationGraphs, e \in SUBSET Op, a \in [{n1, n2} -> Actions]}

\* Orphans with every acyclic set of recorded dependencies.
OrphanInputs ==
    {InputOf(<<>>, {}, {}, a, d) :
        a \in [{n1} -> Actions],
        d \in {f \in [Orphan -> SUBSET Orphan] : Acyclic(f)}}

MCInputs == ThreeNodeInputs \cup TwoOperationInputs \cup OrphanInputs
=============================================================================
