--------------------------- MODULE ExecutionWaves ---------------------------
(***************************************************************************)
(* How apply orders the work of a plan (executionWaves in                  *)
(* internal/core/engine/engine.go and scheduleWavesWithAliases in          *)
(* internal/core/graph/schedule.go).                                       *)
(*                                                                         *)
(* The inputs are a validated resource graph -- nodes and operations with  *)
(* their static DependsOn -- and what the plan decided: an action per node *)
(* and the orphans of the state with the dependencies their records keep.  *)
(* The program derives from them which addresses run and what each waits   *)
(* for, and then emits waves as in Kahn's algorithm, for the graph and for *)
(* the orphans.  The orphans' waves are executed first.  One step of this  *)
(* specification is one wave.                                              *)
(*                                                                         *)
(* An operation whose script mode is "each" runs once per changed trigger, *)
(* under the address <<op, trigger>>.                                      *)
(***************************************************************************)
EXTENDS Integers, FiniteSets, Sequences

CONSTANTS
    Node,     \* addresses of the graph's nodes
    Op,       \* addresses of its operations
    Orphan,   \* addresses that only the state knows
    Inputs    \* the inputs considered: records with the fields
              \*   nodeDeps, opDeps, triggeredBy, action, priorDeps and
              \*   each, the operations with script mode "each"

Actions == {"no-op", "create", "update", "delete", "adopt"}

Input ==
    [nodeDeps:    [Node -> SUBSET (Node \cup Op)],
     opDeps:      [Op -> SUBSET (Node \cup Op)],
     triggeredBy: [Op -> SUBSET Node],
     each:        SUBSET Op,
     action:      [Node -> Actions],
     priorDeps:   [Orphan -> SUBSET Orphan]]

ASSUME InputsAssumption == Inputs \subseteq Input

\* Configurations and states are finite, an address names one thing, and what
\* the graph knows is no orphan.
ASSUME AddressAssumption ==
    /\ IsFiniteSet(Node) /\ IsFiniteSet(Op) /\ IsFiniteSet(Orphan)
    /\ Node \cap Op = {} /\ Orphan \cap (Node \cup Op) = {}
    /\ (Op \X Node) \cap (Node \cup Op \cup Orphan) = {}

\* What compilation guarantees: an operation depends on what triggers it, or on
\* an operation, no script of mode "each", that does and is triggered by it too
\* (nftables.activate, networkd.reconfigure).
ASSUME TriggersAssumption ==
    \A i \in Inputs : \A op \in Op : \A t \in i.triggeredBy[op] :
        \/ t \in i.opDeps[op]
        \/ \E p \in (i.opDeps[op] \cap Op) \ i.each : t \in i.triggeredBy[p] \cap i.opDeps[p]

VARIABLES
    in,         \* the input
    stage,      \* "graph", then "orphan", then "done"; or "error"
    indegree,   \* of each item of the stage, the waits not emitted yet
    ready,      \* the items of the stage that form the next wave
    waves       \* the waves emitted in each stage

vars == <<in, stage, indegree, ready, waves>>

-----------------------------------------------------------------------------
(* What the plan makes active.                                             *)

\* Plan leaves no-ops out of its steps.
Active == {n \in Node : in.action[n] # "no-op"}

\* triggersOperation
Changed == {n \in Node : in.action[n] \in {"create", "update", "delete"}}

\* destroysResource
Destroys(n) == in.action[n] = "delete"

\* operationSteps: which triggers of an operation changed, and the addresses
\* the operation runs under.
Triggered(op) == in.triggeredBy[op] \cap Changed
ActiveOps == {op \in Op \ in.each : Triggered(op) # {}}
Aliases == UNION {{<<op, t>> : t \in Triggered(op)} : op \in in.each}

GraphItems == Active \cup ActiveOps \cup Aliases

\* activeDependenciesWithAliases: of static dependencies, the active ones; an
\* operation that runs once per trigger counts with all its addresses.
ActiveDeps(deps) ==
    (deps \cap (Active \cup ActiveOps))
      \cup {x \in Aliases : x[1] \in deps}

\* Mutant: nodes that are destroyed keep their place.
NodeWaitsUnreversed(n) ==
    (in.nodeDeps[n] \cap Active)
      \cup (IF Destroys(n) THEN {} ELSE in.nodeDeps[n] \cap ActiveOps)

\* activeDependencyOverrides: a node waits for the dependencies that are
\* applied and for the operations it names; one that is destroyed waits for
\* the nodes that depend on it instead.
NodeWaits(n) ==
    {d \in in.nodeDeps[n] \cap Active : ~Destroys(d)}
      \cup {m \in Active : n \in in.nodeDeps[m] /\ Destroys(n)}
      \cup (IF Destroys(n) THEN {} ELSE in.nodeDeps[n] \cap ActiveOps)

\* operationForTriggers: an address <<op, t>> waits for its own trigger and
\* for what the operation depends on besides its triggers.
AliasWaits(x) ==
    ActiveDeps({x[2]} \cup (in.opDeps[x[1]] \ in.triggeredBy[x[1]]))

Waits(x) ==
    CASE x \in Active    -> NodeWaits(x)
      [] x \in ActiveOps -> ActiveDeps(in.opDeps[x])
      [] x \in Aliases   -> AliasWaits(x)

\* orphanExecutionWaves: an orphan waits for the orphans whose records depend
\* on it ...
OrphanWaits(o) == {p \in Orphan : o \in in.priorDeps[p]}

\* ... but the items it makes carry no dependsOn.
DependsOn(x) == IF x \in Orphan THEN {} ELSE Waits(x)

-----------------------------------------------------------------------------
(* Kahn's algorithm.                                                       *)

StageItems(s) == IF s = "orphan" THEN Orphan ELSE GraphItems
StageWaits(s, x) == IF s = "orphan" THEN OrphanWaits(x) ELSE Waits(x)

Indegrees(s) == [x \in StageItems(s) |-> Cardinality(StageWaits(s, x))]

\* sortedReady: what a stage can start with.
StartReady(s) == {x \in StageItems(s) : Indegrees(s)[x] = 0}

Init ==
    /\ in \in Inputs
    /\ stage = "graph"
    /\ indegree = Indegrees("graph")
    /\ ready = StartReady("graph")
    /\ waves = [s \in {"graph", "orphan"} |-> <<>>]

\* Mutant: an item is ready when the first of its waits has been emitted.
EmitWaveFirstWait ==
    /\ stage \in {"graph", "orphan"}
    /\ ready # {}
    /\ waves' = [waves EXCEPT ![stage] = Append(@, ready)]
    /\ indegree' = [x \in DOMAIN indegree |->
                       indegree[x] - Cardinality(ready \cap StageWaits(stage, x))]
    /\ ready' = {x \in DOMAIN indegree : indegree'[x] < indegree[x]}
    /\ UNCHANGED <<in, stage>>

\* Mutant: a wave takes one of the ready items.
EmitWaveSingle ==
    /\ stage \in {"graph", "orphan"}
    /\ \E x \in ready :
         /\ waves' = [waves EXCEPT ![stage] = Append(@, {x})]
         /\ indegree' = [y \in DOMAIN indegree |->
                            indegree[y] - Cardinality({x} \cap StageWaits(stage, y))]
         /\ ready' = (ready \ {x})
                       \cup {y \in DOMAIN indegree : indegree[y] > 0 /\ indegree'[y] = 0}
    /\ UNCHANGED <<in, stage>>

\* One turn of the loop: the ready items form a wave, and the items whose
\* last wait is in it are ready next.
EmitWave ==
    /\ stage \in {"graph", "orphan"}
    /\ ready # {}
    /\ waves' = [waves EXCEPT ![stage] = Append(@, ready)]
    /\ indegree' = [x \in DOMAIN indegree |->
                       indegree[x] - Cardinality(ready \cap StageWaits(stage, x))]
    /\ ready' = {x \in DOMAIN indegree : indegree[x] > 0 /\ indegree'[x] = 0}
    /\ UNCHANGED <<in, stage>>

Emitted(s) == UNION {waves[s][i] : i \in DOMAIN waves[s]}

\* The loop is over and has not emitted every item: there is a cycle.
CycleDetected ==
    /\ stage \in {"graph", "orphan"}
    /\ ready = {}
    /\ Emitted(stage) # StageItems(stage)
    /\ stage' = "error"
    /\ UNCHANGED <<in, indegree, ready, waves>>

EndGraph ==
    /\ stage = "graph"
    /\ ready = {}
    /\ Emitted("graph") = StageItems("graph")
    /\ stage' = "orphan"
    /\ indegree' = Indegrees("orphan")
    /\ ready' = StartReady("orphan")
    /\ UNCHANGED <<in, waves>>

EndOrphan ==
    /\ stage = "orphan"
    /\ ready = {}
    /\ Emitted("orphan") = StageItems("orphan")
    /\ stage' = "done"
    /\ UNCHANGED <<in, indegree, ready, waves>>

Next == EmitWave \/ CycleDetected \/ EndGraph \/ EndOrphan

Spec == Init /\ [][Next]_vars /\ WF_vars(Next)

-----------------------------------------------------------------------------
(* Properties.                                                             *)

TypeOK ==
    /\ in \in Input
    /\ stage \in {"graph", "orphan", "done", "error"}
    /\ indegree \in [DOMAIN indegree -> Nat]
    /\ ready \subseteq DOMAIN indegree
    /\ \A s \in DOMAIN waves : \A i \in DOMAIN waves[s] : waves[s][i] \subseteq StageItems(s)

\* What executionWaves returns: the orphans' waves come first.
Result == waves["orphan"] \o waves["graph"]

\* The wave an item is executed in.
WaveOf(x) == CHOOSE i \in DOMAIN Result : x \in Result[i]

\* A finished schedule of executionWaves runs every active address once, after
\* all that its dependsOn names (failure propagation between waves rests on
\* this), and none waits longer than it must: its wave directly follows that
\* of something it waits for.
CompleteAndTight ==
    stage = "done" =>
        /\ UNION {Result[i] : i \in DOMAIN Result} = Orphan \cup GraphItems
        /\ \A i, j \in DOMAIN Result : i # j => Result[i] \cap Result[j] = {}
        /\ \A x \in Orphan \cup GraphItems : \A d \in DependsOn(x) : WaveOf(d) < WaveOf(x)
        /\ \A x \in GraphItems :
             \/ DependsOn(x) = {}
             \/ \E d \in DependsOn(x) : WaveOf(d) = WaveOf(x) - 1

\* docs/dsl-reference.md: "a dependency is applied first, while destruction
\* runs in reverse order", between two addresses of which one depends on the
\* other, for nodes, for operations and for the orphans of the state; and an
\* operation runs after every change that triggered it.
DependencyOrder ==
    stage = "done" =>
        /\ \A n, d \in Active : d \in in.nodeDeps[n] =>
              IF Destroys(d) THEN WaveOf(n) < WaveOf(d) ELSE WaveOf(d) < WaveOf(n)
        /\ \A n \in Active : \A op \in in.nodeDeps[n] \cap ActiveOps :
              ~Destroys(n) => WaveOf(op) < WaveOf(n)
        /\ \A op \in ActiveOps : \A t \in Triggered(op) : WaveOf(t) < WaveOf(op)
        /\ \A x \in Aliases : WaveOf(x[2]) < WaveOf(x)
        /\ \A o, p \in Orphan : p \in in.priorDeps[o] => WaveOf(o) < WaveOf(p)

\* docs/how-it-works/05-resource-graph.md: validation of the graph is to
\* "Detect dependency cycles"; a graph that passed it can be scheduled.
ValidatedGraphSchedules == stage # "error"
=============================================================================
