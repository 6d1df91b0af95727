------------------------ MODULE ExecutionWavesProofs ------------------------
(***************************************************************************)
(* Proofs of what executionWaves promises of a schedule, for every graph,  *)
(* every plan and every set of orphans: CompleteAndTight and               *)
(* DependencyOrder of ExecutionWaves.                                      *)
(***************************************************************************)
EXTENDS ExecutionWaves, FiniteSetTheorems, TLAPS

Stages == {"graph", "orphan"}

\* The waves emitted so far are layers: an item is in one of them, behind all
\* it waits for and directly behind one of them.
Layered(s) ==
    \A i \in DOMAIN waves[s] : \A x \in waves[s][i] :
        /\ x \in StageItems(s)
        /\ \A j \in DOMAIN waves[s] : x \in waves[s][j] => j = i
        /\ \A d \in StageWaits(s, x) : \E j \in DOMAIN waves[s] : j < i /\ d \in waves[s][j]
        /\ StageWaits(s, x) = {} \/ \E d \in StageWaits(s, x) : i > 1 /\ d \in waves[s][i - 1]

\* What the loop of the stage keeps: the indegrees count the waits that have not
\* been emitted, the ready items are those without any, and each of them waited
\* for the last wave.
Frontier(s) ==
    /\ DOMAIN indegree = StageItems(s)
    /\ \A x \in StageItems(s) : indegree[x] = Cardinality(StageWaits(s, x) \ Emitted(s))
    /\ ready = {x \in StageItems(s) \ Emitted(s) : StageWaits(s, x) \subseteq Emitted(s)}
    /\ \A x \in ready :
         StageWaits(s, x) = {} \/ (Len(waves[s]) > 0 /\ \E d \in StageWaits(s, x) : d \in waves[s][Len(waves[s])])

KahnInv ==
    /\ in \in Inputs
    /\ stage \in {"graph", "orphan", "done", "error"}
    /\ waves \in [Stages -> Seq(SUBSET (GraphItems \cup Orphan))]
    /\ \A s \in Stages : Layered(s)
    /\ stage \in Stages => Frontier(stage)
    /\ stage = "graph" => waves["orphan"] = <<>>
    /\ stage \in {"orphan", "done"} => Emitted("graph") = GraphItems
    /\ stage = "done" => Emitted("orphan") = Orphan

-----------------------------------------------------------------------------
(* What an item waits for.                                                 *)

\* Every item of a stage waits for items of the stage, finitely many.
LEMMA WaitsOfStage ==
    ASSUME in \in Inputs, NEW s \in Stages, NEW x \in StageItems(s)
    PROVE  StageWaits(s, x) \subseteq StageItems(s) /\ IsFiniteSet(StageWaits(s, x))
<1>1. in \in Input
  BY InputsAssumption
<1>2. Active \subseteq Node /\ ActiveOps \subseteq Op /\ Aliases \subseteq Op \X Node
  BY <1>1 DEF Input, Active, ActiveOps, Aliases, Triggered, Changed
<1>3. IsFiniteSet(Active) /\ IsFiniteSet(ActiveOps) /\ IsFiniteSet(Op \X Node)
  BY <1>2, AddressAssumption, FS_Subset, FS_Product
<1>4. IsFiniteSet(Aliases)
  BY <1>2, <1>3, FS_Subset
<1>5. IsFiniteSet(GraphItems)
  BY <1>3, <1>4, FS_Union DEF GraphItems
<1>6. CASE s = "orphan"
  <2>1. StageWaits(s, x) \subseteq Orphan /\ StageItems(s) = Orphan
    BY <1>6 DEF StageWaits, StageItems, OrphanWaits
  <2> QED
    BY <2>1, AddressAssumption, FS_Subset
<1>7. CASE s = "graph"
  <2>1. \A deps : ActiveDeps(deps) \subseteq GraphItems
    BY DEF ActiveDeps, GraphItems
  <2>2. \A n : NodeWaits(n) \subseteq GraphItems
    BY DEF NodeWaits, GraphItems
  <2>3. StageWaits(s, x) = Waits(x) /\ StageItems(s) = GraphItems
    BY <1>7 DEF StageWaits, StageItems
  <2>4. Waits(x) \subseteq GraphItems
    BY <2>1, <2>2, <2>3 DEF Waits, AliasWaits, GraphItems
  <2> QED
    BY <1>5, <2>3, <2>4, FS_Subset
<1> QED
  BY <1>6, <1>7 DEF Stages

\* The plan decides what runs and what it waits for; scheduling does not.
LEMMA SameInput ==
    ASSUME in' = in
    PROVE  /\ GraphItems' = GraphItems
           /\ \A s : StageItems(s)' = StageItems(s)
           /\ \A s, x : StageWaits(s, x)' = StageWaits(s, x)
BY DEF GraphItems, StageItems, StageWaits, Waits, OrphanWaits, NodeWaits, AliasWaits, ActiveDeps, Active,
   ActiveOps, Aliases, Triggered, Changed, Destroys

-----------------------------------------------------------------------------
(* The loop.                                                               *)

\* What a stage starts with.
LEMMA StageStarts ==
    ASSUME in \in Inputs, NEW s \in Stages, waves[s] = <<>>,
           indegree = Indegrees(s), ready = StartReady(s)
    PROVE  Frontier(s)
<1>1. Emitted(s) = {}
  BY DEF Emitted
<1>2. \A x \in StageItems(s) : Indegrees(s)[x] = Cardinality(StageWaits(s, x))
  BY DEF Indegrees
<1>3. \A x \in StageItems(s) : StageWaits(s, x) \ Emitted(s) = StageWaits(s, x)
  BY <1>1
<1>4. \A x \in StageItems(s) : Cardinality(StageWaits(s, x)) = 0 <=> StageWaits(s, x) = {}
  BY WaitsOfStage, FS_EmptySet
<1>5. ready = {x \in StageItems(s) \ Emitted(s) : StageWaits(s, x) \subseteq Emitted(s)}
  BY <1>1, <1>2, <1>4 DEF StartReady
<1>6. DOMAIN indegree = StageItems(s)
  BY DEF Indegrees
<1> QED
  BY <1>1, <1>2, <1>3, <1>5, <1>6 DEF Frontier

LEMMA OrphansStart ==
    in \in Inputs /\ waves["orphan"] = <<>> /\ indegree = Indegrees("orphan") /\ ready = StartReady("orphan")
        => Frontier("orphan")
BY StageStarts DEF Stages

LEMMA KahnInit == Init => KahnInv
<1> SUFFICES ASSUME Init PROVE KahnInv
  OBVIOUS
<1>1. waves \in [Stages -> Seq(SUBSET (GraphItems \cup Orphan))] /\ \A s \in Stages : waves[s] = <<>>
  BY DEF Init, Stages
<1>2. \A s \in Stages : Layered(s)
  BY <1>1 DEF Layered
<1>3. Frontier("graph")
  BY <1>1, StageStarts DEF Init, Stages
<1> QED
  BY <1>1, <1>2, <1>3 DEF Init, KahnInv, Stages

\* Emitting a wave takes from each indegree the waits that are in the wave.
LEMMA IndegreeAfter ==
    ASSUME NEW W, NEW E, NEW R, IsFiniteSet(W), R \cap E = {}
    PROVE  /\ Cardinality(W \ E) - Cardinality(R \cap W) = Cardinality(W \ (E \cup R))
           /\ Cardinality(W \ E) \in Nat
           /\ Cardinality(W \ E) = 0 <=> W \subseteq E
           /\ Cardinality(W \ (E \cup R)) = 0 <=> W \subseteq E \cup R
<1>1. IsFiniteSet(W \ E) /\ IsFiniteSet(W \ (E \cup R))
  BY FS_Difference
<1>2. (W \ E) \cap R = R \cap W /\ (W \ E) \ R = W \ (E \cup R)
  OBVIOUS
<1>3. Cardinality((W \ E) \ R) = Cardinality(W \ E) - Cardinality((W \ E) \cap R)
  BY <1>1, FS_Difference
<1>4. (W \ E = {} <=> W \subseteq E) /\ (W \ (E \cup R) = {} <=> W \subseteq E \cup R)
  OBVIOUS
<1> QED
  BY <1>1, <1>2, <1>3, <1>4, FS_EmptySet, FS_CardinalityType

\* What is not emitted to stays layered.
LEMMA LayeredSame ==
    ASSUME NEW s, Layered(s), in' = in, waves'[s] = waves[s]
    PROVE  Layered(s)' /\ Emitted(s)' = Emitted(s)
<1>1. StageItems(s)' = StageItems(s) /\ \A x : StageWaits(s, x)' = StageWaits(s, x)
  BY SameInput
<1>2. Emitted(s)' = Emitted(s)
  BY DEF Emitted
<1> QED
  BY <1>1, <1>2 DEF Layered

LEMMA EmitWaveKeeps == KahnInv /\ EmitWave => KahnInv'
<1> SUFFICES ASSUME KahnInv, EmitWave PROVE KahnInv'
  OBVIOUS
<1>0. PICK s \in Stages : s = stage
  BY DEF EmitWave, Stages
<1>1. /\ stage = s /\ stage' = s /\ in' = in /\ ready # {}
      /\ in \in Inputs /\ Frontier(s) /\ Layered(s)
      /\ waves' = [waves EXCEPT ![s] = Append(waves[s], ready)]
  BY <1>0 DEF EmitWave, KahnInv, Stages
<1>2. /\ waves \in [Stages -> Seq(SUBSET (GraphItems \cup Orphan))]
      /\ ready \subseteq StageItems(s) /\ StageItems(s) \subseteq GraphItems \cup Orphan
  BY <1>1 DEF KahnInv, Frontier, StageItems
<1>n. PICK n \in Nat : n = Len(waves[s])
  BY <1>2
<1>3. /\ DOMAIN waves[s] = 1..n /\ DOMAIN waves'[s] = 1..(n + 1)
      /\ \A i \in 1..n : waves'[s][i] = waves[s][i]
      /\ waves'[s][n + 1] = ready
      /\ \A r \in Stages \ {s} : waves'[r] = waves[r]
      /\ waves' \in [Stages -> Seq(SUBSET (GraphItems \cup Orphan))]
  BY <1>1, <1>2, <1>n
<1>4. Emitted(s)' = Emitted(s) \cup ready /\ \A r \in Stages \ {s} : Emitted(r)' = Emitted(r)
  BY <1>1, <1>3 DEF Emitted
<1>5. ready \cap Emitted(s) = {} /\ \A x \in ready : StageWaits(s, x) \subseteq Emitted(s)
  BY <1>1 DEF Frontier
<1>6. Layered(s)'
  <2> SUFFICES ASSUME NEW i \in 1..(n + 1), NEW x \in waves'[s][i]
               PROVE  /\ x \in StageItems(s)
                      /\ \A j \in 1..(n + 1) : x \in waves'[s][j] => j = i
                      /\ \A d \in StageWaits(s, x) : \E j \in 1..(n + 1) : j < i /\ d \in waves'[s][j]
                      /\ StageWaits(s, x) = {} \/ \E d \in StageWaits(s, x) : i > 1 /\ d \in waves'[s][i - 1]
    BY <1>1, <1>3, SameInput DEF Layered
  <2>1. CASE i \in 1..n
    <3>1. x \in waves[s][i] /\ x \in Emitted(s)
      BY <1>3, <2>1 DEF Emitted
    <3>2. x \notin ready
      BY <1>5, <3>1
    <3>3. \A j \in 1..(n + 1) : x \in waves'[s][j] => j = i
      <4>1. \A j \in 1..n : x \in waves[s][j] => j = i
        BY <1>1, <1>3, <2>1, <3>1 DEF Layered
      <4> QED
        BY <1>3, <3>2, <4>1
    <3>4. \A d \in StageWaits(s, x) : \E j \in 1..n : j < i /\ d \in waves[s][j]
      BY <1>1, <1>3, <2>1, <3>1 DEF Layered
    <3>5. StageWaits(s, x) = {} \/ \E d \in StageWaits(s, x) : i > 1 /\ d \in waves[s][i - 1]
      BY <1>1, <1>3, <2>1, <3>1 DEF Layered
    <3>6. x \in StageItems(s)
      BY <1>1, <1>3, <2>1, <3>1 DEF Layered
    <3>7. i > 1 => i - 1 \in 1..n
      BY <1>3, <2>1
    <3> QED
      BY <1>3, <3>3, <3>4, <3>5, <3>6, <3>7
  <2>2. CASE i = n + 1
    <3>1. x \in ready
      BY <1>3, <2>2
    <3>2. \A j \in 1..(n + 1) : x \in waves'[s][j] => j = i
      BY <1>3, <1>5, <2>2, <3>1 DEF Emitted
    <3>3. \A d \in StageWaits(s, x) : \E j \in 1..n : d \in waves[s][j]
      BY <1>3, <1>5, <3>1 DEF Emitted
    <3>4. StageWaits(s, x) = {} \/ \E d \in StageWaits(s, x) : n > 0 /\ d \in waves[s][n]
      BY <1>1, <1>n, <3>1 DEF Frontier
    <3> QED
      BY <1>2, <1>3, <2>2, <3>1, <3>2, <3>3, <3>4
  <2> QED
    BY <1>3, <2>1, <2>2
<1>7. \A r \in Stages \ {s} : Layered(r)'
  BY <1>1, <1>3, LayeredSame DEF KahnInv
<1>8. Frontier(s)'
  <2> DEFINE E == Emitted(s)
             W(x) == StageWaits(s, x)
  <2>1. \A x \in StageItems(s) :
          /\ indegree[x] = Cardinality(W(x) \ E)
          /\ Cardinality(W(x) \ E) - Cardinality(ready \cap W(x)) = Cardinality(W(x) \ (E \cup ready))
          /\ Cardinality(W(x) \ E) \in Nat
          /\ Cardinality(W(x) \ E) = 0 <=> W(x) \subseteq E
          /\ Cardinality(W(x) \ (E \cup ready)) = 0 <=> W(x) \subseteq E \cup ready
    <3> TAKE x \in StageItems(s)
    <3>1. IsFiniteSet(W(x))
      BY <1>1, WaitsOfStage
    <3>2. indegree[x] = Cardinality(W(x) \ E)
      BY <1>1 DEF Frontier
    <3>3. ready \cap E = {}
      BY <1>5
    <3> HIDE DEF W, E
    <3> QED
      BY <3>1, <3>2, <3>3, IndegreeAfter
  <2>2. /\ DOMAIN indegree' = StageItems(s)
        /\ \A x \in StageItems(s) : indegree'[x] = indegree[x] - Cardinality(ready \cap W(x))
        /\ ready' = {x \in StageItems(s) : indegree[x] > 0 /\ indegree'[x] = 0}
    BY <1>1 DEF EmitWave, Frontier
  <2>3. \A x \in StageItems(s) : indegree'[x] = Cardinality(W(x) \ (E \cup ready))
    BY <2>1, <2>2
  <2>4. \A x \in E : W(x) \subseteq E
    BY <1>1 DEF Layered, Emitted
  <2>5. \A x \in StageItems(s) : x \in ready' <=> ~(W(x) \subseteq E) /\ W(x) \subseteq E \cup ready
    <3> TAKE x \in StageItems(s)
    <3> HIDE DEF W, E
    <3>1. indegree[x] \in Nat /\ (indegree[x] = 0 <=> W(x) \subseteq E)
      BY <2>1
    <3>2. indegree'[x] = 0 <=> W(x) \subseteq E \cup ready
      BY <2>1, <2>3
    <3> QED
      BY <2>2, <3>1, <3>2
  <2>6. ready = {x \in StageItems(s) \ E : W(x) \subseteq E}
    BY <1>1 DEF Frontier
  <2>7. ready' = {x \in StageItems(s) \ (E \cup ready) : W(x) \subseteq E \cup ready}
    <3> HIDE DEF W, E
    <3> QED
      BY <2>2, <2>4, <2>5, <2>6
  <2>8. \A x \in ready' : \E d \in W(x) : d \in ready
    BY <2>2, <2>5
  <2>9. Len(waves'[s]) = n + 1 /\ n + 1 > 0
    BY <1>1, <1>2, <1>3
  <2>10. \A x \in ready' : \E d \in W(x) : d \in waves'[s][Len(waves'[s])]
    BY <1>3, <2>8, <2>9
  <2> QED
    BY <1>1, <1>4, <2>2, <2>3, <2>7, <2>9, <2>10, SameInput DEF Frontier
<1>9. /\ stage = "graph" => waves'["orphan"] = <<>>
      /\ stage = "orphan" => Emitted("graph")' = GraphItems
  BY <1>1, <1>3, <1>4 DEF KahnInv, Stages
<1>10. \A r \in Stages : Layered(r)'
  BY <1>6, <1>7
<1>11. waves' \in [Stages -> Seq(SUBSET (GraphItems' \cup Orphan))] /\ GraphItems' = GraphItems
  BY <1>1, <1>3, SameInput
<1> QED
  BY <1>1, <1>8, <1>9, <1>10, <1>11 DEF KahnInv, Stages

\* The steps that emit nothing leave the waves as they are.
LEMMA NothingEmitted ==
    ASSUME KahnInv, in' = in, waves' = waves
    PROVE  /\ in' \in Inputs /\ GraphItems' = GraphItems
           /\ waves' \in [Stages -> Seq(SUBSET (GraphItems' \cup Orphan))]
           /\ \A s \in Stages : Layered(s)' /\ Emitted(s)' = Emitted(s)
BY SameInput, LayeredSame DEF KahnInv

LEMMA KahnNext == KahnInv /\ [Next]_vars => KahnInv'
<1> SUFFICES ASSUME KahnInv, [Next]_vars PROVE KahnInv'
  OBVIOUS
<1>1. CASE EmitWave
  BY <1>1, EmitWaveKeeps
<1>2. CASE CycleDetected
  BY <1>2, NothingEmitted DEF CycleDetected, KahnInv, Stages
<1>3. CASE EndGraph
  <2>1. /\ in' = in /\ waves' = waves /\ stage = "graph" /\ stage' = "orphan"
        /\ indegree' = Indegrees("orphan") /\ ready' = StartReady("orphan")
        /\ Emitted("graph") = GraphItems /\ waves["orphan"] = <<>>
    BY <1>3 DEF EndGraph, KahnInv, StageItems
  <2>2. Indegrees("orphan")' = Indegrees("orphan") /\ StartReady("orphan")' = StartReady("orphan")
    BY <2>1, SameInput DEF Indegrees, StartReady
  <2>3. in' \in Inputs /\ (waves["orphan"])' = <<>>
    BY <2>1 DEF KahnInv
  <2>4. (in \in Inputs /\ waves["orphan"] = <<>> /\ indegree = Indegrees("orphan") /\ ready = StartReady("orphan")
           => Frontier("orphan"))'
    BY OrphansStart, PTL
  <2>5. Frontier("orphan")'
    BY <2>1, <2>2, <2>3, <2>4
  <2> QED
    BY <2>1, <2>5, NothingEmitted DEF KahnInv, Stages
<1>4. CASE EndOrphan
  BY <1>4, NothingEmitted DEF EndOrphan, KahnInv, Stages, StageItems
<1>5. CASE UNCHANGED vars
  <2>1. /\ in' = in /\ waves' = waves /\ stage' = stage /\ indegree' = indegree /\ ready' = ready
    BY <1>5 DEF vars
  <2>2. ASSUME stage \in Stages PROVE Frontier(stage)'
    <3>1. Emitted(stage)' = Emitted(stage) /\ Frontier(stage)
      BY <2>1, <2>2, NothingEmitted DEF KahnInv
    <3> QED
      BY <2>1, <3>1, SameInput DEF Frontier
  <2> QED
    BY <2>1, <2>2, NothingEmitted DEF KahnInv, Stages
<1> QED
  BY <1>1, <1>2, <1>3, <1>4, <1>5 DEF Next

-----------------------------------------------------------------------------
(* The result.                                                             *)

LEMMA Concatenation ==
    ASSUME NEW S, NEW a \in Seq(S), NEW b \in Seq(S)
    PROVE  /\ Len(a) \in Nat /\ Len(b) \in Nat /\ DOMAIN a = 1..Len(a) /\ DOMAIN b = 1..Len(b)
           /\ DOMAIN (a \o b) = 1..(Len(a) + Len(b))
           /\ \A i \in 1..Len(a) : i \in DOMAIN (a \o b) /\ (a \o b)[i] = a[i]
           /\ \A i \in 1..Len(b) : Len(a) + i \in DOMAIN (a \o b) /\ (a \o b)[Len(a) + i] = b[i]
OBVIOUS

\* The orphans' waves come first, then those of the graph.
LEMMA ResultIs ==
    ASSUME KahnInv
    PROVE  /\ Len(waves["orphan"]) \in Nat /\ Len(waves["graph"]) \in Nat
           /\ DOMAIN waves["orphan"] = 1..Len(waves["orphan"])
           /\ DOMAIN waves["graph"] = 1..Len(waves["graph"])
           /\ DOMAIN Result = 1..(Len(waves["orphan"]) + Len(waves["graph"]))
           /\ \A i \in 1..Len(waves["orphan"]) : i \in DOMAIN Result /\ Result[i] = waves["orphan"][i]
           /\ \A i \in 1..Len(waves["graph"]) :
                /\ Len(waves["orphan"]) + i \in DOMAIN Result
                /\ Result[Len(waves["orphan"]) + i] = waves["graph"][i]
           /\ DOMAIN Result \subseteq Nat
           /\ \A i \in DOMAIN Result \ (1..Len(waves["orphan"])) :
                /\ i - Len(waves["orphan"]) \in 1..Len(waves["graph"])
                /\ i = Len(waves["orphan"]) + (i - Len(waves["orphan"]))
<1> DEFINE T == SUBSET (GraphItems \cup Orphan)
           a == waves["orphan"]
           b == waves["graph"]
<1>1. a \in Seq(T) /\ b \in Seq(T) /\ Result = a \o b
  BY DEF KahnInv, Stages, Result
<1> HIDE DEF T, a, b
<1>2. /\ Len(a) \in Nat /\ Len(b) \in Nat /\ DOMAIN a = 1..Len(a) /\ DOMAIN b = 1..Len(b)
      /\ DOMAIN Result = 1..(Len(a) + Len(b)) /\ DOMAIN Result \subseteq Nat
      /\ \A i \in 1..Len(a) : i \in DOMAIN Result /\ Result[i] = a[i]
      /\ \A i \in 1..Len(b) : Len(a) + i \in DOMAIN Result /\ Result[Len(a) + i] = b[i]
  BY <1>1, Concatenation
<1>3. \A k, g \in Nat : \A i \in (1..(k + g)) \ (1..k) : i - k \in 1..g /\ i = k + (i - k)
  OBVIOUS
<1> QED
  BY <1>2, <1>3 DEF a, b

\* An address has one wave, and nothing of the graph is an orphan.
LEMMA OneWave ==
    ASSUME KahnInv, NEW i \in DOMAIN Result, NEW j \in DOMAIN Result, NEW x \in Result[i], x \in Result[j]
    PROVE  i = j
<1> DEFINE k == Len(waves["orphan"])
           g == Len(waves["graph"])
<1>1. in \in Input
  BY InputsAssumption DEF KahnInv
<1>2. GraphItems \cap Orphan = {}
  <2>1. Active \subseteq Node /\ ActiveOps \subseteq Op /\ Aliases \subseteq Op \X Node
    BY <1>1 DEF Input, Active, ActiveOps, Aliases, Triggered, Changed
  <2> QED
    BY <2>1, AddressAssumption DEF GraphItems
<1>3. ASSUME NEW m \in DOMAIN Result, x \in Result[m]
      PROVE  \/ m \in 1..k /\ x \in waves["orphan"][m] /\ x \in Orphan
             \/ m - k \in 1..g /\ x \in waves["graph"][m - k] /\ x \in GraphItems
  <2>1. CASE m \in 1..k
    <3>1. x \in waves["orphan"][m] /\ Layered("orphan") /\ m \in DOMAIN waves["orphan"]
      BY <1>3, <2>1, ResultIs DEF KahnInv, Stages
    <3> QED
      BY <2>1, <3>1 DEF Layered, StageItems
  <2>2. CASE m \notin 1..k
    <3>1. m - k \in 1..g /\ m = k + (m - k)
      BY <2>2, ResultIs
    <3>2. x \in waves["graph"][m - k] /\ Layered("graph") /\ m - k \in DOMAIN waves["graph"]
      BY <1>3, <3>1, ResultIs DEF KahnInv, Stages
    <3> QED
      BY <3>1, <3>2 DEF Layered, StageItems
  <2> QED
    BY <2>1, <2>2
<1>4. Layered("orphan") /\ Layered("graph")
  BY DEF KahnInv, Stages
<1>5. CASE x \in Orphan
  <2>1. i \in 1..k /\ x \in waves["orphan"][i] /\ j \in 1..k /\ x \in waves["orphan"][j]
    BY <1>2, <1>3, <1>5
  <2> QED
    BY <1>4, <2>1, ResultIs DEF Layered
<1>6. CASE x \notin Orphan
  <2>1. /\ i - k \in 1..g /\ x \in waves["graph"][i - k]
        /\ j - k \in 1..g /\ x \in waves["graph"][j - k]
    BY <1>3, <1>6
  <2>2. i - k = j - k
    BY <1>4, <2>1, ResultIs DEF Layered
  <2> QED
    BY <2>2, ResultIs
<1> QED
  BY <1>5, <1>6

LEMMA WaveOfIs ==
    ASSUME KahnInv, NEW i \in DOMAIN Result, NEW x \in Result[i]
    PROVE  WaveOf(x) = i /\ i \in Nat
<1>1. WaveOf(x) \in DOMAIN Result /\ x \in Result[WaveOf(x)]
  BY DEF WaveOf
<1>2. DOMAIN Result \subseteq Nat
  BY ResultIs
<1> QED
  BY <1>1, <1>2, OneWave

\* An item of a finished stage is behind all it waits for, and directly behind
\* one of them if there are any.
LEMMA BehindItsWaits ==
    ASSUME KahnInv, stage = "done", NEW s \in Stages, NEW x \in StageItems(s)
    PROVE  /\ \A d \in StageWaits(s, x) : WaveOf(d) < WaveOf(x) /\ WaveOf(d) \in Nat /\ WaveOf(x) \in Nat
           /\ StageWaits(s, x) = {} \/ \E d \in StageWaits(s, x) : WaveOf(d) = WaveOf(x) - 1
<1>1. PICK k \in Nat : \A i \in DOMAIN waves[s] : k + i \in DOMAIN Result /\ Result[k + i] = waves[s][i]
  <2>1. CASE s = "orphan"
    <3>1. \A i \in DOMAIN waves[s] : 0 + i = i
      BY <2>1, ResultIs
    <3>2. \A i \in DOMAIN waves[s] : 0 + i \in DOMAIN Result /\ Result[0 + i] = waves[s][i]
      BY <2>1, <3>1, ResultIs
    <3> QED
      BY <3>2
  <2>2. CASE s = "graph"
    BY <2>2, ResultIs
  <2> QED
    BY <2>1, <2>2 DEF Stages
<1>2. PICK i \in DOMAIN waves[s] : x \in waves[s][i]
  BY DEF KahnInv, Emitted, StageItems, Stages
<1>3. DOMAIN waves[s] \subseteq Nat /\ Layered(s)
  BY ResultIs DEF KahnInv, Stages
<1>4. \A j \in DOMAIN waves[s] : \A y \in waves[s][j] : WaveOf(y) = k + j
  BY <1>1, WaveOfIs
<1>5. \A d \in StageWaits(s, x) : WaveOf(d) < WaveOf(x) /\ WaveOf(d) \in Nat /\ WaveOf(x) \in Nat
  <2> TAKE d \in StageWaits(s, x)
  <2>1. PICK j \in DOMAIN waves[s] : j < i /\ d \in waves[s][j]
    BY <1>2, <1>3 DEF Layered
  <2>2. WaveOf(d) = k + j /\ WaveOf(x) = k + i
    BY <1>2, <1>4, <2>1
  <2> QED
    BY <1>3, <2>1, <2>2
<1>6. ASSUME StageWaits(s, x) # {} PROVE \E d \in StageWaits(s, x) : WaveOf(d) = WaveOf(x) - 1
  <2>1. PICK d \in StageWaits(s, x) : i > 1 /\ d \in waves[s][i - 1]
    BY <1>2, <1>3, <1>6 DEF Layered
  <2>2. i - 1 \in DOMAIN waves[s]
    BY <2>1, ResultIs DEF Stages
  <2>3. WaveOf(d) = k + (i - 1) /\ WaveOf(x) = k + i
    BY <1>2, <1>4, <2>1, <2>2
  <2> QED
    BY <1>3, <2>3
<1> QED
  BY <1>5, <1>6

\* For every graph and plan, a finished schedule runs every active address once,
\* after what its dependsOn names and no later than it must (executionWaves and
\* scheduleWavesWithAliases).
THEOREM CompleteAndTightCorrect == Spec => []CompleteAndTight
<1>1. KahnInv => CompleteAndTight
  <2> SUFFICES ASSUME KahnInv, stage = "done" PROVE CompleteAndTight
    BY DEF CompleteAndTight
  <2>1. UNION {Result[i] : i \in DOMAIN Result} = Orphan \cup GraphItems
    <3>1. Emitted("orphan") = Orphan /\ Emitted("graph") = GraphItems
      BY DEF KahnInv
    <3>2. \A x : (\E i \in DOMAIN Result : x \in Result[i]) <=> x \in Emitted("orphan") \/ x \in Emitted("graph")
      <4> TAKE x
      <4>1. ASSUME NEW i \in DOMAIN Result, x \in Result[i]
            PROVE  x \in Emitted("orphan") \/ x \in Emitted("graph")
        <5>1. CASE i \in 1..Len(waves["orphan"])
          BY <4>1, <5>1, ResultIs DEF Emitted
        <5>2. CASE i \notin 1..Len(waves["orphan"])
          <6>1. PICK j \in 1..Len(waves["graph"]) : i = Len(waves["orphan"]) + j
            BY <5>2, ResultIs
          <6>2. x \in waves["graph"][j] /\ j \in DOMAIN waves["graph"]
            BY <4>1, <6>1, ResultIs
          <6> QED
            BY <6>2 DEF Emitted
        <5> QED
          BY <5>1, <5>2
      <4>2. ASSUME x \in Emitted("orphan") PROVE \E i \in DOMAIN Result : x \in Result[i]
        BY <4>2, ResultIs DEF Emitted
      <4>3. ASSUME x \in Emitted("graph") PROVE \E i \in DOMAIN Result : x \in Result[i]
        <5>1. PICK i \in 1..Len(waves["graph"]) : x \in waves["graph"][i]
          BY <4>3, ResultIs DEF Emitted
        <5> QED
          BY <5>1, ResultIs
      <4> QED
        BY <4>1, <4>2, <4>3
    <3> QED
      BY <3>1, <3>2
  <2>2. \A i, j \in DOMAIN Result : i # j => Result[i] \cap Result[j] = {}
    BY OneWave
  <2>3. \A x \in GraphItems : StageWaits("graph", x) = Waits(x) /\ x \in StageItems("graph")
    BY DEF StageWaits, StageItems
  <2>4. \A x \in GraphItems \ Orphan : DependsOn(x) = Waits(x)
    BY DEF DependsOn
  <2>5. \A x \in Orphan : DependsOn(x) = {}
    BY DEF DependsOn
  <2>6. \A x \in Orphan \cup GraphItems : \A d \in DependsOn(x) : WaveOf(d) < WaveOf(x)
    BY <2>3, <2>4, <2>5, BehindItsWaits DEF Stages
  <2>7. \A x \in GraphItems : DependsOn(x) = {} \/ \E d \in DependsOn(x) : WaveOf(d) = WaveOf(x) - 1
    BY <2>3, <2>4, <2>5, BehindItsWaits DEF Stages
  <2> QED
    BY <2>1, <2>2, <2>6, <2>7 DEF CompleteAndTight
<1> QED
  BY <1>1, KahnInit, KahnNext, PTL DEF Spec

\* For every graph and plan, dependencies are applied first, destruction runs in
\* reverse order and an operation runs after what triggered it
\* (activeDependencyOverrides, operationForTriggers, orphanExecutionWaves).
THEOREM DependencyOrderCorrect == Spec => []DependencyOrder
<1>1. KahnInv => DependencyOrder
  <2> SUFFICES ASSUME KahnInv, stage = "done" PROVE DependencyOrder
    BY DEF DependencyOrder
  <2>1. in \in Inputs /\ in \in Input
    BY InputsAssumption DEF KahnInv
  <2>2. Active \subseteq Node /\ ActiveOps \subseteq Op /\ Aliases \subseteq Op \X Node
    BY <2>1 DEF Input, Active, ActiveOps, Aliases, Triggered, Changed
  <2>3. \A x \in GraphItems : \A d \in Waits(x) :
           WaveOf(d) < WaveOf(x) /\ WaveOf(d) \in Nat /\ WaveOf(x) \in Nat
    BY BehindItsWaits DEF StageWaits, StageItems, Stages
  <2>4. /\ \A n \in Active : n \in GraphItems /\ Waits(n) = NodeWaits(n)
        /\ \A op \in ActiveOps : op \in GraphItems /\ Waits(op) = ActiveDeps(in.opDeps[op])
        /\ \A x \in Aliases : x \in GraphItems /\ Waits(x) = AliasWaits(x)
    BY <2>2, AddressAssumption DEF GraphItems, Waits
  <2>5. \A n, d \in Active : d \in in.nodeDeps[n] =>
           IF Destroys(d) THEN WaveOf(n) < WaveOf(d) ELSE WaveOf(d) < WaveOf(n)
    <3> TAKE n, d \in Active
    <3> HAVE d \in in.nodeDeps[n]
    <3>1. IF Destroys(d) THEN n \in NodeWaits(d) ELSE d \in NodeWaits(n)
      BY DEF NodeWaits
    <3> QED
      BY <2>3, <2>4, <3>1
  <2>6. \A n \in Active : \A op \in in.nodeDeps[n] \cap ActiveOps : ~Destroys(n) => WaveOf(op) < WaveOf(n)
    <3> TAKE n \in Active
    <3> TAKE op \in in.nodeDeps[n] \cap ActiveOps
    <3>1. ~Destroys(n) => op \in NodeWaits(n)
      BY DEF NodeWaits
    <3> QED
      BY <2>3, <2>4, <3>1
  <2>7. ASSUME NEW op \in ActiveOps, NEW t \in Triggered(op) PROVE WaveOf(t) < WaveOf(op)
    <3>1. t \in Active /\ t \in in.triggeredBy[op] /\ op \in Op
      BY <2>1, <2>2 DEF Triggered, Changed, Active
    <3>2. ASSUME NEW p \in ActiveOps, t \in in.opDeps[p] PROVE WaveOf(t) < WaveOf(p) /\ WaveOf(t) \in Nat /\ WaveOf(p) \in Nat
      <4>1. t \in Waits(p)
        BY <2>4, <3>1, <3>2 DEF ActiveDeps
      <4> QED
        BY <2>3, <2>4, <4>1
    <3>3. CASE t \in in.opDeps[op]
      BY <3>2, <3>3
    <3>4. CASE t \notin in.opDeps[op]
      <4>1. PICK p \in (in.opDeps[op] \cap Op) \ in.each : t \in in.triggeredBy[p] \cap in.opDeps[p]
        BY <2>1, <3>1, <3>4, TriggersAssumption
      <4>2. p \in ActiveOps
        BY <3>1, <4>1 DEF ActiveOps, Triggered
      <4>3. p \in Waits(op)
        BY <2>4, <4>1, <4>2 DEF ActiveDeps
      <4>4. /\ WaveOf(t) < WaveOf(p) /\ WaveOf(p) < WaveOf(op)
            /\ WaveOf(t) \in Nat /\ WaveOf(p) \in Nat /\ WaveOf(op) \in Nat
        BY <2>3, <2>4, <3>2, <4>1, <4>2, <4>3
      <4> QED
        BY <4>4
    <3> QED
      BY <3>3, <3>4
  <2>8. ASSUME NEW x \in Aliases PROVE WaveOf(x[2]) < WaveOf(x)
    <3>1. x[2] \in Active
      BY <2>1 DEF Aliases, Triggered, Changed, Active
    <3>2. x[2] \in Waits(x)
      BY <2>4, <3>1 DEF AliasWaits, ActiveDeps
    <3> QED
      BY <2>3, <2>4, <3>2
  <2>9. ASSUME NEW o \in Orphan, NEW p \in Orphan, p \in in.priorDeps[o] PROVE WaveOf(o) < WaveOf(p)
    <3>1. o \in StageWaits("orphan", p) /\ p \in StageItems("orphan")
      BY <2>9 DEF StageWaits, StageItems, OrphanWaits
    <3> QED
      BY <3>1, BehindItsWaits DEF Stages
  <2> QED
    BY <2>5, <2>6, <2>7, <2>8, <2>9 DEF DependencyOrder
<1> QED
  BY <1>1, KahnInit, KahnNext, PTL DEF Spec
=============================================================================
