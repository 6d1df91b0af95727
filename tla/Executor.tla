------------------------------ MODULE Executor ------------------------------
(***************************************************************************)
(* The execution of a plan's waves (runExecutionWaves and below, in        *)
(* internal/core/engine/engine.go) with the state writes of the SSH        *)
(* backend.                                                                *)
(*                                                                         *)
(* Waves run one after the other.  Every item of a wave that is not        *)
(* blocked has a goroutine of its own, which takes a slot of the global    *)
(* semaphore, then slots of its host's semaphore, calls the provider and   *)
(* then, under the host's mutex, copies the host's state, changes it and   *)
(* writes it to the host.  A write runs as a script over SSH, so that a    *)
(* failed call does not tell whether the state file was replaced, or will  *)
(* be.                                                                     *)
(***************************************************************************)
EXTENDS Integers, FiniteSets

CONSTANTS
    Item,       \* the execution items
    Address,    \* resource addresses; an item for a resource is its address
    Host,
    HostOf,     \* the host of each item
    Action,     \* what each item does, see Actions
    DependsOn,  \* item.dependsOn: what failure propagation looks at
    WaveOf,     \* the wave each item is in
    LastWave,
    Safe,       \* the items whose kind is safe to run in parallel
    NodeDeps,   \* node.DependsOn, which the record of a resource keeps
    Outputs,    \* the script outputs an operation records
    Completes,  \* the resources whose completion an operation records
    Prior,      \* the states that prepareHostStates returns
    Parallel,   \* --parallel
    PerHost,    \* per-host parallelism
    MaxLate     \* bound: writes that happen after their call has failed

\* "check" is the create or update of a component_script_output; "run" is an
\* operation.
Adds    == {"create", "update", "adopt"}
Removes == {"delete", "destroy", "forget"}
Actions == Adds \cup Removes \cup {"check", "run"}

\* A host's state: the addresses that have a record, and what the dependsOn of
\* each record names.
State == [serial: Nat, resources: SUBSET Address, refs: [Address -> SUBSET Address]]

ASSUME ConstantsAssumption ==
    /\ Item \subseteq Address
    /\ HostOf \in [Item -> Host]
    /\ Action \in [Item -> Actions]
    /\ DependsOn \in [Item -> SUBSET Item]
    /\ LastWave \in Nat
    /\ WaveOf \in [Item -> 1..LastWave]
    /\ Safe \subseteq Item
    /\ NodeDeps \in [Item -> SUBSET Address]
    /\ Outputs \in [Item -> SUBSET Address]
    /\ Completes \in [Item -> SUBSET Address]
    /\ Prior \in [Host -> State]
    /\ Parallel \in Nat \ {0}
    /\ PerHost \in Nat \ {0}
    /\ MaxLate \in Nat

\* A plan is finite.
ASSUME FiniteAssumption == IsFiniteSet(Item)

\* What executionWaves guarantees (CompleteAndTight of ExecutionWaves).
ASSUME WavesAssumption ==
    \A i \in Item : \A d \in DependsOn[i] : WaveOf[d] < WaveOf[i]

\* What Plan and executionWaves guarantee of a resource that is removed: what
\* is written and depends on it goes first, and no script records it.  Only
\* operations record outputs.
ASSUME PlanAssumption ==
    \A i, j \in Item :
        /\ Action[i] \in Removes /\ Action[j] \in Adds /\ i \in NodeDeps[j]
              => j \in DependsOn[i]
        /\ Action[i] \in Removes => i \notin Outputs[j]
        /\ Action[j] # "run" => Outputs[j] = {}

NoError == "none"
ASSUME NoErrorAssumption == NoError \notin Item

VARIABLES
    wave,       \* the wave that runs; LastWave + 1 when all have
    pc,         \* where the goroutine of each item is
    firstErr,   \* the item whose error is returned, or NoError
    memory,     \* states[host] in the engine
    draft,      \* the state each item has prepared to write
    disk,       \* the state file of each host
    late,       \* writes that failed calls left behind, due or done
    ctx         \* the run's context: "live" or "cancelled"

vars == <<wave, pc, firstErr, memory, draft, disk, late, ctx>>

-----------------------------------------------------------------------------
PCs == {"pending", "blocked", "global", "host", "call", "lock", "write",
        "ok", "failed"}
NotStarted == {"pending", "blocked"}
Settled    == {"blocked", "ok", "failed"}

NoRefs == [a \in Address |-> {}]
NoDraft == [serial |-> 0, resources |-> {}, refs |-> NoRefs]

Init ==
    /\ wave = 0
    /\ pc = [i \in Item |-> "pending"]
    /\ firstErr = NoError
    /\ memory = Prior
    /\ draft = [i \in Item |-> NoDraft]
    /\ disk = Prior
    /\ late = {}
    /\ ctx = "live"

Goto(i, point) == pc' = [pc EXCEPT ![i] = point]

-----------------------------------------------------------------------------
(* runExecutionWaves.                                                      *)

\* Mutant: an item that was blocked blocks nobody.
BlockedByFailure(i) == \E d \in DependsOn[i] : pc[d] = "failed"

\* blockedDependency
Blocked(i) == \E d \in DependsOn[i] : pc[d] \in {"failed", "blocked"}

\* Mutant: the error of the last wave is returned.
LastError(failures) == IF failures # {} THEN failures ELSE {NoError}

\* The parts of the loop body: the first error so far, and the next wave.
FirstError(failures) ==
    IF firstErr = NoError /\ failures # {} THEN failures ELSE {firstErr}

StartWave(w) ==
    pc' = [i \in Item |-> IF WaveOf[i] # w THEN pc[i]
                          ELSE IF Blocked(i) THEN "blocked" ELSE "global"]

FailuresOf(w) == {i \in Item : WaveOf[i] = w /\ pc[i] = "failed"}

\* wg.Wait returns and the results of the wave are collected; the next wave,
\* if any, starts with the items that are not blocked.
NextWave ==
    /\ wave =< LastWave
    /\ \A i \in Item : WaveOf[i] = wave => pc[i] \in Settled
    /\ wave' = wave + 1
    /\ firstErr' \in FirstError(FailuresOf(wave))
    /\ StartWave(wave')
    /\ UNCHANGED <<memory, draft, disk, late, ctx>>

-----------------------------------------------------------------------------
(* runExecutionWave: the goroutine of an item.                             *)

HoldsGlobal == {i \in Item : pc[i] \in {"host", "call", "lock", "write"}}
HoldsHost(h) == {i \in Item : pc[i] \in {"call", "lock", "write"} /\ HostOf[i] = h}

\* Mutant: every item takes one slot.
OneHostSlot(i) == 1

\* Mutant: an item that is not safe asks for more than its host has.
HostSlotsBeyond(i) == IF i \in Safe THEN 1 ELSE PerHost + 1

\* An item that is not safe takes every slot of its host.
HostSlots(i) == IF i \in Safe THEN 1 ELSE PerHost
HostInUse(h) ==
    Cardinality(HoldsHost(h) \cap Safe) + PerHost * Cardinality(HoldsHost(h) \ Safe)

AcquireGlobal(i) ==
    /\ pc[i] = "global"
    /\ ctx = "live"
    /\ Cardinality(HoldsGlobal) < Parallel
    /\ Goto(i, "host")
    /\ UNCHANGED <<wave, firstErr, memory, draft, disk, late, ctx>>

\* adopt and forget make no provider call.
AcquireHost(i) ==
    /\ pc[i] = "host"
    /\ ctx = "live"
    /\ HostInUse(HostOf[i]) + HostSlots(i) =< PerHost
    /\ Goto(i, IF Action[i] \in {"adopt", "forget"} THEN "lock" ELSE "call")
    /\ UNCHANGED <<wave, firstErr, memory, draft, disk, late, ctx>>

\* Semaphore.Acquire returns the context's error.
AcquireFails(i) ==
    /\ pc[i] \in {"global", "host"}
    /\ ctx = "cancelled"
    /\ Goto(i, "failed")
    /\ UNCHANGED <<wave, firstErr, memory, draft, disk, late, ctx>>

-----------------------------------------------------------------------------
(* executeItem, executeResourceStep and recordOperationOutputs.            *)

\* An operation without outputs and completion is done when it has run.
WritesState(i) ==
    CASE Action[i] = "check" -> FALSE
      [] Action[i] = "run"   -> Outputs[i] \cup Completes[i] # {}
      [] OTHER               -> TRUE

CallOk(i) ==
    /\ pc[i] = "call"
    /\ Goto(i, IF Action[i] = "run" /\ ~WritesState(i) THEN "ok" ELSE "lock")
    /\ UNCHANGED <<wave, firstErr, memory, draft, disk, late, ctx>>

CallFails(i) ==
    /\ pc[i] = "call"
    /\ Goto(i, "failed")
    /\ UNCHANGED <<wave, firstErr, memory, draft, disk, late, ctx>>

Record(st, new, deps) ==
    [st EXCEPT !.resources = @ \cup new,
               !.refs = [a \in Address |-> IF a \in new THEN deps ELSE @[a]]]

\* delete and removeStateDependencyReferences
Remove(st, i) ==
    [st EXCEPT !.resources = @ \ {i},
               !.refs = [a \in Address |-> IF a = i THEN {} ELSE @[a] \ {i}]]

\* The state after item i; the record of a script output has no dependencies.
Effect(i, st) ==
    CASE Action[i] \in Adds    -> Record(st, {i}, NodeDeps[i])
      [] Action[i] \in Removes -> Remove(st, i)
      [] OTHER                 -> Record(st, Outputs[i], {})

\* Mutant: no mutex.
StateNeverLocked(h) == TRUE

\* The host's mutex is free.
StateUnlocked(h) == \A j \in Item : HostOf[j] = h => pc[j] # "write"

\* Under the mutex the item copies the host's state, changes the copy and
\* PrepareWrite numbers it; a completed resource must have a record.
LockState(i) ==
    /\ pc[i] = "lock"
    /\ StateUnlocked(HostOf[i])
    /\ LET st == memory[HostOf[i]]
           changed == Effect(i, st)
       IN  IF ~WritesState(i)
             THEN Goto(i, "ok") /\ draft' = draft
           ELSE IF ~(Completes[i] \subseteq changed.resources)
             THEN Goto(i, "failed") /\ draft' = draft
           ELSE /\ Goto(i, "write")
                /\ draft' = [draft EXCEPT ![i] = [changed EXCEPT !.serial = @ + 1]]
    /\ UNCHANGED <<wave, firstErr, memory, disk, late, ctx>>

\* The item has its answer from Backend.Write and leaves the mutex.
WriteReturns(i, result) ==
    /\ pc[i] = "write"
    /\ Goto(i, result)
    /\ draft' = [draft EXCEPT ![i] = NoDraft]
    /\ UNCHANGED <<wave, firstErr, ctx>>

WriteOk(i) ==
    /\ WriteReturns(i, "ok")
    /\ disk' = [disk EXCEPT ![HostOf[i]] = draft[i]]
    /\ memory' = [memory EXCEPT ![HostOf[i]] = draft[i]]
    /\ UNCHANGED late

WriteFails(i) ==
    /\ WriteReturns(i, "failed")
    /\ UNCHANGED <<memory, disk, late>>

\* The script has replaced the file, but the call fails: the connection breaks
\* or the context is cancelled before the exit status arrives.
WriteAnswerLost(i) ==
    /\ WriteReturns(i, "failed")
    /\ disk' = [disk EXCEPT ![HostOf[i]] = draft[i]]
    /\ UNCHANGED <<memory, late>>

\* The call fails while the script is on its way: it runs later.
WriteDetached(i) ==
    /\ Cardinality(late) < MaxLate
    /\ WriteReturns(i, "failed")
    /\ late' = late \cup {[host |-> HostOf[i], state |-> draft[i], when |-> "due"]}
    /\ UNCHANGED <<memory, disk>>

LateWrite(w) ==
    /\ w \in late /\ w.when = "due"
    /\ late' = (late \ {w}) \cup {[w EXCEPT !.when = "done"]}
    /\ disk' = [disk EXCEPT ![w.host] = w.state]
    /\ UNCHANGED <<wave, pc, firstErr, memory, draft, ctx>>

-----------------------------------------------------------------------------
\* The user interrupts the run, or the lease monitor loses a lock.
Cancel ==
    /\ ctx = "live"
    /\ wave =< LastWave
    /\ ctx' = "cancelled"
    /\ UNCHANGED <<wave, pc, firstErr, memory, draft, disk, late>>

Write(i) == WriteOk(i) \/ WriteFails(i) \/ WriteAnswerLost(i) \/ WriteDetached(i)

Goroutine(i) ==
    \/ AcquireGlobal(i) \/ AcquireHost(i) \/ AcquireFails(i)
    \/ CallOk(i) \/ CallFails(i) \/ LockState(i) \/ Write(i)

Next ==
    \/ NextWave
    \/ \E i \in Item : Goroutine(i)
    \/ \E w \in late : LateWrite(w)
    \/ Cancel

Spec == Init /\ [][Next]_vars

\* Goroutines run, and provider calls and writes return.
LiveSpec == Spec /\ WF_vars(NextWave) /\ \A i \in Item : WF_vars(Goroutine(i))

-----------------------------------------------------------------------------
(* Properties.                                                             *)

TypeOK ==
    /\ wave \in 0..(LastWave + 1)
    /\ pc \in [Item -> PCs]
    /\ firstErr \in Item \cup {NoError}
    /\ memory \in [Host -> State]
    /\ draft \in [Item -> State]
    /\ disk \in [Host -> State]
    /\ late \subseteq [host: Host, state: State, when: {"due", "done"}]
    /\ ctx \in {"live", "cancelled"}

\* The items of the waves before this one are settled and the waves after it
\* have not begun.
WaveInv ==
    \A i \in Item :
        /\ WaveOf[i] < wave => pc[i] \in Settled
        /\ WaveOf[i] > wave => pc[i] = "pending"
        /\ WaveOf[i] = wave => pc[i] # "pending"

\* An item that has started has dependencies that succeeded; a blocked one has
\* a dependency that did not.
ContainInv ==
    \A i \in Item :
        /\ pc[i] \notin NotStarted => \A d \in DependsOn[i] : pc[d] = "ok"
        /\ pc[i] = "blocked" => Blocked(i)

\* What an item changes in the state is there: executeResourceStep has written
\* its record, or removed it and every reference to it.
OnRecord(i, st) ==
    CASE Action[i] \in Adds    -> i \in st.resources
      [] Action[i] \in Removes -> i \notin st.resources
                                    /\ \A a \in Address : i \notin st.refs[a]
      [] OTHER                 -> Outputs[i] \subseteq st.resources

\* A write that its call gave up has replaced the state file of host h.
Overwritten(h) == \E w \in late : w.host = h /\ w.when = "done"

\* The inductive invariant behind NoLostUpdate: what a settled item recorded is
\* in the engine's copy of the state and in every copy about to be written.
StateInv ==
    /\ \A i, j \in Item :
         pc[i] = "write" /\ pc[j] = "write" /\ HostOf[i] = HostOf[j] => i = j
    /\ \A i \in Item : pc[i] = "write" => OnRecord(i, draft[i])
    /\ \A i \in Item : pc[i] = "ok" =>
         /\ OnRecord(i, memory[HostOf[i]])
         /\ ~Overwritten(HostOf[i]) => OnRecord(i, disk[HostOf[i]])
         /\ \A j \in Item : pc[j] = "write" /\ HostOf[j] = HostOf[i] => OnRecord(i, draft[j])

\* What DependencyRun sees of an item.
Status == [i \in Item |-> IF pc[i] = "pending" THEN "waiting"
                          ELSE IF pc[i] \in Settled THEN pc[i] ELSE "running"]
Run == INSTANCE DependencyRun WITH status <- Status

\* runExecutionWaves implements DependencyRun: an item starts only when all it
\* depends on has succeeded and is blocked only by a failure, across waves.
RunSafety == Run!Safety

\* ... and every item is settled in the end: no goroutine waits for a slot or a
\* mutex for ever, and cancelling the run does not hang it.
RunLiveness == Run!Liveness

\* At any time and in any interleaving, an item that is not safe to run in
\* parallel is the only one at work on its host, and no more than --parallel
\* items are at work.
UnsafeRunsAlone ==
    /\ \A h \in Host : \A i \in HoldsHost(h) \ Safe : HoldsHost(h) = {i}
    /\ Cardinality(UNION {HoldsHost(h) : h \in Host}) =< Parallel

\* The state file keeps what every successful item wrote, whatever other items
\* of the host write, fail to write or write without learning of it, until a
\* write lands whose call had given it up.
NoLostUpdate ==
    \A i \in Item : pc[i] = "ok" /\ ~Overwritten(HostOf[i]) => OnRecord(i, disk[HostOf[i]])

\* When runExecutionWaves returns no error, every item has succeeded and the
\* state files hold exactly the engine's states, one serial per write.
SuccessIsComplete ==
    wave = LastWave + 1 /\ firstErr = NoError =>
        /\ \A i \in Item : pc[i] = "ok" /\ OnRecord(i, disk[HostOf[i]])
        /\ disk = memory /\ late = {}
        /\ \A h \in Host : disk[h].serial =
              Prior[h].serial + Cardinality({i \in Item : HostOf[i] = h /\ WritesState(i)})
=============================================================================
