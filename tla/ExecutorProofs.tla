--------------------------- MODULE ExecutorProofs ---------------------------
(* Proofs about the executor, for every plan, every number of hosts and    *)
(* every limit on parallelism.                                             *)
EXTENDS Executor, FiniteSetTheorems, TLAPS

USE DEF Adds, Removes, PCs, NotStarted, Settled

-----------------------------------------------------------------------------
(* Types.                                                                  *)

\* The state an item prepares is a state.
LEMMA EffectType ==
    ASSUME NEW i \in Item, NEW st \in State
    PROVE  /\ Effect(i, st) \in State
           /\ [Effect(i, st) EXCEPT !.serial = @ + 1] \in State
<1>1. NodeDeps[i] \subseteq Address /\ Outputs[i] \subseteq Address /\ i \in Address
  BY ConstantsAssumption
<1>2. \A new, deps \in SUBSET Address : Record(st, new, deps) \in State
  BY DEF Record, State
<1>3. Remove(st, i) \in State
  BY <1>1 DEF Remove, State
<1>4. Effect(i, st) \in State
  BY <1>1, <1>2, <1>3 DEF Effect
<1> QED
  BY <1>4 DEF State

LEMMA TypeInit == Init => TypeOK
<1>1. NoDraft \in State
  BY DEF NoDraft, NoRefs, State
<1> QED
  BY <1>1, ConstantsAssumption DEF Init, TypeOK

LEMMA TypeNext == TypeOK /\ [Next]_vars => TypeOK'
<1> SUFFICES ASSUME TypeOK, [Next]_vars PROVE TypeOK'
  OBVIOUS
<1> USE DEF TypeOK
<1>0. NoDraft \in State
  BY DEF NoDraft, NoRefs, State
<1>1. CASE NextWave
  <2>1. wave' \in 0..(LastWave + 1)
    BY <1>1, ConstantsAssumption DEF NextWave
  <2>2. pc' \in [Item -> PCs]
    BY <1>1 DEF NextWave, StartWave
  <2>3. firstErr' \in Item \cup {NoError}
    BY <1>1 DEF NextWave, FirstError, FailuresOf
  <2> QED
    BY <1>1, <2>1, <2>2, <2>3 DEF NextWave
<1>2. ASSUME NEW i \in Item, AcquireGlobal(i) \/ AcquireHost(i) \/ AcquireFails(i)
                              \/ CallOk(i) \/ CallFails(i)
      PROVE  TypeOK'
  BY <1>2 DEF AcquireGlobal, AcquireHost, AcquireFails, CallOk, CallFails, Goto
<1>3. ASSUME NEW i \in Item, LockState(i) PROVE TypeOK'
  <2>1. memory[HostOf[i]] \in State
    BY ConstantsAssumption
  <2>2. [Effect(i, memory[HostOf[i]]) EXCEPT !.serial = @ + 1] \in State
    BY <2>1, EffectType
  <2>3. draft' \in [Item -> State] /\ pc' \in [Item -> PCs]
    BY <1>3, <2>2 DEF LockState, Goto
  <2> QED
    BY <1>3, <2>3 DEF LockState
<1>4. ASSUME NEW i \in Item, Write(i) PROVE TypeOK'
  <2>1. HostOf[i] \in Host /\ draft[i] \in State
    BY ConstantsAssumption
  <2>2. WriteReturns(i, "ok") \/ WriteReturns(i, "failed")
    BY <1>4 DEF Write, WriteOk, WriteFails, WriteAnswerLost, WriteDetached
  <2>3. /\ pc' \in [Item -> PCs] /\ draft' \in [Item -> State]
        /\ UNCHANGED <<wave, firstErr, ctx>>
    BY <2>2, <1>0 DEF WriteReturns, Goto
  <2>4. /\ disk' \in [Host -> State] /\ memory' \in [Host -> State]
        /\ late' \subseteq [host: Host, state: State, when: {"due", "done"}]
    BY <1>4, <2>1 DEF Write, WriteOk, WriteFails, WriteAnswerLost, WriteDetached
  <2> QED
    BY <2>3, <2>4
<1>5. ASSUME NEW w \in late, LateWrite(w) PROVE TypeOK'
  BY <1>5 DEF LateWrite
<1>6. CASE Cancel
  BY <1>6 DEF Cancel
<1>7. CASE UNCHANGED vars
  BY <1>7 DEF vars
<1> QED
  BY <1>1, <1>2, <1>3, <1>4, <1>5, <1>6, <1>7 DEF Next, Goroutine

\* The executor's variables keep their types, whatever plan it runs.
THEOREM TypeCorrect == Spec => []TypeOK
<1> QED
  BY TypeInit, TypeNext, PTL DEF Spec

-----------------------------------------------------------------------------
(* Waves and failure propagation.                                          *)

\* What a goroutine can do to the control points.
LEMMA GoroutineMoves ==
    ASSUME TypeOK, NEW i \in Item, Goroutine(i)
    PROVE  /\ wave' = wave
           /\ pc[i] \in {"global", "host", "call", "lock", "write"}
           /\ \E p \in {"host", "call", "lock", "write", "ok", "failed"} :
                 pc' = [pc EXCEPT ![i] = p]
<1> QED
  BY DEF Goroutine, AcquireGlobal, AcquireHost, AcquireFails, CallOk, CallFails,
         LockState, Write, WriteOk, WriteFails, WriteAnswerLost, WriteDetached,
         WriteReturns, Goto

LEMMA WaveInit == Init => WaveInv /\ ContainInv
<1> QED
  BY ConstantsAssumption DEF Init, WaveInv, ContainInv

LEMMA WaveNext ==
    TypeOK /\ WaveInv /\ ContainInv /\ [Next]_vars => WaveInv' /\ ContainInv'
<1> SUFFICES ASSUME TypeOK, WaveInv, ContainInv, [Next]_vars
             PROVE  WaveInv' /\ ContainInv'
  OBVIOUS
<1> USE DEF TypeOK, WaveInv, ContainInv, Blocked
<1>1. CASE NextWave
  <2>1. \A i \in Item : WaveOf[i] \in Int
    BY ConstantsAssumption
  <2>2. \A i \in Item : WaveOf[i] =< wave => pc[i] \in Settled
    BY <1>1, <2>1, ConstantsAssumption DEF NextWave
  <2>3. /\ wave' = wave + 1
        /\ \A i \in Item : pc'[i] = IF WaveOf[i] # wave + 1 THEN pc[i]
                                    ELSE IF Blocked(i) THEN "blocked" ELSE "global"
    BY <1>1 DEF NextWave, StartWave
  <2>4. WaveInv'
    BY <2>1, <2>2, <2>3, ConstantsAssumption
  <2>5. ASSUME NEW i \in Item, pc'[i] # "pending"
        PROVE  \A d \in DependsOn[i] : d \in Item /\ pc'[d] = pc[d] /\ pc[d] \in Settled
    <3>1. WaveOf[i] =< wave + 1
      BY <2>1, <2>3, <2>5, ConstantsAssumption
    <3>2. \A d \in DependsOn[i] : d \in Item /\ WaveOf[d] =< wave
      BY <2>1, <3>1, ConstantsAssumption, WavesAssumption
    <3> QED
      BY <2>1, <2>2, <2>3, <3>2, ConstantsAssumption
  <2>6. ContainInv'
    BY <2>3, <2>5
  <2> QED
    BY <2>4, <2>6
<1>2. ASSUME NEW i \in Item, Goroutine(i) PROVE WaveInv' /\ ContainInv'
  <2>1. /\ wave' = wave
        /\ pc[i] \in {"global", "host", "call", "lock", "write"}
    BY <1>2, GoroutineMoves
  <2>2. PICK p \in {"host", "call", "lock", "write", "ok", "failed"} :
                pc' = [pc EXCEPT ![i] = p]
    BY <1>2, GoroutineMoves
  <2>3. WaveOf[i] = wave
    <3>1. WaveOf[i] \in Int /\ wave \in Int
      BY ConstantsAssumption
    <3>2. ~(WaveOf[i] < wave) /\ ~(WaveOf[i] > wave)
      BY <2>1
    <3> QED
      BY <3>1, <3>2
  <2>4. WaveInv'
    BY <2>1, <2>2, <2>3, ConstantsAssumption
  <2>5. \A j \in Item : \A d \in DependsOn[j] : d \in Item
    BY ConstantsAssumption
  <2>6. ContainInv'
    BY <2>1, <2>2, <2>5
  <2> QED
    BY <2>4, <2>6
<1>3. ASSUME NEW w \in late, LateWrite(w) PROVE WaveInv' /\ ContainInv'
  BY <1>3 DEF LateWrite
<1>4. CASE Cancel
  BY <1>4 DEF Cancel
<1>5. CASE UNCHANGED vars
  BY <1>5 DEF vars
<1> QED
  BY <1>1, <1>2, <1>3, <1>4, <1>5 DEF Next

\* Waves are barriers: no item of a later wave begins before every item of
\* the earlier ones is settled.
THEOREM WavesCorrect == Spec => []WaveInv
<1> QED
  BY TypeInit, TypeNext, WaveInit, WaveNext, PTL DEF Spec

\* No failure escapes: an item whose dependency did not succeed never starts.
THEOREM ContainCorrect == Spec => []ContainInv
<1> QED
  BY TypeInit, TypeNext, WaveInit, WaveNext, PTL DEF Spec

-----------------------------------------------------------------------------
(* The executor implements DependencyRun.                                  *)

LEMMA RunInit == Init => Run!Init
<1> QED
  BY DEF Init, Run!Init, Status

LEMMA RunNext ==
    TypeOK /\ WaveInv /\ [Next]_vars => [Run!Next]_Status
<1> SUFFICES ASSUME TypeOK, WaveInv, [Next]_vars
             PROVE  Run!Next \/ Status' = Status
  OBVIOUS
<1> USE DEF TypeOK, WaveInv, Status
<1>0. Status' \in [Item -> Run!Statuses]
  <2>1. pc' \in [Item -> PCs]
    BY TypeNext
  <2> QED
    BY <2>1 DEF Run!Statuses, Run!Settled
<1>1. CASE NextWave
  <2>1. \A i \in Item : WaveOf[i] \in Int
    BY ConstantsAssumption
  <2>2. \A i \in Item : WaveOf[i] =< wave => pc[i] \in Settled
    BY <1>1, <2>1, ConstantsAssumption DEF NextWave
  <2>3. \A i \in Item : pc'[i] = IF WaveOf[i] # wave + 1 THEN pc[i]
                                 ELSE IF Blocked(i) THEN "blocked" ELSE "global"
    BY <1>1 DEF NextWave, StartWave
  <2>4. ASSUME NEW i \in Item, Status'[i] # Status[i]
        PROVE  Run!MayBecome(i, Status'[i])
    <3>1. WaveOf[i] = wave + 1 /\ pc[i] = "pending"
      BY <2>1, <2>3, <2>4, ConstantsAssumption
    <3>2. \A d \in DependsOn[i] : d \in Item /\ pc[d] \in Settled
      BY <2>1, <2>2, <3>1, ConstantsAssumption, WavesAssumption
    <3>3. CASE Blocked(i)
      BY <2>3, <3>1, <3>2, <3>3 DEF Blocked, Run!MayBecome
    <3>4. CASE ~Blocked(i)
      BY <2>3, <3>1, <3>2, <3>4 DEF Blocked, Run!MayBecome
    <3> QED
      BY <3>3, <3>4
  <2> QED
    BY <1>0, <2>4 DEF Run!Next
<1>2. ASSUME NEW i \in Item, Goroutine(i) PROVE Run!Next
  <2>1. pc[i] \in {"global", "host", "call", "lock", "write"}
    BY <1>2, GoroutineMoves
  <2>2. PICK p \in {"host", "call", "lock", "write", "ok", "failed"} :
                pc' = [pc EXCEPT ![i] = p]
    BY <1>2, GoroutineMoves
  <2>3. \A j \in Item : Status'[j] # Status[j] => Run!MayBecome(j, Status'[j])
    BY <2>1, <2>2 DEF Run!MayBecome
  <2> QED
    BY <1>0, <2>3 DEF Run!Next
<1>3. ASSUME NEW w \in late, LateWrite(w) PROVE Status' = Status
  BY <1>3 DEF LateWrite
<1>4. CASE Cancel
  BY <1>4 DEF Cancel
<1>5. CASE UNCHANGED vars
  BY <1>5 DEF vars
<1> QED
  BY <1>1, <1>2, <1>3, <1>4, <1>5 DEF Next

\* runExecutionWaves, with its waves, semaphores, cancellation and failing
\* writes, implements the safety part of DependencyRun.
THEOREM RunSafetyCorrect == Spec => RunSafety
<1> QED
  BY TypeInit, TypeNext, WaveInit, WaveNext, RunInit, RunNext, PTL
  DEF Spec, RunSafety, Run!Safety

-----------------------------------------------------------------------------
(* State writes.                                                           *)

\* What an item records is in the state it prepares, and preparing it loses
\* nothing that another item recorded.
LEMMA EffectRecords ==
    ASSUME NEW i \in Item, NEW st \in State
    PROVE  OnRecord(i, [Effect(i, st) EXCEPT !.serial = @ + 1])
<1>1. NodeDeps[i] \subseteq Address /\ Outputs[i] \subseteq Address /\ i \in Address
  BY ConstantsAssumption
<1>2. CASE Action[i] \in Adds
  BY <1>1, <1>2 DEF OnRecord, Effect, Record, State
<1>3. CASE Action[i] \in Removes
  BY <1>1, <1>3 DEF OnRecord, Effect, Remove, State
<1>4. CASE Action[i] \notin Adds /\ Action[i] \notin Removes
  BY <1>1, <1>4 DEF OnRecord, Effect, Record, State
<1> QED
  BY <1>2, <1>3, <1>4

LEMMA EffectKeeps ==
    ASSUME NEW i \in Item, NEW j \in Item, i # j, NEW st \in State,
           OnRecord(i, st), j \notin DependsOn[i]
    PROVE  OnRecord(i, [Effect(j, st) EXCEPT !.serial = @ + 1])
<1> DEFINE new == [Effect(j, st) EXCEPT !.serial = @ + 1]
<1> SUFFICES OnRecord(i, new)
  OBVIOUS
<1>1. /\ NodeDeps[j] \subseteq Address /\ Outputs[j] \subseteq Address
      /\ i \in Address /\ j \in Address /\ Outputs[i] \subseteq Address
      /\ Action[i] \in Actions
  BY ConstantsAssumption
<1>2. CASE Action[j] \in Adds
  <2>1. new.resources = st.resources \cup {j}
    BY <1>1, <1>2 DEF Effect, Record, State
  <2>2. \A a \in Address : new.refs[a] = IF a = j THEN NodeDeps[j] ELSE st.refs[a]
    BY <1>1, <1>2 DEF Effect, Record, State
  <2>3. Action[i] \in Removes => i \notin NodeDeps[j]
    BY <1>2, PlanAssumption
  <2> HIDE DEF new
  <2> QED
    BY <2>1, <2>2, <2>3 DEF OnRecord
<1>3. CASE Action[j] \in Removes
  <2>1. new.resources = st.resources \ {j}
    BY <1>1, <1>3 DEF Effect, Remove, State
  <2>2. \A a \in Address : new.refs[a] = IF a = j THEN {} ELSE st.refs[a] \ {j}
    BY <1>1, <1>3 DEF Effect, Remove, State
  <2>3. j \notin Outputs[i]
    BY <1>3, PlanAssumption
  <2> HIDE DEF new
  <2> QED
    BY <2>1, <2>2, <2>3 DEF OnRecord
<1>4. CASE Action[j] \notin Adds /\ Action[j] \notin Removes
  <2>1. new.resources = st.resources \cup Outputs[j]
    BY <1>1, <1>4 DEF Effect, Record, State
  <2>2. \A a \in Address : new.refs[a] = IF a \in Outputs[j] THEN {} ELSE st.refs[a]
    BY <1>1, <1>4 DEF Effect, Record, State
  <2>3. Action[i] \in Removes => i \notin Outputs[j]
    BY PlanAssumption
  <2> HIDE DEF new
  <2> QED
    BY <2>1, <2>2, <2>3 DEF OnRecord
<1> QED
  BY <1>2, <1>3, <1>4

LEMMA StateInit == Init => StateInv
<1> QED
  BY DEF Init, StateInv

LEMMA StateNext ==
    TypeOK /\ WaveInv /\ ContainInv /\ StateInv /\ [Next]_vars => StateInv'
<1> SUFFICES ASSUME TypeOK, WaveInv, ContainInv, StateInv, [Next]_vars PROVE StateInv'
  OBVIOUS
<1>0. HostOf \in [Item -> Host]
  BY ConstantsAssumption
<1> USE DEF TypeOK
<1>1. CASE NextWave
  <2>1. \A i \in Item : /\ pc'[i] = "write" <=> pc[i] = "write"
                        /\ pc'[i] = "ok" <=> pc[i] = "ok"
    <3> TAKE i \in Item
    <3>1. WaveOf[i] = wave + 1 => pc[i] = "pending"
      BY ConstantsAssumption DEF WaveInv
    <3>2. pc'[i] = IF WaveOf[i] # wave + 1 THEN pc[i]
                   ELSE IF Blocked(i) THEN "blocked" ELSE "global"
      BY <1>1 DEF NextWave, StartWave
    <3> QED
      BY <3>1, <3>2
  <2> QED
    BY <1>1, <2>1 DEF NextWave, StateInv, Overwritten
<1>2. ASSUME NEW i \in Item, AcquireGlobal(i) \/ AcquireHost(i) \/ AcquireFails(i)
                              \/ CallFails(i)
      PROVE  StateInv'
  BY <1>2 DEF AcquireGlobal, AcquireHost, AcquireFails, CallFails, Goto, StateInv,
                   Overwritten
<1>3. ASSUME NEW i \in Item, CallOk(i) PROVE StateInv'
  <2>1. CASE pc' = [pc EXCEPT ![i] = "lock"]
    BY <1>3, <2>1 DEF CallOk, StateInv, Overwritten
  <2>2. CASE pc' = [pc EXCEPT ![i] = "ok"] /\ Action[i] = "run" /\ Outputs[i] = {}
    <3>1. \A st : OnRecord(i, st)
      BY <2>2 DEF OnRecord
    <3> QED
      BY <1>3, <2>2, <3>1 DEF CallOk, StateInv, Overwritten
  <2> QED
    BY <1>3, <2>1, <2>2 DEF CallOk, Goto, WritesState
<1>4. ASSUME NEW i \in Item, LockState(i) PROVE StateInv'
  <2> DEFINE st == memory[HostOf[i]]
             new == [Effect(i, st) EXCEPT !.serial = @ + 1]
  <2>0. st \in State /\ UNCHANGED <<memory, disk, late>> /\ pc[i] = "lock"
    BY <1>0, <1>4 DEF LockState
  <2>1. CASE pc' = [pc EXCEPT ![i] = "failed"] /\ draft' = draft
    BY <2>0, <2>1 DEF StateInv, Overwritten
  <2>2. CASE pc' = [pc EXCEPT ![i] = "ok"] /\ draft' = draft /\ ~WritesState(i)
    <3>1. Outputs[i] = {} /\ Action[i] \notin Adds /\ Action[i] \notin Removes
      BY <2>2, PlanAssumption DEF WritesState
    <3>2. \A s : OnRecord(i, s)
      BY <3>1 DEF OnRecord
    <3> QED
      BY <2>0, <2>2, <3>2 DEF StateInv, Overwritten
  <2>3. CASE pc' = [pc EXCEPT ![i] = "write"] /\ draft' = [draft EXCEPT ![i] = new]
    <3>1. OnRecord(i, new)
      BY <2>0, EffectRecords
    <3>2. ASSUME NEW j \in Item, pc[j] = "ok", HostOf[j] = HostOf[i]
          PROVE  OnRecord(j, new)
      <4>1. j # i /\ i \notin DependsOn[j] /\ OnRecord(j, st)
        BY <2>0, <3>2 DEF ContainInv, StateInv
      <4> QED
        BY <2>0, <4>1, EffectKeeps
    <3>3. \A j \in Item : HostOf[j] = HostOf[i] => pc[j] # "write"
      BY <1>4 DEF LockState, StateUnlocked
    <3> HIDE DEF new
    <3> QED
      BY <2>0, <2>3, <3>1, <3>2, <3>3 DEF StateInv, Overwritten
  <2> QED
    BY <1>4, <2>1, <2>2, <2>3 DEF LockState, Goto
<1>5. ASSUME NEW i \in Item, Write(i) PROVE StateInv'
  <2>0. \A h \in Host : Overwritten(h)' <=> Overwritten(h)
    BY <1>5 DEF Write, WriteOk, WriteFails, WriteAnswerLost, WriteDetached, Overwritten
  <2>1. /\ pc[i] = "write" /\ draft' = [draft EXCEPT ![i] = NoDraft]
        /\ \/ pc' = [pc EXCEPT ![i] = "ok"]
           \/ pc' = [pc EXCEPT ![i] = "failed"]
    BY <1>5 DEF Write, WriteOk, WriteFails, WriteAnswerLost, WriteDetached, WriteReturns, Goto
  <2>2. \A j \in Item : HostOf[j] = HostOf[i] /\ j # i => pc[j] # "write"
    BY <2>1 DEF StateInv
  <2>3. OnRecord(i, draft[i])
    BY <2>1 DEF StateInv
  <2>4. \A j \in Item : pc[j] = "ok" =>
           /\ OnRecord(j, memory[HostOf[j]])
           /\ ~Overwritten(HostOf[j]) => OnRecord(j, disk[HostOf[j]])
           /\ HostOf[j] = HostOf[i] => OnRecord(j, draft[i])
    BY <2>1 DEF StateInv
  <2>5. CASE pc' = [pc EXCEPT ![i] = "failed"]
    <3>1. memory' = memory
      BY <1>5, <2>1, <2>5 DEF Write, WriteOk, WriteFails, WriteAnswerLost, WriteDetached,
                              WriteReturns, Goto
    <3>2. disk' = disk \/ disk' = [disk EXCEPT ![HostOf[i]] = draft[i]]
      BY <1>5 DEF Write, WriteOk, WriteFails, WriteAnswerLost, WriteDetached
    <3>3. \A j \in Item : pc[j] = "ok" =>
             (~Overwritten(HostOf[j]) => OnRecord(j, disk'[HostOf[j]]))
      BY <1>0, <2>4, <3>2
    <3>4. \A j \in Item : Overwritten(HostOf[j])' <=> Overwritten(HostOf[j])
      BY <1>0, <2>0
    <3> QED
      BY <2>1, <2>4, <2>5, <3>1, <3>3, <3>4 DEF StateInv
  <2>6. CASE pc' = [pc EXCEPT ![i] = "ok"]
    <3>1. /\ memory' = [memory EXCEPT ![HostOf[i]] = draft[i]]
          /\ disk' = [disk EXCEPT ![HostOf[i]] = draft[i]]
      BY <1>5, <2>1, <2>6 DEF Write, WriteOk, WriteFails, WriteAnswerLost, WriteDetached,
                              WriteReturns, Goto
    <3>2. \A j \in Item : pc'[j] = "ok" =>
             /\ OnRecord(j, memory'[HostOf[j]])
             /\ ~Overwritten(HostOf[j]) => OnRecord(j, disk'[HostOf[j]])
      BY <1>0, <2>3, <2>4, <2>6, <3>1
    <3>3. \A j \in Item : Overwritten(HostOf[j])' <=> Overwritten(HostOf[j])
      BY <1>0, <2>0
    <3> QED
      BY <2>1, <2>2, <2>4, <2>6, <3>2, <3>3 DEF StateInv
  <2> QED
    BY <2>1, <2>5, <2>6
<1>6. ASSUME NEW w \in late, LateWrite(w) PROVE StateInv'
  <2>1. /\ UNCHANGED <<pc, memory, draft>>
        /\ disk' = [disk EXCEPT ![w.host] = w.state]
    BY <1>6 DEF LateWrite
  <2>2. /\ [w EXCEPT !.when = "done"] \in late'
        /\ [w EXCEPT !.when = "done"].host = w.host
        /\ [w EXCEPT !.when = "done"].when = "done"
    BY <1>6 DEF LateWrite
  <2>3. Overwritten(w.host)'
    BY <2>2 DEF Overwritten
  <2>4. \A h \in Host : Overwritten(h) => Overwritten(h)'
    BY <1>6 DEF LateWrite, Overwritten
  <2>5. \A j \in Item : pc[j] = "ok" /\ ~Overwritten(HostOf[j])' => OnRecord(j, disk'[HostOf[j]])
    BY <1>0, <2>1, <2>3, <2>4 DEF StateInv
  <2> QED
    BY <2>1, <2>5 DEF StateInv
<1>7. CASE Cancel
  BY <1>7 DEF Cancel, StateInv, Overwritten
<1>8. CASE UNCHANGED vars
  BY <1>8 DEF vars, StateInv, Overwritten
<1> QED
  BY <1>1, <1>2, <1>3, <1>4, <1>5, <1>6, <1>7, <1>8 DEF Next, Goroutine

\* The state file keeps what every successful item wrote, in every interleaving,
\* although answers are lost, until a write lands whose call had given it up.
THEOREM NoLostUpdateCorrect == Spec => []NoLostUpdate
<1>1. StateInv => NoLostUpdate
  BY DEF StateInv, NoLostUpdate
<1> QED
  BY <1>1, TypeInit, TypeNext, WaveInit, WaveNext, StateInit, StateNext, PTL DEF Spec

-----------------------------------------------------------------------------
(* Slots.                                                                  *)

HasGlobal == {"host", "call", "lock", "write"}
HasHost == {"call", "lock", "write"}

\* The holders of slots fit: an item that is not safe shares its host with
\* nobody, and the global semaphore is not overdrawn.
SlotInv ==
    /\ \A i, j \in Item : pc[i] \in HasHost /\ pc[j] \in HasHost /\ HostOf[i] = HostOf[j] /\ i \notin Safe
                             => i = j
    /\ Cardinality(HoldsGlobal) =< Parallel

LEMMA FiniteItems ==
    ASSUME NEW S \in SUBSET Item
    PROVE  IsFiniteSet(S) /\ Cardinality(S) \in Nat /\ (Cardinality(S) = 0 <=> S = {})
  BY FiniteAssumption, FS_Subset, FS_CardinalityType, FS_EmptySet

LEMMA SlotInit == Init => SlotInv
<1> SUFFICES ASSUME Init PROVE SlotInv
  OBVIOUS
<1>1. HoldsGlobal = {}
  BY DEF Init, HoldsGlobal
<1>2. Cardinality(HoldsGlobal) = 0
  BY <1>1, FS_EmptySet
<1> QED
  BY <1>2, ConstantsAssumption DEF Init, SlotInv, HasHost

\* A step after which nobody holds a slot who held none before.
LEMMA NoNewHolder ==
    ASSUME SlotInv,
           \A i \in Item : /\ pc'[i] \in HasGlobal => pc[i] \in HasGlobal
                           /\ pc'[i] \in HasHost => pc[i] \in HasHost
    PROVE  SlotInv'
<1>1. HoldsGlobal' \subseteq HoldsGlobal /\ HoldsGlobal \subseteq Item
  BY DEF HoldsGlobal, HasGlobal
<1>2. Cardinality(HoldsGlobal') =< Cardinality(HoldsGlobal)
  BY <1>1, FiniteItems, FS_Subset
<1>3. Cardinality(HoldsGlobal') \in Nat /\ Cardinality(HoldsGlobal) \in Nat /\ Parallel \in Nat
  BY <1>1, FiniteItems, ConstantsAssumption
<1> QED
  BY <1>2, <1>3 DEF SlotInv

LEMMA SlotNext == TypeOK /\ WaveInv /\ SlotInv /\ [Next]_vars => SlotInv'
<1> SUFFICES ASSUME TypeOK, WaveInv, SlotInv, [Next]_vars PROVE SlotInv'
  OBVIOUS
<1> USE DEF TypeOK, HasGlobal, HasHost
<1>1. CASE NextWave
  <2>1. \A i \in Item : pc'[i] = pc[i] \/ pc'[i] \in {"blocked", "global"}
    BY <1>1 DEF NextWave, StartWave
  <2> QED
    BY <2>1, NoNewHolder
<1>2. ASSUME NEW i \in Item, AcquireGlobal(i) PROVE SlotInv'
  <2>1. pc' = [pc EXCEPT ![i] = "host"] /\ pc[i] = "global" /\ Cardinality(HoldsGlobal) < Parallel
    BY <1>2 DEF AcquireGlobal, Goto
  <2>2. HoldsGlobal' = HoldsGlobal \cup {i} /\ i \notin HoldsGlobal /\ HoldsGlobal \subseteq Item
    BY <2>1 DEF HoldsGlobal
  <2>3. Cardinality(HoldsGlobal') = Cardinality(HoldsGlobal) + 1
    BY <2>2, FiniteItems, FS_AddElement
  <2>4. Cardinality(HoldsGlobal) \in Nat /\ Parallel \in Nat
    BY <2>2, FiniteItems, ConstantsAssumption
  <2> QED
    BY <2>1, <2>3, <2>4 DEF SlotInv
<1>3. ASSUME NEW i \in Item, AcquireHost(i) PROVE SlotInv'
  <2> DEFINE others == HoldsHost(HostOf[i])
  <2>1. /\ pc[i] = "host" /\ HostInUse(HostOf[i]) + HostSlots(i) =< PerHost
        /\ \E p \in {"lock", "call"} : pc' = [pc EXCEPT ![i] = p]
    BY <1>3 DEF AcquireHost, Goto
  <2>2. /\ Cardinality(others \cap Safe) \in Nat /\ Cardinality(others \ Safe) \in Nat
        /\ Cardinality(others \cap Safe) = 0 <=> others \cap Safe = {}
        /\ Cardinality(others \ Safe) = 0 <=> others \ Safe = {}
    BY FiniteItems DEF HoldsHost
  <2>3. others \ Safe = {}
    <3>1. Cardinality(others \ Safe) # 0 => PerHost * Cardinality(others \ Safe) >= PerHost
      BY <2>2, ConstantsAssumption
    <3>2. HostSlots(i) >= 1 /\ HostSlots(i) \in Nat /\ PerHost \in Nat
      BY ConstantsAssumption DEF HostSlots
    <3>3. PerHost * Cardinality(others \ Safe) \in Nat
      BY <2>2, <3>2
    <3> HIDE DEF others
    <3> QED
      BY <2>1, <2>2, <3>1, <3>2, <3>3 DEF HostInUse, others
  <2>4. i \notin Safe => others \cap Safe = {}
    <3>1. PerHost * Cardinality(others \ Safe) = 0
      BY <2>2, <2>3, ConstantsAssumption
    <3>2. i \notin Safe => Cardinality(others \cap Safe) + PerHost =< PerHost
      BY <2>1, <2>2, <3>1, ConstantsAssumption DEF HostInUse, HostSlots
    <3> QED
      BY <2>2, <3>2, ConstantsAssumption
  <2>5. \A j \in Item : pc[j] \in HasHost /\ HostOf[j] = HostOf[i] => j \in others
    BY DEF HoldsHost
  <2>6. \A j \in Item : pc[j] \in HasHost /\ HostOf[j] = HostOf[i] => j \in Safe /\ i \in Safe
    BY <2>3, <2>4, <2>5
  <2>7. HoldsGlobal' = HoldsGlobal
    BY <2>1 DEF HoldsGlobal
  <2> HIDE DEF others
  <2> QED
    BY <2>1, <2>6, <2>7 DEF SlotInv
<1>4. ASSUME NEW i \in Item, AcquireFails(i) \/ CallOk(i) \/ CallFails(i) \/ LockState(i) \/ Write(i)
      PROVE  SlotInv'
  <2>1. \/ pc' = [pc EXCEPT ![i] = "failed"] \/ pc' = [pc EXCEPT ![i] = "ok"]
        \/ pc[i] \in HasHost /\ \E p \in HasHost : pc' = [pc EXCEPT ![i] = p]
    BY <1>4 DEF AcquireFails, CallOk, CallFails, LockState, Write, WriteOk, WriteFails, WriteAnswerLost,
                WriteDetached, WriteReturns, Goto
  <2> QED
    BY <2>1, NoNewHolder
<1>5. CASE UNCHANGED pc
  BY <1>5, NoNewHolder
<1> QED
  BY <1>1, <1>2, <1>3, <1>4, <1>5 DEF Next, Goroutine, LateWrite, Cancel, vars

\* For every plan and all limits: whoever is not safe to run in parallel is
\* alone at work on its host (Acquire of the host's semaphore), and the global
\* semaphore bounds the work.
THEOREM UnsafeRunsAloneCorrect == Spec => []UnsafeRunsAlone
<1>1. TypeOK /\ SlotInv => UnsafeRunsAlone
  <2> SUFFICES ASSUME TypeOK, SlotInv PROVE UnsafeRunsAlone
    OBVIOUS
  <2>1. \A h \in Host : \A i \in HoldsHost(h) \ Safe : HoldsHost(h) = {i}
    BY DEF SlotInv, HoldsHost, HasHost
  <2>2. UNION {HoldsHost(h) : h \in Host} \subseteq HoldsGlobal /\ HoldsGlobal \subseteq Item
    BY DEF HoldsHost, HoldsGlobal
  <2>3. Cardinality(UNION {HoldsHost(h) : h \in Host}) =< Cardinality(HoldsGlobal)
    BY <2>2, FiniteItems, FS_Subset
  <2>4. /\ Cardinality(UNION {HoldsHost(h) : h \in Host}) \in Nat /\ Cardinality(HoldsGlobal) \in Nat
        /\ Parallel \in Nat
    BY <2>2, FiniteItems, ConstantsAssumption
  <2> QED
    BY <2>1, <2>3, <2>4 DEF SlotInv, UnsafeRunsAlone
<1> QED
  BY <1>1, TypeInit, TypeNext, WaveInit, WaveNext, SlotInit, SlotNext, PTL DEF Spec

-----------------------------------------------------------------------------
(* Success.                                                                *)

\* A blocked item has a failure in an earlier wave behind it, a failure of an
\* earlier wave is in firstErr, and where the engine's state and the file differ,
\* or a write is or was under way on its own, an item of the host has failed.
FailInv ==
    /\ \A i \in Item : pc[i] = "blocked" => \E j \in Item : pc[j] = "failed" /\ WaveOf[j] < WaveOf[i]
    /\ \A i \in Item : pc[i] = "failed" /\ WaveOf[i] < wave => firstErr # NoError
    /\ \A h \in Host : disk[h] # memory[h] \/ (\E w \in late : w.host = h)
                          => \E i \in Item : HostOf[i] = h /\ pc[i] = "failed"

\* The items that have written the state of a host.
Written(h) == {i \in Item : HostOf[i] = h /\ WritesState(i) /\ pc[i] = "ok"}

\* The engine's state has one serial more for every item that wrote it, and the
\* state about to be written is the next.
CountInv ==
    /\ \A i \in Item : pc[i] = "write" =>
         WritesState(i) /\ draft[i].serial = memory[HostOf[i]].serial + 1
    /\ \A h \in Host : memory[h].serial = Prior[h].serial + Cardinality(Written(h))

LEMMA FailInit == Init => FailInv
  BY ConstantsAssumption DEF Init, FailInv

LEMMA FailNext == TypeOK /\ WaveInv /\ FailInv /\ [Next]_vars => FailInv'
<1> SUFFICES ASSUME TypeOK, WaveInv, FailInv, [Next]_vars PROVE FailInv'
  OBVIOUS
<1>0. HostOf \in [Item -> Host] /\ \A i \in Item : WaveOf[i] \in Int
  BY ConstantsAssumption
<1> USE DEF TypeOK
<1>1. CASE NextWave
  <2>1. /\ wave' = wave + 1 /\ wave \in Int
        /\ memory' = memory /\ disk' = disk /\ late' = late
        /\ \A i \in Item : pc'[i] = IF WaveOf[i] # wave + 1 THEN pc[i]
                                    ELSE IF Blocked(i) THEN "blocked" ELSE "global"
    BY <1>1, ConstantsAssumption DEF NextWave, StartWave
  <2>2. \A i \in Item : pc[i] = "failed" <=> pc'[i] = "failed"
    BY <1>0, <2>1 DEF WaveInv
  <2>3. \A i \in Item : pc'[i] = "blocked" => \E j \in Item : pc'[j] = "failed" /\ WaveOf[j] < WaveOf[i]
    <3> SUFFICES ASSUME NEW i \in Item, pc'[i] = "blocked"
                 PROVE  \E j \in Item : pc[j] = "failed" /\ WaveOf[j] < WaveOf[i]
      BY <2>2
    <3>1. CASE pc[i] = "blocked"
      BY <3>1 DEF FailInv
    <3>2. CASE Blocked(i)
      <4>1. PICK d \in DependsOn[i] : pc[d] \in {"failed", "blocked"}
        BY <3>2 DEF Blocked
      <4>2. d \in Item /\ WaveOf[d] < WaveOf[i]
        BY ConstantsAssumption, WavesAssumption
      <4> QED
        BY <1>0, <4>1, <4>2 DEF FailInv
    <3> QED
      BY <2>1, <3>1, <3>2
  <2>4. \A i \in Item : pc'[i] = "failed" /\ WaveOf[i] < wave' => firstErr' # NoError
    <3> SUFFICES ASSUME NEW i \in Item, pc[i] = "failed", WaveOf[i] =< wave
                 PROVE  firstErr' # NoError
      BY <1>0, <2>1, <2>2
    <3>1. CASE firstErr # NoError
      BY <1>1, <3>1 DEF NextWave, FirstError
    <3>2. CASE firstErr = NoError
      <4>1. WaveOf[i] = wave
        BY <1>0, <2>1, <3>2 DEF FailInv
      <4>2. i \in FailuresOf(wave)
        BY <4>1 DEF FailuresOf
      <4>3. firstErr' \in FailuresOf(wave)
        BY <1>1, <3>2, <4>2 DEF NextWave, FirstError
      <4> QED
        BY <4>3, NoErrorAssumption DEF FailuresOf
    <3> QED
      BY <3>1, <3>2
  <2> QED
    BY <2>1, <2>2, <2>3, <2>4 DEF FailInv
<1>2. ASSUME NEW i \in Item, Goroutine(i) PROVE FailInv'
  <2>1. /\ wave' = wave /\ firstErr' = firstErr
        /\ pc[i] \in {"global", "host", "call", "lock", "write"}
        /\ \E p \in {"host", "call", "lock", "write", "ok", "failed"} : pc' = [pc EXCEPT ![i] = p]
    BY <1>2, GoroutineMoves DEF Goroutine, AcquireGlobal, AcquireHost, AcquireFails, CallOk, CallFails,
         LockState, Write, WriteOk, WriteFails, WriteAnswerLost, WriteDetached, WriteReturns
  <2>2. ~(WaveOf[i] < wave)
    BY <2>1 DEF WaveInv
  <2>3. \A j \in Item : /\ pc[j] = "failed" => pc'[j] = "failed"
                        /\ pc'[j] = "blocked" => pc[j] = "blocked"
                        /\ pc'[j] = "failed" => pc[j] = "failed" \/ j = i
    BY <2>1
  <2>4. \/ UNCHANGED <<disk, memory, late>>
        \/ disk' = [disk EXCEPT ![HostOf[i]] = draft[i]]
           /\ memory' = [memory EXCEPT ![HostOf[i]] = draft[i]] /\ late' = late
        \/ /\ pc'[i] = "failed" /\ memory' = memory
           /\ \A h \in Host \ {HostOf[i]} : disk'[h] = disk[h]
           /\ \A w \in late' : w \in late \/ w.host = HostOf[i]
    BY <1>0, <1>2 DEF Goroutine, AcquireGlobal, AcquireHost, AcquireFails, CallOk, CallFails,
         LockState, Write, WriteOk, WriteFails, WriteAnswerLost, WriteDetached, WriteReturns, Goto
  <2>5. ASSUME NEW h \in Host, disk'[h] # memory'[h] \/ (\E w \in late' : w.host = h)
        PROVE  \E j \in Item : HostOf[j] = h /\ pc'[j] = "failed"
    <3>1. (disk[h] # memory[h] \/ (\E w \in late : w.host = h)) \/ (h = HostOf[i] /\ pc'[i] = "failed")
      BY <1>0, <2>4, <2>5
    <3> QED
      BY <2>3, <3>1 DEF FailInv
  <2> QED
    BY <2>1, <2>2, <2>3, <2>5 DEF FailInv
<1>3. ASSUME NEW w \in late, LateWrite(w) PROVE FailInv'
  <2>1. /\ UNCHANGED <<wave, pc, firstErr, memory>>
        /\ disk' = [disk EXCEPT ![w.host] = w.state]
        /\ \A v \in late' : v \in late \/ v.host = w.host
    BY <1>3 DEF LateWrite
  <2>2. ASSUME NEW h \in Host, disk'[h] # memory'[h] \/ (\E v \in late' : v.host = h)
        PROVE  disk[h] # memory[h] \/ (\E v \in late : v.host = h)
    BY <2>1, <2>2
  <2> QED
    BY <2>1, <2>2 DEF FailInv
<1>4. CASE Cancel \/ UNCHANGED vars
  BY <1>4 DEF Cancel, vars, FailInv
<1> QED
  BY <1>1, <1>2, <1>3, <1>4 DEF Next

LEMMA CountInit == Init => CountInv
<1> SUFFICES ASSUME Init PROVE CountInv
  OBVIOUS
<1>1. ASSUME NEW h \in Host PROVE memory[h].serial = Prior[h].serial + Cardinality(Written(h))
  <2>1. Written(h) = {}
    BY DEF Init, Written
  <2>2. Cardinality(Written(h)) = 0
    BY <2>1, FS_EmptySet
  <2>3. Prior[h].serial \in Nat /\ memory = Prior
    BY ConstantsAssumption DEF Init, State
  <2> QED
    BY <2>2, <2>3
<1> QED
  BY <1>1 DEF Init, CountInv

\* Preparing a state leaves the serial to PrepareWrite.
LEMMA EffectSerial ==
    ASSUME NEW i \in Item, NEW st \in State
    PROVE  [Effect(i, st) EXCEPT !.serial = @ + 1].serial = st.serial + 1
<1>1. Remove(st, i).serial = st.serial /\ \A new, deps : Record(st, new, deps).serial = st.serial
  BY DEF Record, Remove, State
<1>2. Effect(i, st).serial = st.serial
  BY <1>1 DEF Effect
<1>3. Effect(i, st) \in State
  BY EffectType
<1> QED
  BY <1>2, <1>3 DEF State

\* The engine's states stay and nobody comes to "write" or succeeds with a write.
LEMMA NothingCounted ==
    ASSUME CountInv, memory' = memory,
           \A i \in Item :
             /\ pc'[i] = "write" => pc[i] = "write" /\ draft'[i] = draft[i]
             /\ WritesState(i) => (pc'[i] = "ok" <=> pc[i] = "ok")
    PROVE  CountInv'
<1>1. \A h \in Host : Written(h)' = Written(h)
  BY DEF Written, WritesState
<1> QED
  BY <1>1 DEF CountInv, WritesState

LEMMA CountNext == TypeOK /\ WaveInv /\ StateInv /\ CountInv /\ [Next]_vars => CountInv'
<1> SUFFICES ASSUME TypeOK, WaveInv, StateInv, CountInv, [Next]_vars PROVE CountInv'
  OBVIOUS
<1>0. HostOf \in [Item -> Host]
  BY ConstantsAssumption
<1> USE DEF TypeOK
<1>1. CASE NextWave
  <2>1. \A i \in Item : /\ pc'[i] = "write" => pc[i] = "write"
                        /\ pc'[i] = "ok" <=> pc[i] = "ok"
    <3> TAKE i \in Item
    <3>1. WaveOf[i] = wave + 1 => pc[i] = "pending"
      BY ConstantsAssumption DEF WaveInv
    <3>2. pc'[i] = IF WaveOf[i] # wave + 1 THEN pc[i]
                   ELSE IF Blocked(i) THEN "blocked" ELSE "global"
      BY <1>1 DEF NextWave, StartWave
    <3> QED
      BY <3>1, <3>2
  <2> QED
    BY <1>1, <2>1, NothingCounted DEF NextWave
<1>2. ASSUME NEW i \in Item, AcquireGlobal(i) \/ AcquireHost(i) \/ AcquireFails(i) \/ CallFails(i)
      PROVE  CountInv'
  BY <1>2, NothingCounted DEF AcquireGlobal, AcquireHost, AcquireFails, CallFails, Goto
<1>3. ASSUME NEW i \in Item, CallOk(i) PROVE CountInv'
  <2>1. /\ memory' = memory /\ draft' = draft /\ pc[i] = "call"
        /\ \/ pc' = [pc EXCEPT ![i] = "lock"]
           \/ pc' = [pc EXCEPT ![i] = "ok"] /\ ~WritesState(i)
    BY <1>3 DEF CallOk, Goto
  <2> QED
    BY <2>1, NothingCounted
<1>4. ASSUME NEW i \in Item, LockState(i) PROVE CountInv'
  <2> DEFINE st == memory[HostOf[i]]
             new == [Effect(i, st) EXCEPT !.serial = @ + 1]
  <2>0. st \in State /\ memory' = memory /\ pc[i] = "lock" /\ new.serial = st.serial + 1
    BY <1>0, <1>4, EffectSerial DEF LockState
  <2>1. CASE draft' = draft /\ (pc' = [pc EXCEPT ![i] = "failed"]
                                  \/ (pc' = [pc EXCEPT ![i] = "ok"] /\ ~WritesState(i)))
    BY <2>0, <2>1, NothingCounted
  <2>2. CASE pc' = [pc EXCEPT ![i] = "write"] /\ draft' = [draft EXCEPT ![i] = new] /\ WritesState(i)
    <3>1. \A h \in Host : Written(h)' = Written(h)
      BY <2>0, <2>2 DEF Written, WritesState
    <3> HIDE DEF new
    <3>2. ASSUME NEW j \in Item, pc'[j] = "write"
          PROVE  WritesState(j) /\ draft'[j].serial = memory'[HostOf[j]].serial + 1
      BY <2>0, <2>2, <3>2 DEF CountInv
    <3> QED
      BY <2>0, <3>1, <3>2 DEF CountInv, WritesState
  <2> QED
    BY <1>4, <2>1, <2>2 DEF LockState, Goto
<1>5. ASSUME NEW i \in Item, WriteFails(i) \/ WriteAnswerLost(i) \/ WriteDetached(i) PROVE CountInv'
  <2>1. /\ memory' = memory /\ draft' = [draft EXCEPT ![i] = NoDraft]
        /\ pc[i] = "write" /\ pc' = [pc EXCEPT ![i] = "failed"]
    BY <1>5 DEF WriteFails, WriteAnswerLost, WriteDetached, WriteReturns, Goto
  <2> QED
    BY <2>1, NothingCounted
<1>6. ASSUME NEW i \in Item, WriteOk(i) PROVE CountInv'
  <2> DEFINE g == HostOf[i]
  <2>1. /\ memory' = [memory EXCEPT ![g] = draft[i]] /\ draft' = [draft EXCEPT ![i] = NoDraft]
        /\ pc[i] = "write" /\ pc' = [pc EXCEPT ![i] = "ok"] /\ g \in Host
    BY <1>0, <1>6 DEF WriteOk, WriteReturns, Goto
  <2>2. WritesState(i) /\ draft[i].serial = memory[g].serial + 1
    BY <2>1 DEF CountInv
  <2>3. /\ Written(g)' = Written(g) \cup {i} /\ i \notin Written(g) /\ Written(g) \subseteq Item
        /\ \A h \in Host \ {g} : Written(h)' = Written(h)
    BY <2>1, <2>2 DEF Written, WritesState
  <2>4. Cardinality(Written(g)') = Cardinality(Written(g)) + 1 /\ Cardinality(Written(g)) \in Nat
    BY <2>3, FiniteItems, FS_AddElement
  <2>5. memory[g].serial \in Nat /\ Prior[g].serial \in Nat
    BY <2>1, ConstantsAssumption DEF State
  <2>6. memory'[g].serial = Prior[g].serial + Cardinality(Written(g)')
    <3>1. memory[g].serial = Prior[g].serial + Cardinality(Written(g))
      BY <2>1 DEF CountInv
    <3>2. memory'[g].serial = memory[g].serial + 1
      BY <2>1, <2>2
    <3> QED
      BY <2>4, <2>5, <3>1, <3>2
  <2>7. ASSUME NEW h \in Host PROVE memory'[h].serial = Prior[h].serial + Cardinality(Written(h)')
    <3>1. CASE h = g
      BY <2>6, <3>1
    <3>2. CASE h # g
      <4>1. memory'[h] = memory[h] /\ Written(h)' = Written(h)
        BY <2>1, <2>3, <3>2
      <4> QED
        BY <4>1 DEF CountInv
    <3> QED
      BY <3>1, <3>2
  <2>8. ASSUME NEW j \in Item, pc'[j] = "write"
        PROVE  WritesState(j) /\ draft'[j].serial = memory'[HostOf[j]].serial + 1
    <3>1. pc[j] = "write" /\ j # i /\ HostOf[j] # g
      BY <2>1, <2>8 DEF StateInv
    <3>2. draft'[j] = draft[j] /\ memory'[HostOf[j]] = memory[HostOf[j]]
      BY <1>0, <2>1, <3>1
    <3> QED
      BY <3>1, <3>2 DEF CountInv
  <2> QED
    BY <2>7, <2>8 DEF CountInv, WritesState
<1>7. CASE UNCHANGED <<pc, memory, draft>>
  BY <1>7, NothingCounted
<1> QED
  BY <1>1, <1>2, <1>3, <1>4, <1>5, <1>6, <1>7 DEF Next, Goroutine, Write, LateWrite, Cancel, vars

\* For every plan: runExecutionWaves returns no error only if every item has
\* succeeded and is in the state files, which then are the engine's states, one
\* serial per write.
THEOREM SuccessIsCompleteCorrect == Spec => []SuccessIsComplete
<1>1. TypeOK /\ WaveInv /\ StateInv /\ FailInv /\ CountInv => SuccessIsComplete
  <2> SUFFICES ASSUME TypeOK, WaveInv, StateInv, FailInv, CountInv, wave = LastWave + 1, firstErr = NoError
               PROVE  /\ \A i \in Item : pc[i] = "ok" /\ OnRecord(i, disk[HostOf[i]])
                      /\ disk = memory /\ late = {}
                      /\ \A h \in Host : disk[h].serial =
                            Prior[h].serial + Cardinality({i \in Item : HostOf[i] = h /\ WritesState(i)})
    BY DEF SuccessIsComplete
  <2>1. \A i \in Item : WaveOf[i] < wave
    BY ConstantsAssumption
  <2>2. \A i \in Item : pc[i] = "ok"
    <3>1. \A i \in Item : pc[i] # "failed"
      BY <2>1 DEF FailInv
    <3>2. \A i \in Item : pc[i] # "blocked"
      BY <3>1 DEF FailInv
    <3> QED
      BY <2>1, <3>1, <3>2 DEF WaveInv
  <2>3. \A h \in Host : disk[h] = memory[h] /\ ~(\E w \in late : w.host = h)
    BY <2>2 DEF FailInv
  <2>4. disk = memory /\ late = {}
    BY <2>3 DEF TypeOK
  <2>5. \A i \in Item : OnRecord(i, disk[HostOf[i]])
    BY <2>2, <2>4 DEF StateInv
  <2>6. \A h \in Host : Written(h) = {i \in Item : HostOf[i] = h /\ WritesState(i)}
    BY <2>2 DEF Written
  <2> QED
    BY <2>2, <2>4, <2>5, <2>6 DEF CountInv
<1> QED
  BY <1>1, TypeInit, TypeNext, WaveInit, WaveNext, StateInit, StateNext, FailInit, FailNext,
     CountInit, CountNext, PTL DEF Spec
=============================================================================
