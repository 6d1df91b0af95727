--------------------------- MODULE ConvergeProofs ---------------------------
(***************************************************************************)
(* Proofs about repeated runs over one host (Converge), for every set of   *)
(* resources, every budget of edits, drift and faults: what is destroyed   *)
(* was written by dbf, and, where no path passes from one address to       *)
(* another, a run without an error leaves nothing to do.                   *)
(***************************************************************************)
EXTENDS Converge, TLAPS

\* What is kept as managed was written, also in a run that died: the record of
\* the step that wrote is newer than the write.
WroteInv(a) ==
    /\ records[a] # NoRecord /\ records[a].ownership = "managed" => wrote[a] # "no"
    /\ plan[a].action = "adopt" => plan[a].ownership = "adopted"
    /\ at[a] = "todo" /\ plan[a].action = "destroy" => wrote[a] # "no"
    /\ at[a] = "applied" /\ plan[a].action \in {"create", "update"} => wrote[a] # "no"

\* The steps of a run fit the configuration, and an operation comes after the
\* record it completes.
StepInv(a) ==
    phase \in {"run", "done"} =>
        /\ plan[a].action \in {"create", "update", "adopt"} => Declared(a) /\ config[a].ensure = "present"
        /\ plan[a].action = "delete" => Declared(a) /\ config[a].ensure = "absent"
        /\ plan[a].action \in {"destroy", "forget"} => ~Declared(a)
        /\ plan[a].action = "no-op" => at[a] = "settled"
        /\ op[a] # "none" <=> (plan[a].action \in {"create", "update"} /\ config[a].hook = "action")
        /\ op[a] \in {"ran", "ok"} => at[a] = "settled"
        /\ at[a] = "settled" /\ plan[a].action \in {"create", "update", "adopt"} =>
             /\ records[a] # NoRecord
             /\ records[a].digest = Digest(config[a])
             /\ op[a] \in {"todo", "ran"} => records[a].done = Incomplete
             /\ op[a] = "ok" \/ (plan[a].action = "adopt" /\ config[a].hook = "action")
                  => records[a].done = Digest(config[a])
        /\ at[a] = "settled" /\ plan[a].action \in {"delete", "destroy", "forget"} => records[a] = NoRecord
        /\ phase = "done" => at[a] = "settled" /\ op[a] \in {"none", "ok"}

\* No path passes from one address to another.
OwnPaths == \A a, b \in Resource : PathOf[a] = PathOf[b] => a = b

\* What a run has found or put at a path that is one address's own is there.
PathInv(a) ==
    phase \in {"run", "done"} =>
        /\ plan[a].action = "no-op" => PlanStep(a).action = "no-op"
        /\ plan[a].action = "adopt" => disk[PathOf[a]] = config[a].want
        /\ at[a] \in {"applied", "settled"} /\ plan[a].action \in {"create", "update"} =>
             disk[PathOf[a]] = config[a].want
        /\ at[a] \in {"applied", "settled"} /\ plan[a].action = "delete" => disk[PathOf[a]] = Missing

\* A completed action ran for the version it was completed for, or was counted as
\* done when the unit was adopted.
LiveInv(a) ==
    /\ records[a] # NoRecord /\ records[a].done # Incomplete =>
         live[a] = records[a].done.want \/ counted[a] # "no"
    /\ counted[a] # "no" => records[a] # NoRecord /\ records[a].ownership = "adopted"
    /\ counted[a] = "lost" => wrote[a] # "no"
    /\ phase = "run" /\ op[a] = "ran" => live[a] = config[a].want

RunInv == TypeOK /\ ValidConfig(config) /\ \A a \in Resource : WroteInv(a) /\ StepInv(a)

-----------------------------------------------------------------------------
(* The plan.                                                               *)

\* What the action planned for an address tells of it.
LEMMA PlanStepTells ==
    ASSUME TypeOK, ValidConfig(config), NEW a \in Resource
    PROVE  /\ PlanStep(a) \in PlanSteps
           /\ PlanStep(a).action \in {"create", "update", "adopt"} => Declared(a) /\ config[a].ensure = "present"
           /\ PlanStep(a).action = "delete" => Declared(a) /\ config[a].ensure = "absent"
           /\ PlanStep(a).action \in {"destroy", "forget"} => ~Declared(a) /\ records[a] # NoRecord
           /\ PlanStep(a).action = "destroy" => records[a].ownership = "managed"
           /\ PlanStep(a).action = "adopt" => PlanStep(a).ownership = "adopted" /\ disk[PathOf[a]] = config[a].want
           /\ Triggers(a) <=> (PlanStep(a).action \in {"create", "update"} /\ config[a].hook = "action")
<1>1. /\ config[a] \in Node \cup {Undeclared} /\ records[a] \in Record \cup {NoRecord}
      /\ Ownership(a) \in {"managed", "adopted"}
  BY DEF TypeOK, Ownership, Record
<1>2. CASE Declared(a)
  <2>1. config[a] \in Node /\ PlanStep(a) = PlanNode(a) /\ config[a].ensure \in {"present", "absent"}
    BY <1>1, <1>2 DEF Declared, PlanStep, Node
  <2> DEFINE there == disk[PathOf[a]]
  <2>2. CASE config[a].ensure = "absent"
    <3>1. PlanStep(a) = IF there # Missing THEN [action |-> "delete", ownership |-> Ownership(a)] ELSE AbsentInSync(a)
      BY <2>1, <2>2 DEF PlanNode
    <3>2. PlanStep(a) \in PlanSteps /\ PlanStep(a).action \in {"delete", "no-op"}
      BY <1>1, <3>1 DEF AbsentInSync, PlanSteps
    <3>3. config[a].hook # "action"
      BY <1>2, <2>2 DEF ValidConfig, Declared
    <3>4. config[a].hook \in Hooks
      BY <2>1 DEF Node
    <3> QED
      BY <1>2, <2>2, <3>2, <3>3, <3>4, ConstantsAssumption DEF Triggers
  <2>3. CASE config[a].ensure = "present" /\ there = config[a].want
    <3>1. \/ PlanStep(a) = [action |-> "update", ownership |-> Ownership(a)]
          \/ PlanStep(a) = InSync(a)
      BY <2>1, <2>3, AbsenceAssumption DEF PlanNode, Node
    <3>2. InSync(a) \in PlanSteps /\ InSync(a).action \in {"adopt", "no-op"}
          /\ (InSync(a).action = "adopt" => InSync(a).ownership = "adopted")
      BY <1>1 DEF InSync, PlanSteps
    <3>3. PlanStep(a) \in PlanSteps /\ PlanStep(a).action \in {"update", "adopt", "no-op"}
          /\ (PlanStep(a).action = "adopt" => PlanStep(a).ownership = "adopted")
      BY <1>1, <3>1, <3>2 DEF PlanSteps
    <3>4. config[a].hook \in {"none", "action"}
      BY <2>1, ConstantsAssumption DEF Node
    <3> QED
      BY <1>2, <2>3, <3>3, <3>4 DEF Triggers
  <2>4. CASE config[a].ensure = "present" /\ there # config[a].want
    <3>1. PlanStep(a) = [action |-> IF there = Missing THEN "create" ELSE "update", ownership |-> Ownership(a)]
      BY <2>1, <2>4 DEF PlanNode
    <3>2. PlanStep(a) \in PlanSteps /\ PlanStep(a).action \in {"update", "create"}
      BY <1>1, <3>1 DEF PlanSteps
    <3>4. config[a].hook \in {"none", "action"}
      BY <2>1, ConstantsAssumption DEF Node
    <3> QED
      BY <1>2, <2>4, <3>2, <3>4 DEF Triggers
  <2> QED
    BY <2>1, <2>2, <2>3, <2>4
<1>3. CASE ~Declared(a)
  <2>1. ~Triggers(a)
    BY <1>3 DEF Triggers
  <2>2. CASE records[a] # NoRecord
    <3>1. PlanStep(a) = PlanOrphan(a) /\ records[a].ownership \in {"managed", "adopted"}
      BY <1>1, <1>3, <2>2 DEF PlanStep, Record
    <3>2. PlanStep(a) \in PlanSteps /\ PlanStep(a).action \in {"forget", "destroy"}
          /\ (PlanStep(a).action = "destroy" => records[a].ownership # "adopted")
      BY <3>1 DEF PlanOrphan, PlanSteps
    <3> QED
      BY <1>3, <2>1, <2>2, <3>1, <3>2
  <2>3. CASE records[a] = NoRecord
    <3>1. PlanStep(a) = NoStep
      BY <1>3, <2>3 DEF PlanStep
    <3> QED
      BY <2>1, <3>1 DEF NoStep, PlanSteps
  <2> QED
    BY <2>2, <2>3
<1> QED
  BY <1>2, <1>3

-----------------------------------------------------------------------------
(* What every step keeps, whatever shares a path.                          *)

LEMMA RunInit == Init => RunInv
<1> SUFFICES ASSUME Init PROVE RunInv
  OBVIOUS
<1>1. TypeOK
  BY ConstantsAssumption DEF Init, TypeOK, NoStep, PlanSteps
<1>2. ValidConfig(config)
  BY DEF Init, ValidConfig
<1>3. \A a \in Resource : WroteInv(a) /\ StepInv(a)
  BY DEF Init, WroteInv, StepInv, NoStep
<1> QED
  BY <1>1, <1>2, <1>3 DEF RunInv

\* What a step leaves alone of an address keeps what holds of it.
LEMMA Untouched ==
    ASSUME NEW b \in Resource, config' = config, phase' = phase, plan' = plan,
           at'[b] = at[b], op'[b] = op[b], records'[b] = records[b], wrote'[b] = wrote[b]
    PROVE  (WroteInv(b) => WroteInv(b)') /\ (StepInv(b) => StepInv(b)')
<1>1. Declared(b)' = Declared(b) /\ Digest(config[b])' = Digest(config[b])
  BY DEF Declared, Digest
<1>2. WroteInv(b) => WroteInv(b)'
  BY DEF WroteInv
<1>3. StepInv(b) => StepInv(b)'
  BY <1>1 DEF StepInv
<1> QED
  BY <1>2, <1>3

\* The budget shrinks.
LEMMA FaultType ==
    ASSUME TypeOK, Fault
    PROVE  left' \in [scope : SUBSET Resource, edits : Nat, drift : Nat, faults : Nat]
BY DEF TypeOK, Fault

LEMMA NewRecordType ==
    ASSUME RunInv, phase = "run", NEW a \in Resource
    PROVE  /\ RecordAfter(a) \in Record \cup {NoRecord}
           /\ plan[a].action \in {"create", "update", "adopt"} => RecordAfter(a) = NewRecord(a) /\ NewRecord(a) \in Record
<1>1. CASE plan[a].action \in {"create", "update", "adopt"}
  <2>1. config[a] \in Node /\ plan[a].ownership \in {"managed", "adopted"}
    BY <1>1 DEF RunInv, StepInv, TypeOK, Declared, PlanSteps
  <2>2. Digest(config[a]) \in Digests /\ config[a].protect \in BOOLEAN
    BY <2>1 DEF Digest, Digests, Node
  <2>3. NewRecord(a) \in Record
    BY <2>1, <2>2 DEF NewRecord, Record
  <2> QED
    BY <1>1, <2>3 DEF RecordAfter
<1>2. CASE plan[a].action \notin {"create", "update", "adopt"}
  BY <1>2 DEF RecordAfter
<1> QED
  BY <1>1, <1>2

LEMMA OutcomeType ==
    ASSUME RunInv, phase = "run", NEW a \in Resource
    PROVE  Outcome(a) \in Version \cup {Missing}
<1>1. CASE plan[a].action \in {"create", "update"}
  <2>1. config[a] \in Node
    BY <1>1 DEF RunInv, StepInv, TypeOK, Declared
  <2> QED
    BY <1>1, <2>1 DEF Outcome, Node
<1>2. CASE plan[a].action \notin {"create", "update"}
  BY <1>2, ConstantsAssumption DEF Outcome, RunInv, TypeOK
<1> QED
  BY <1>1, <1>2

LEMMA PlanKeeps == RunInv /\ Plan => RunInv'
<1> SUFFICES ASSUME RunInv, Plan PROVE RunInv'
  OBVIOUS
<1>1. TypeOK /\ ValidConfig(config) /\ UNCHANGED <<config, disk, records, live, counted, wrote, applied, left>>
  BY DEF RunInv, Plan
<1>2. /\ phase' = "run" /\ plan' = [a \in Resource |-> PlanStep(a)]
      /\ at' = [a \in Resource |-> IF PlanStep(a).action = "no-op" THEN "settled" ELSE "todo"]
      /\ op' = [a \in Resource |-> IF Triggers(a) THEN "todo" ELSE "none"]
  BY DEF Plan
<1>3. \A a \in Resource : PlanStep(a) \in PlanSteps
  BY <1>1, PlanStepTells
<1>4. TypeOK'
  BY <1>1, <1>2, <1>3 DEF TypeOK
<1>5. ValidConfig(config)'
  BY <1>1 DEF ValidConfig
<1>6. ASSUME NEW a \in Resource PROVE WroteInv(a)' /\ StepInv(a)'
  <2>1. /\ plan'[a] = PlanStep(a) /\ at'[a] = (IF plan'[a].action = "no-op" THEN "settled" ELSE "todo")
        /\ op'[a] = (IF Triggers(a) THEN "todo" ELSE "none") /\ Declared(a)' = Declared(a)
    BY <1>1, <1>2 DEF Declared
  <2>2. /\ plan'[a].action \in {"create", "update", "adopt"} => Declared(a) /\ config[a].ensure = "present"
        /\ plan'[a].action = "delete" => Declared(a) /\ config[a].ensure = "absent"
        /\ plan'[a].action \in {"destroy", "forget"} => ~Declared(a) /\ records[a] # NoRecord
        /\ plan'[a].action = "destroy" => records[a].ownership = "managed"
        /\ plan'[a].action = "adopt" => plan'[a].ownership = "adopted"
        /\ Triggers(a) <=> (plan'[a].action \in {"create", "update"} /\ config[a].hook = "action")
    BY <1>1, <2>1, PlanStepTells
  <2>3. WroteInv(a)'
    BY <1>1, <2>1, <2>2 DEF RunInv, WroteInv
  <2>4. StepInv(a)'
    BY <1>1, <1>2, <2>1, <2>2 DEF StepInv
  <2> QED
    BY <2>3, <2>4
<1> QED
  BY <1>4, <1>5, <1>6 DEF RunInv

LEMMA ApplyKeeps ==
    ASSUME RunInv, NEW a \in Resource, Apply(a) \/ ApplyFails(a)
    PROVE  RunInv'
<1>1. /\ phase = "run" /\ at[a] = "todo" /\ UNCHANGED <<config, records, phase, plan, op, live, counted, applied>>
      /\ \/ disk' = disk \/ disk' = [disk EXCEPT ![PathOf[a]] = Outcome(a)]
      /\ \/ at' = [at EXCEPT ![a] = "failed"] /\ (wrote' = wrote \/ Wrote(a)) /\ Fault
         \/ at' = [at EXCEPT ![a] = "applied"] /\ Wrote(a) /\ left' = left
  BY DEF Apply, ApplyFails, MayStart
<1>2. wrote' = [wrote EXCEPT ![a] = wrote'[a]] /\ wrote'[a] \in {"no", "update", "create"}
      /\ (wrote[a] # "no" => wrote'[a] # "no")
      /\ (at'[a] = "applied" /\ plan[a].action \in {"create", "update"} => wrote'[a] # "no")
  BY <1>1 DEF RunInv, TypeOK, Wrote
<1>3. TypeOK'
  <2>1. disk' \in [Path -> Version \cup {Missing}]
    BY <1>1, OutcomeType, ConstantsAssumption DEF RunInv, TypeOK
  <2>2. left' \in [scope : SUBSET Resource, edits : Nat, drift : Nat, faults : Nat]
    BY <1>1, FaultType DEF RunInv, TypeOK
  <2>3. at' \in [Resource -> {"todo", "applied", "settled", "failed"}]
        /\ wrote' \in [Resource -> {"no", "update", "create"}]
    BY <1>1, <1>2 DEF RunInv, TypeOK
  <2> QED
    BY <1>1, <2>1, <2>2, <2>3 DEF RunInv, TypeOK
<1>4. ValidConfig(config)'
  BY <1>1 DEF RunInv, ValidConfig
<1>5. WroteInv(a)' /\ StepInv(a)'
  <2>1. at'[a] \in {"applied", "failed"} /\ Declared(a)' = Declared(a)
    BY <1>1 DEF RunInv, TypeOK, Declared
  <2>2. WroteInv(a)'
    BY <1>1, <1>2, <2>1 DEF RunInv, WroteInv
  <2>3. StepInv(a)'
    BY <1>1, <2>1 DEF RunInv, StepInv
  <2> QED
    BY <2>2, <2>3
<1>6. ASSUME NEW b \in Resource, b # a PROVE WroteInv(b)' /\ StepInv(b)'
  <2>1. at'[b] = at[b] /\ wrote'[b] = wrote[b]
    BY <1>1, <1>2, <1>6 DEF RunInv, TypeOK
  <2> QED
    BY <1>1, <2>1, Untouched DEF RunInv
<1> QED
  BY <1>3, <1>4, <1>5, <1>6 DEF RunInv

LEMMA WriteRecordKeeps ==
    ASSUME RunInv, NEW a \in Resource, WriteRecord(a) \/ WriteRecordFails(a)
    PROVE  RunInv'
<1>1. /\ phase = "run" /\ at[a] = "applied" /\ UNCHANGED <<config, disk, phase, plan, op, live, applied>>
      /\ \/ at' = [at EXCEPT ![a] = "failed"] /\ (Keep(a) \/ UNCHANGED <<records, wrote, counted>>) /\ Fault
         \/ at' = [at EXCEPT ![a] = "settled"] /\ Keep(a) /\ left' = left
  BY DEF WriteRecord, WriteRecordFails
<1>2. /\ records' = [records EXCEPT ![a] = records'[a]]
      /\ wrote' = [wrote EXCEPT ![a] = wrote'[a]]
      /\ counted' = [counted EXCEPT ![a] = counted'[a]]
      /\ counted'[a] \in {counted[a], "no", "found", "lost"}
      /\ \/ records'[a] = RecordAfter(a)
            /\ wrote'[a] = (IF RecordAfter(a) = NoRecord THEN "no" ELSE wrote[a])
         \/ records'[a] = records[a] /\ wrote'[a] = wrote[a] /\ at'[a] = "failed"
  BY <1>1 DEF RunInv, TypeOK, Keep
<1>3. TypeOK'
  <2>1. records'[a] \in Record \cup {NoRecord} /\ wrote'[a] \in {"no", "update", "create"}
        /\ counted'[a] \in {"no", "found", "lost"}
    <3>1. records[a] \in Record \cup {NoRecord} /\ wrote[a] \in {"no", "update", "create"}
          /\ counted[a] \in {"no", "found", "lost"}
      BY DEF RunInv, TypeOK
    <3>2. RecordAfter(a) \in Record \cup {NoRecord}
      BY <1>1, NewRecordType
    <3> QED
      BY <1>2, <3>1, <3>2
  <2>2. left' \in [scope : SUBSET Resource, edits : Nat, drift : Nat, faults : Nat]
    BY <1>1, FaultType DEF RunInv, TypeOK
  <2>3. at' \in [Resource -> {"todo", "applied", "settled", "failed"}]
    BY <1>1 DEF RunInv, TypeOK
  <2>4. records' \in [Resource -> Record \cup {NoRecord}]
    BY <1>2, <2>1 DEF RunInv, TypeOK
  <2>5. wrote' \in [Resource -> {"no", "update", "create"}] /\ counted' \in [Resource -> {"no", "found", "lost"}]
    BY <1>2, <2>1 DEF RunInv, TypeOK
  <2> QED
    BY <1>1, <2>2, <2>3, <2>4, <2>5 DEF RunInv, TypeOK
<1>4. ValidConfig(config)'
  BY <1>1 DEF RunInv, ValidConfig
<1>5. WroteInv(a)' /\ StepInv(a)'
  <2>1. at'[a] \in {"settled", "failed"} /\ Declared(a)' = Declared(a) /\ Digest(config[a])' = Digest(config[a])
    BY <1>1 DEF RunInv, TypeOK, Declared, Digest
  <2>2. /\ plan[a].action \in {"create", "update", "adopt"} =>
             /\ RecordAfter(a) \in Record /\ RecordAfter(a) # NoRecord
             /\ RecordAfter(a).digest = Digest(config[a]) /\ RecordAfter(a).ownership = plan[a].ownership
             /\ RecordAfter(a).done = IF plan[a].action = "adopt" /\ config[a].hook = "action"
                                        THEN Digest(config[a]) ELSE Incomplete
        /\ plan[a].action \notin {"create", "update", "adopt"} => RecordAfter(a) = NoRecord
    <3>1. ASSUME plan[a].action \in {"create", "update", "adopt"}
          PROVE  RecordAfter(a) = NewRecord(a) /\ NewRecord(a) \in Record
      <4>1. config[a] \in Node /\ plan[a].ownership \in {"managed", "adopted"}
        BY <1>1, <3>1 DEF RunInv, StepInv, TypeOK, Declared, PlanSteps
      <4>2. Digest(config[a]) \in Digests /\ config[a].protect \in BOOLEAN
        BY <4>1 DEF Digest, Digests, Node
      <4> QED
        BY <3>1, <4>1, <4>2 DEF NewRecord, Record, RecordAfter
    <3> QED
      BY <3>1, AbsenceAssumption DEF RecordAfter, NewRecord
  <2>3. WroteInv(a)'
    BY <1>1, <1>2, <2>1, <2>2 DEF RunInv, WroteInv
  <2>4. op[a] \notin {"ran", "ok"} /\ plan[a].action # "no-op"
    BY <1>1 DEF RunInv, StepInv
  <2>5. at'[a] = "settled" => records'[a] = RecordAfter(a)
    BY <1>2
  <2>6. StepInv(a)'
    BY <1>1, <2>1, <2>2, <2>4, <2>5 DEF RunInv, StepInv
  <2> QED
    BY <2>3, <2>6
<1>6. ASSUME NEW b \in Resource, b # a PROVE WroteInv(b)' /\ StepInv(b)'
  <2>1. at'[b] = at[b] /\ wrote'[b] = wrote[b] /\ records'[b] = records[b]
    BY <1>1, <1>2, <1>6 DEF RunInv, TypeOK
  <2> QED
    BY <1>1, <2>1, Untouched DEF RunInv
<1> QED
  BY <1>3, <1>4, <1>5, <1>6 DEF RunInv

LEMMA OperationKeeps ==
    ASSUME RunInv, NEW a \in Resource,
           RunOperation(a) \/ RunOperationFails(a) \/ CompleteOperation(a) \/ CompleteOperationFails(a)
    PROVE  RunInv'
<1> DEFINE completed == [records EXCEPT ![a].done = records[a].digest]
<1>1. /\ phase = "run" /\ UNCHANGED <<config, disk, phase, plan, at, counted, wrote, applied>>
      /\ op' = [op EXCEPT ![a] = op'[a]]
      /\ \/ op[a] = "todo" /\ records' = records /\ op'[a] \in {"ran", "failed"}
            /\ (op'[a] = "ran" => at[a] = "settled")
         \/ op[a] = "ran" /\ op'[a] = "ok" /\ (records' = IF config[a].hook = "action" THEN completed ELSE records)
         \/ op[a] = "ran" /\ op'[a] = "failed" /\ records' \in {records, completed}
      /\ live' = [live EXCEPT ![a] = live'[a]] /\ live'[a] \in {live[a], disk[PathOf[a]]}
      /\ left' = left \/ Fault
  BY DEF RunOperation, RunOperationFails, CompleteOperation, CompleteOperationFails, RunInv, TypeOK
<1>2. op[a] = "ran" => /\ at[a] = "settled" /\ plan[a].action \in {"create", "update"}
                       /\ config[a].hook = "action" /\ records[a] \in Record
                       /\ records[a].digest = Digest(config[a])
  BY <1>1 DEF RunInv, TypeOK, StepInv
<1>3. op[a] = "ran" => /\ completed = [records EXCEPT ![a] = [records[a] EXCEPT !.done = records[a].digest]]
                       /\ [records[a] EXCEPT !.done = records[a].digest] \in Record
  BY <1>2 DEF Record
<1>4. op[a] = "ran" => /\ completed \in [Resource -> Record \cup {NoRecord}]
                       /\ completed[a] # NoRecord /\ completed[a].done = Digest(config[a])
                       /\ completed[a].digest = records[a].digest /\ completed[a].ownership = records[a].ownership
                       /\ \A b \in Resource \ {a} : completed[b] = records[b]
  <2>1. records \in [Resource -> Record \cup {NoRecord}]
    BY DEF RunInv, TypeOK
  <2> HAVE op[a] = "ran"
  <2>2. completed[a] = [records[a] EXCEPT !.done = records[a].digest]
    BY <1>3, <2>1
  <2>3. completed \in [Resource -> Record \cup {NoRecord}] /\ \A b \in Resource \ {a} : completed[b] = records[b]
    BY <1>3, <2>1
  <2>4. completed[a] # NoRecord
    BY <1>3, <2>2, AbsenceAssumption
  <2> QED
    BY <1>2, <2>2, <2>3, <2>4 DEF Record
<1> HIDE DEF completed
<1>5. TypeOK'
  <2>1. records' \in [Resource -> Record \cup {NoRecord}]
    BY <1>1, <1>2, <1>4 DEF RunInv, TypeOK
  <2>2. left' \in [scope : SUBSET Resource, edits : Nat, drift : Nat, faults : Nat]
    BY <1>1, FaultType DEF RunInv, TypeOK
  <2>3. op' \in [Resource -> {"none", "todo", "ran", "ok", "failed"}]
    BY <1>1 DEF RunInv, TypeOK
  <2>4. live' \in [Resource -> Version \cup {Missing}]
    <3>1. live[a] \in Version \cup {Missing} /\ disk[PathOf[a]] \in Version \cup {Missing}
      BY ConstantsAssumption DEF RunInv, TypeOK
    <3>2. live'[a] \in Version \cup {Missing}
      BY <1>1, <3>1
    <3> QED
      BY <1>1, <3>2 DEF RunInv, TypeOK
  <2> QED
    BY <1>1, <2>1, <2>2, <2>3, <2>4 DEF RunInv, TypeOK
<1>6. ValidConfig(config)'
  BY <1>1 DEF RunInv, ValidConfig
<1>7. WroteInv(a)' /\ StepInv(a)'
  <2>1. Declared(a)' = Declared(a) /\ Digest(config[a])' = Digest(config[a])
    BY <1>1 DEF Declared, Digest
  <2>2. CASE records' = records /\ op'[a] # "ok"
    <3>1. WroteInv(a)'
      BY <1>1, <2>2 DEF RunInv, WroteInv
    <3>2. op'[a] \in {"ran", "failed"} /\ op[a] \in {"todo", "ran"} /\ (op'[a] = "ran" => at[a] = "settled" /\ op[a] = "todo")
      BY <1>1, <2>2
    <3>3. StepInv(a)'
      BY <1>1, <2>1, <2>2, <3>2 DEF RunInv, StepInv
    <3> QED
      BY <3>1, <3>3
  <2>3. CASE records' = completed /\ op[a] = "ran"
    BY <1>1, <1>2, <1>4, <2>1, <2>3 DEF RunInv, WroteInv, StepInv
  <2> QED
    BY <1>1, <1>2, <2>2, <2>3
<1>8. ASSUME NEW b \in Resource, b # a PROVE WroteInv(b)' /\ StepInv(b)'
  <2>1. op'[b] = op[b]
    BY <1>1, <1>8 DEF RunInv, TypeOK
  <2>2. records'[b] = records[b]
    BY <1>1, <1>4, <1>8
  <2> QED
    BY <1>1, <2>1, <2>2, Untouched DEF RunInv
<1> QED
  BY <1>5, <1>6, <1>7, <1>8 DEF RunInv

LEMMA RunNext == RunInv /\ [Next]_vars => RunInv'
<1> SUFFICES ASSUME RunInv, [Next]_vars PROVE RunInv'
  OBVIOUS
<1>1. CASE Plan
  BY <1>1, PlanKeeps
<1>2. CASE Refuse \/ Crash \/ Finish
  <2>1. /\ UNCHANGED <<config, disk, records, plan, at, op, live, counted, wrote>>
        /\ phase' \in {"refused", "failed", "done"}
        /\ phase' = "done" => phase = "run" /\ \A a \in Resource :
             at[a] = "settled" /\ op[a] \in {"none", "ok"}
        /\ left' = left \/ Fault
    BY <1>2 DEF Refuse, Crash, Finish
  <2>2. TypeOK'
    BY <2>1, FaultType DEF RunInv, TypeOK
  <2>3. ValidConfig(config)'
    BY <2>1 DEF RunInv, ValidConfig
  <2>4. ASSUME NEW a \in Resource PROVE WroteInv(a)' /\ StepInv(a)'
    <3>1. Declared(a)' = Declared(a) /\ Digest(config[a])' = Digest(config[a])
      BY <2>1 DEF Declared, Digest
    <3>2. WroteInv(a)'
      BY <2>1 DEF RunInv, WroteInv
    <3>3. StepInv(a)'
      BY <2>1, <3>1 DEF RunInv, StepInv
    <3> QED
      BY <3>2, <3>3
  <2> QED
    BY <2>2, <2>3, <2>4 DEF RunInv
<1>3. CASE Edit
  <2>1. UNCHANGED <<disk, records, plan, at, op, live, counted, wrote>> /\ phase' = "idle"
        /\ left' = [left EXCEPT !.edits = @ - 1] /\ left.edits > 0
    BY <1>3 DEF Edit
  <2>2. ValidConfig(config') /\ config' \in [Resource -> Node \cup {Undeclared}]
    <3>1. PICK S \in SUBSET left.scope : \E n \in [S -> Node \cup {Undeclared}] :
             config' = [a \in Resource |-> IF a \in S THEN n[a] ELSE config[a]] /\ ValidConfig(config')
      BY <1>3 DEF Edit
    <3> QED
      BY <3>1 DEF RunInv, TypeOK
  <2>3. left' \in [scope : SUBSET Resource, edits : Nat, drift : Nat, faults : Nat]
    BY <2>1 DEF RunInv, TypeOK
  <2>4. TypeOK'
    BY <2>1, <2>2, <2>3 DEF RunInv, TypeOK
  <2>5. \A a \in Resource : WroteInv(a)' /\ StepInv(a)'
    BY <2>1 DEF RunInv, WroteInv, StepInv
  <2>6. ValidConfig(config)'
    BY <2>2 DEF ValidConfig
  <2> QED
    BY <2>4, <2>5, <2>6 DEF RunInv
<1>4. CASE Drift
  <2>1. UNCHANGED <<config, records, plan, at, op, live, counted, wrote>> /\ phase' = "idle"
        /\ left' = [left EXCEPT !.drift = @ - 1] /\ left.drift > 0
        /\ \E p \in Path, v \in Version \cup {Missing} : disk' = [disk EXCEPT ![p] = v]
    BY <1>4 DEF Drift
  <2>2. left' \in [scope : SUBSET Resource, edits : Nat, drift : Nat, faults : Nat]
    BY <2>1 DEF RunInv, TypeOK
  <2>3. disk' \in [Path -> Version \cup {Missing}]
    BY <2>1 DEF RunInv, TypeOK
  <2>4. TypeOK'
    BY <2>1, <2>2, <2>3 DEF RunInv, TypeOK
  <2>5. \A a \in Resource : WroteInv(a)' /\ StepInv(a)'
    BY <2>1 DEF RunInv, WroteInv, StepInv
  <2>6. ValidConfig(config)'
    BY <2>1 DEF RunInv, ValidConfig
  <2> QED
    BY <2>4, <2>5, <2>6 DEF RunInv
<1>5. CASE \E a \in Resource : Step(a)
  BY <1>5, ApplyKeeps, WriteRecordKeeps, OperationKeeps DEF Step
<1>6. CASE UNCHANGED vars
  <2>1. UNCHANGED <<config, disk, records, phase, plan, at, op, live, counted, wrote, left>>
    BY <1>6 DEF vars
  <2>2. TypeOK' /\ ValidConfig(config)'
    BY <2>1 DEF RunInv, TypeOK, ValidConfig
  <2>3. \A a \in Resource : WroteInv(a)' /\ StepInv(a)'
    BY <2>1, Untouched DEF RunInv
  <2> QED
    BY <2>2, <2>3 DEF RunInv
<1> QED
  BY <1>1, <1>2, <1>3, <1>4, <1>5, <1>6 DEF Next

\* Configuration, records and plan stay well formed through edits, drift, faults
\* and crashes.
THEOREM TypeCorrect == Spec => []TypeOK
<1>1. RunInv => TypeOK
  BY DEF RunInv
<1> QED
  BY <1>1, RunInit, RunNext, PTL DEF Spec

\* For any resources, shared paths included: an orphan is destroyed only if dbf
\* wrote it since it began to keep its record (orphanSteps and the ownership that
\* executeResourceStep records).
THEOREM RemovesOnlyItsOwnCorrect == Spec => RemovesOnlyItsOwn
<1>1. RunInv /\ [Next]_vars => [\A a \in Resource :
         at[a] = "todo" /\ at'[a] # "todo" /\ plan[a].action = "destroy" => wrote[a] # "no"]_vars
  BY DEF RunInv, WroteInv
<1> QED
  BY <1>1, RunInit, RunNext, PTL DEF Spec, RemovesOnlyItsOwn

-----------------------------------------------------------------------------
(* Where no path passes from one address to another.                       *)

PathLiveInv == \A a \in Resource : PathInv(a) /\ LiveInv(a)

\* The plan of an address depends on the configuration, its record and its path.
LEMMA SamePlanStep ==
    ASSUME NEW b \in Resource, config' = config, records'[b] = records[b], disk'[PathOf[b]] = disk[PathOf[b]]
    PROVE  PlanStep(b)' = PlanStep(b)
<1>1. Declared(b)' = Declared(b) /\ StillManaged(b)' = StillManaged(b)
  BY DEF Declared, StillManaged
<1>2. PlanOrphan(b)' = PlanOrphan(b)
  BY <1>1 DEF PlanOrphan
<1>3. PlanNode(b)' = PlanNode(b)
  BY DEF PlanNode, InSync, AbsentInSync, Ownership, CompletionPending, ActionRemoved, Digest
<1> QED
  BY <1>1, <1>2, <1>3 DEF PlanStep

LEMMA PathUntouched ==
    ASSUME NEW b \in Resource, config' = config, phase' = phase, plan' = plan, at'[b] = at[b],
           op'[b] = op[b], records'[b] = records[b], live'[b] = live[b], counted'[b] = counted[b],
           counted[b] = "lost" => wrote'[b] = wrote[b] \/ wrote'[b] # "no", disk'[PathOf[b]] = disk[PathOf[b]]
    PROVE  (PathInv(b) => PathInv(b)') /\ (LiveInv(b) => LiveInv(b)')
<1>1. PathInv(b) => PathInv(b)'
  BY SamePlanStep DEF PathInv
<1>2. LiveInv(b) => LiveInv(b)'
  BY DEF LiveInv
<1> QED
  BY <1>1, <1>2

LEMMA PathLiveInit == Init => PathLiveInv
BY DEF Init, PathLiveInv, PathInv, LiveInv

LEMMA PathApply ==
    ASSUME OwnPaths, RunInv, PathLiveInv, NEW a \in Resource, Apply(a) \/ ApplyFails(a)
    PROVE  PathLiveInv'
<1>1. /\ phase = "run" /\ at[a] = "todo" /\ UNCHANGED <<config, records, phase, plan, op, live, counted>>
      /\ (wrote' = wrote \/ Wrote(a))
      /\ \/ /\ at' = [at EXCEPT ![a] = "failed"] /\ plan[a].action \notin {"adopt", "forget"}
            /\ (disk' = disk \/ disk' = [disk EXCEPT ![PathOf[a]] = Outcome(a)])
         \/ at' = [at EXCEPT ![a] = "applied"] /\ disk' = [disk EXCEPT ![PathOf[a]] = Outcome(a)]
  BY DEF Apply, ApplyFails, MayStart
<1>2. plan[a].action # "no-op" /\ PathOf[a] \in Path /\ disk \in [Path -> Version \cup {Missing}]
      /\ at \in [Resource -> {"todo", "applied", "settled", "failed"}]
      /\ \A b \in Resource : wrote[b] # "no" => wrote'[b] # "no"
  BY <1>1, ConstantsAssumption DEF RunInv, StepInv, TypeOK, Wrote
<1>3. PathInv(a)' /\ LiveInv(a)'
  <2>1. LiveInv(a)'
    BY <1>1, <1>2 DEF PathLiveInv, LiveInv
  <2>2. CASE at'[a] = "failed" /\ plan[a].action # "adopt"
    BY <1>1, <1>2, <2>1, <2>2 DEF PathInv
  <2>3. CASE at'[a] = "applied" /\ disk'[PathOf[a]] = Outcome(a)
    BY <1>1, <1>2, <2>1, <2>3 DEF PathLiveInv, PathInv, Outcome
  <2> QED
    BY <1>1, <1>2, <2>1, <2>2, <2>3
<1>4. ASSUME NEW b \in Resource, b # a PROVE PathInv(b)' /\ LiveInv(b)'
  <2>1. PathOf[b] # PathOf[a] /\ PathOf[b] \in Path
    BY <1>4, ConstantsAssumption DEF OwnPaths
  <2>2. disk'[PathOf[b]] = disk[PathOf[b]] /\ at'[b] = at[b]
    BY <1>1, <1>2, <1>4, <2>1
  <2> QED
    BY <1>1, <1>2, <2>2, PathUntouched DEF PathLiveInv, LiveInv
<1> QED
  BY <1>3, <1>4 DEF PathLiveInv

LEMMA PathWriteRecord ==
    ASSUME RunInv, PathLiveInv, NEW a \in Resource, WriteRecord(a) \/ WriteRecordFails(a)
    PROVE  PathLiveInv'
<1>1. /\ phase = "run" /\ at[a] = "applied" /\ UNCHANGED <<config, disk, phase, plan, op, live>>
      /\ at' = [at EXCEPT ![a] = at'[a]] /\ at'[a] \in {"settled", "failed"}
      /\ Keep(a) \/ UNCHANGED <<records, wrote, counted>>
  BY DEF WriteRecord, WriteRecordFails, RunInv, TypeOK
<1> DEFINE reason == IF plan[a].action # "adopt" \/ config[a].hook # "action" THEN "no"
                     ELSE IF wrote[a] = "no" THEN "found" ELSE "lost"
<1>2. /\ records' = [records EXCEPT ![a] = records'[a]]
      /\ counted' = [counted EXCEPT ![a] = counted'[a]]
      /\ wrote' = [wrote EXCEPT ![a] = wrote'[a]]
      /\ \/ /\ records'[a] = RecordAfter(a) /\ counted'[a] = reason
            /\ wrote'[a] = (IF RecordAfter(a) = NoRecord THEN "no" ELSE wrote[a])
         \/ records'[a] = records[a] /\ counted'[a] = counted[a] /\ wrote'[a] = wrote[a]
  BY <1>1 DEF RunInv, TypeOK, Keep
<1>3. plan[a].action # "no-op" /\ op[a] # "ran"
  BY <1>1 DEF RunInv, StepInv
<1>4. PathInv(a)'
  BY <1>1, <1>3 DEF PathLiveInv, PathInv
<1>5. LiveInv(a)'
  <2>1. CASE /\ records'[a] = RecordAfter(a) /\ counted'[a] = reason
             /\ wrote'[a] = (IF RecordAfter(a) = NoRecord THEN "no" ELSE wrote[a])
    <3>1. ASSUME reason # "no"
          PROVE  /\ RecordAfter(a) # NoRecord /\ RecordAfter(a).ownership = "adopted"
                 /\ reason = "lost" => wrote'[a] # "no"
      <4>1. plan[a].action = "adopt" /\ plan[a].ownership = "adopted"
        BY <3>1 DEF RunInv, WroteInv
      <4>2. RecordAfter(a) = NewRecord(a) /\ NewRecord(a) \in Record
        BY <1>1, <4>1, NewRecordType
      <4>3. NewRecord(a).ownership = "adopted" /\ NewRecord(a) # NoRecord
        BY <4>1, <4>2, AbsenceAssumption DEF NewRecord
      <4> QED
        BY <2>1, <4>2, <4>3
    <3>2. RecordAfter(a) # NoRecord /\ RecordAfter(a).done # Incomplete => reason # "no"
      BY DEF RecordAfter, NewRecord
    <3> HIDE DEF reason
    <3> QED
      BY <1>1, <1>3, <2>1, <3>1, <3>2 DEF LiveInv
  <2>2. CASE records'[a] = records[a] /\ counted'[a] = counted[a] /\ wrote'[a] = wrote[a]
    BY <1>1, <1>3, <2>2 DEF PathLiveInv, LiveInv
  <2> QED
    BY <1>2, <2>1, <2>2
<1>6. ASSUME NEW b \in Resource, b # a PROVE PathInv(b)' /\ LiveInv(b)'
  <2>1. /\ at'[b] = at[b] /\ records'[b] = records[b] /\ live'[b] = live[b]
        /\ counted'[b] = counted[b] /\ wrote'[b] = wrote[b]
    BY <1>1, <1>2, <1>6 DEF RunInv, TypeOK
  <2> QED
    BY <1>1, <2>1, PathUntouched DEF PathLiveInv
<1> QED
  BY <1>4, <1>5, <1>6 DEF PathLiveInv

LEMMA PathOperation ==
    ASSUME RunInv, PathLiveInv, NEW a \in Resource,
           RunOperation(a) \/ RunOperationFails(a) \/ CompleteOperation(a) \/ CompleteOperationFails(a)
    PROVE  PathLiveInv'
<1> DEFINE completed == [records EXCEPT ![a].done = records[a].digest]
<1>1. /\ phase = "run" /\ UNCHANGED <<config, disk, phase, plan, at, counted, wrote>>
      /\ op' = [op EXCEPT ![a] = op'[a]] /\ op[a] \in {"todo", "ran"}
      /\ live' = [live EXCEPT ![a] = live'[a]]
      /\ \/ /\ op[a] = "todo" /\ op'[a] = "ran" /\ at[a] = "settled"
            /\ records' = records /\ live'[a] = disk[PathOf[a]]
         \/ op'[a] # "ran" /\ records' = records /\ live'[a] = live[a]
         \/ op[a] = "ran" /\ op'[a] # "ran" /\ records' = completed /\ live'[a] = live[a]
  BY DEF RunOperation, RunOperationFails, CompleteOperation, CompleteOperationFails, RunInv, TypeOK
<1>2. /\ plan[a].action \in {"create", "update"} /\ config[a].hook = "action"
      /\ op[a] = "ran" => at[a] = "settled"
      /\ at[a] = "settled" => /\ records[a] # NoRecord /\ records[a].done = Incomplete
                              /\ records[a].digest = Digest(config[a])
  BY <1>1 DEF RunInv, StepInv
<1>3. op[a] = "ran" => /\ \A b \in Resource \ {a} : completed[b] = records[b]
                       /\ completed[a].done = Digest(config[a])
                       /\ completed[a] # NoRecord /\ completed[a].ownership = records[a].ownership
  <2> HAVE op[a] = "ran"
  <2>1. records[a] \in Record /\ records \in [Resource -> Record \cup {NoRecord}]
    BY <1>2 DEF RunInv, TypeOK
  <2>2. completed = [records EXCEPT ![a] = [records[a] EXCEPT !.done = records[a].digest]]
    OBVIOUS
  <2> QED
    BY <1>2, <2>1, <2>2, AbsenceAssumption DEF Record
<1> HIDE DEF completed
<1>4. PathInv(a)'
  BY <1>1, <1>2 DEF PathLiveInv, PathInv
<1>5. LiveInv(a)'
  <2>1. CASE op'[a] = "ran" /\ at[a] = "settled" /\ records' = records /\ live'[a] = disk[PathOf[a]]
    BY <1>1, <1>2, <2>1 DEF PathLiveInv, PathInv, LiveInv
  <2>2. CASE op'[a] # "ran" /\ records' = records /\ live'[a] = live[a]
    BY <1>1, <2>2 DEF PathLiveInv, LiveInv
  <2>3. CASE op[a] = "ran" /\ op'[a] # "ran" /\ records' = completed /\ live'[a] = live[a]
    BY <1>1, <1>3, <2>3 DEF PathLiveInv, LiveInv, Digest
  <2> QED
    BY <1>1, <2>1, <2>2, <2>3
<1>6. ASSUME NEW b \in Resource, b # a PROVE PathInv(b)' /\ LiveInv(b)'
  <2>1. op'[b] = op[b] /\ live'[b] = live[b]
    BY <1>1, <1>6 DEF RunInv, TypeOK
  <2>2. records'[b] = records[b]
    BY <1>1, <1>3, <1>6
  <2> QED
    BY <1>1, <2>1, <2>2, PathUntouched DEF PathLiveInv
<1> QED
  BY <1>4, <1>5, <1>6 DEF PathLiveInv

LEMMA PathLiveNext ==
    ASSUME OwnPaths, RunInv, PathLiveInv, [Next]_vars
    PROVE  PathLiveInv'
<1>1. CASE Plan
  <2>1. /\ UNCHANGED <<config, disk, records, live, counted, wrote>> /\ phase' = "run"
        /\ plan' = [a \in Resource |-> PlanStep(a)]
        /\ at' = [a \in Resource |-> IF PlanStep(a).action = "no-op" THEN "settled" ELSE "todo"]
        /\ op' = [a \in Resource |-> IF Triggers(a) THEN "todo" ELSE "none"]
    BY <1>1 DEF Plan
  <2>2. ASSUME NEW a \in Resource PROVE PathInv(a)' /\ LiveInv(a)'
    <3>1. PlanStep(a)' = PlanStep(a) /\ plan'[a] = PlanStep(a)
      BY <2>1, SamePlanStep
    <3>2. at'[a] = (IF PlanStep(a).action = "no-op" THEN "settled" ELSE "todo") /\ op'[a] # "ran"
      BY <2>1
    <3>3. PlanStep(a).action = "adopt" => disk[PathOf[a]] = config[a].want
      BY PlanStepTells DEF RunInv
    <3>4. PathInv(a)'
      BY <2>1, <3>1, <3>2, <3>3 DEF PathInv
    <3>5. LiveInv(a)'
      BY <2>1, <3>2 DEF PathLiveInv, LiveInv
    <3> QED
      BY <3>4, <3>5
  <2> QED
    BY <2>2 DEF PathLiveInv
<1>2. CASE Refuse \/ Crash \/ Edit \/ Drift
  <2>1. UNCHANGED <<records, live, counted, wrote>> /\ phase' \in {"refused", "failed", "idle"}
    BY <1>2 DEF Refuse, Crash, Edit, Drift
  <2> QED
    BY <2>1 DEF PathLiveInv, PathInv, LiveInv
<1>3. CASE Finish
  <2>1. UNCHANGED <<config, disk, records, plan, at, op, live, counted, wrote>> /\ phase = "run" /\ phase' # "run"
    BY <1>3 DEF Finish
  <2>2. ASSUME NEW a \in Resource PROVE PathInv(a)' /\ LiveInv(a)'
    <3>1. PlanStep(a)' = PlanStep(a)
      BY <2>1, SamePlanStep
    <3>2. PathInv(a)'
      BY <2>1, <3>1 DEF PathLiveInv, PathInv
    <3>3. LiveInv(a)'
      BY <2>1 DEF PathLiveInv, LiveInv
    <3> QED
      BY <3>2, <3>3
  <2> QED
    BY <2>2 DEF PathLiveInv
<1>4. CASE \E a \in Resource : Step(a)
  BY <1>4, PathApply, PathWriteRecord, PathOperation DEF Step
<1>5. CASE UNCHANGED vars
  BY <1>5, PathUntouched DEF vars, PathLiveInv
<1> QED
  BY <1>1, <1>2, <1>3, <1>4, <1>5 DEF Next

\* What the step planned next for an address tells when it is none.
LEMMA NothingToDo ==
    ASSUME TypeOK, NEW a \in Resource, Declared(a), PlanStep(a).action = "no-op"
    PROVE  /\ disk[PathOf[a]] = IF config[a].ensure = "present" THEN config[a].want ELSE Missing
           /\ config[a].ensure = "present" =>
                records[a] # NoRecord /\ (KindOf[a] # "directory" => ~CompletionPending(a))
<1>1. config[a] \in Node /\ PlanStep(a) = PlanNode(a) /\ config[a].ensure \in {"present", "absent"}
      /\ config[a].want # Missing
  BY AbsenceAssumption DEF TypeOK, Declared, PlanStep, Node
<1>2. CASE config[a].ensure = "absent"
  <2>1. disk[PathOf[a]] # Missing => PlanNode(a).action = "delete"
    BY <1>2 DEF PlanNode
  <2> QED
    BY <1>1, <1>2, <2>1
<1>3. CASE config[a].ensure = "present"
  <2>1. disk[PathOf[a]] = Missing => PlanNode(a).action = "create"
    BY <1>1, <1>3 DEF PlanNode
  <2>2. disk[PathOf[a]] \notin {Missing, config[a].want} => PlanNode(a).action = "update"
    BY <1>3 DEF PlanNode
  <2>3. disk[PathOf[a]] = config[a].want
    BY <1>1, <2>1, <2>2
  <2>4. PlanNode(a).action = IF KindOf[a] # "directory" /\ (CompletionPending(a) \/ ActionRemoved(a))
                               THEN "update" ELSE IF records[a] = NoRecord THEN "adopt" ELSE "no-op"
    BY <1>1, <1>3, <2>3 DEF PlanNode, InSync
  <2> QED
    BY <1>1, <1>3, <2>3, <2>4
<1> QED
  BY <1>1, <1>2, <1>3

LEMMA DoneMeansNoOp ==
    ASSUME RunInv, PathLiveInv, phase = "done", NEW a \in Resource
    PROVE  PlanStep(a).action = "no-op"
<1>1. /\ at[a] = "settled" /\ op[a] \in {"none", "ok"} /\ plan[a] \in PlanSteps
      /\ records[a] \in Record \cup {NoRecord} /\ config[a] \in Node \cup {Undeclared}
  BY DEF RunInv, StepInv, TypeOK
<1>2. CASE plan[a].action = "no-op"
  BY <1>2 DEF PathLiveInv, PathInv
<1>3. CASE plan[a].action \in {"destroy", "forget"}
  <2>1. ~Declared(a) /\ records[a] = NoRecord
    BY <1>1, <1>3 DEF RunInv, StepInv
  <2> QED
    BY <2>1 DEF PlanStep, NoStep
<1>4. CASE plan[a].action = "delete"
  <2>1. Declared(a) /\ config[a].ensure = "absent" /\ records[a] = NoRecord /\ disk[PathOf[a]] = Missing
    BY <1>1, <1>4 DEF RunInv, StepInv, PathLiveInv, PathInv
  <2> QED
    BY <2>1 DEF PlanStep, PlanNode, AbsentInSync
<1>5. CASE plan[a].action \in {"create", "update", "adopt"}
  <2>1. /\ Declared(a) /\ config[a].ensure = "present" /\ records[a] # NoRecord
        /\ records[a].digest = Digest(config[a]) /\ disk[PathOf[a]] = config[a].want
        /\ config[a].hook = "action" => records[a].done = Digest(config[a])
    BY <1>1, <1>5 DEF RunInv, StepInv, PathLiveInv, PathInv
  <2>2. ~CompletionPending(a) /\ ~ActionRemoved(a)
    <3>1. ~CompletionPending(a)
      BY <2>1 DEF CompletionPending
    <3>2. records[a].digest.action = (config[a].hook = "action")
      BY <2>1 DEF Digest
    <3>3. ~ActionRemoved(a)
      BY <3>2 DEF ActionRemoved
    <3> QED
      BY <3>1, <3>3
  <2>3. config[a].want # Missing
    BY <1>1, <2>1, AbsenceAssumption DEF Declared, Node
  <2>4. PlanNode(a) = InSync(a)
    BY <2>1, <2>2, <2>3 DEF PlanNode
  <2> QED
    BY <2>1, <2>4 DEF PlanStep, InSync
<1> QED
  BY <1>1, <1>2, <1>3, <1>4, <1>5 DEF PlanSteps

\* A run without an error leaves the host as declared and the next plan empty,
\* for every history of edits, drift, failures and crashes, where no path passes
\* from one address to another (Engine.Plan after runExecutionWaves).
THEOREM ConvergedCorrect == ASSUME OwnPaths PROVE Spec => []Converged
<1>1. RunInv /\ PathLiveInv => Converged
  BY DoneMeansNoOp, NothingToDo DEF RunInv, Converged
<1>2. RunInv /\ PathLiveInv /\ [Next]_vars => PathLiveInv'
  BY PathLiveNext
<1> QED
  BY <1>1, <1>2, RunInit, RunNext, PathLiveInit, PTL DEF Spec

\* ... and every change action has run for the unit in place, however often it or
\* its completion failed before, except for a unit that was found as it is or that
\* dbf wrote, lost the record of and adopted (changeActionCompletionPending,
\* completeChangeActionOnAdopt, recordOperationOutputs).
THEOREM ActionNotForgottenCorrect == ASSUME OwnPaths PROVE Spec => []ActionNotForgotten
<1>1. RunInv /\ PathLiveInv => ActionNotForgotten
  <2> SUFFICES ASSUME RunInv, PathLiveInv, phase = "done", NEW a \in Resource, Declared(a), config[a].hook = "action"
               PROVE  \/ disk[PathOf[a]] = live[a]
                      \/ counted[a] = "found"
                      \/ counted[a] = "lost" /\ wrote[a] # "no" /\ records[a].ownership = "adopted"
    BY DEF ActionNotForgotten
  <2>1. KindOf[a] = "unit" /\ config[a].ensure = "present"
    BY DEF RunInv, ValidConfig, Declared
  <2>2. disk[PathOf[a]] = config[a].want /\ records[a] # NoRecord /\ ~CompletionPending(a)
    BY <2>1, DoneMeansNoOp, NothingToDo DEF RunInv
  <2>3. records[a].done = Digest(config[a]) /\ Digest(config[a]) # Incomplete
    <3>1. config[a] \in Node
      BY DEF RunInv, TypeOK, Declared
    <3>2. Digest(config[a]) \in Digests
      BY <3>1 DEF Digest, Digests, Node
    <3> QED
      BY <2>2, <3>2, AbsenceAssumption DEF CompletionPending
  <2>4. live[a] = records[a].done.want \/ counted[a] # "no"
    BY <2>2, <2>3 DEF PathLiveInv, LiveInv
  <2>5. counted[a] \in {"no", "found", "lost"}
    BY DEF RunInv, TypeOK
  <2> QED
    BY <2>2, <2>3, <2>4, <2>5 DEF Digest, PathLiveInv, LiveInv
<1>2. RunInv /\ PathLiveInv /\ [Next]_vars => PathLiveInv'
  BY PathLiveNext
<1> QED
  BY <1>1, <1>2, RunInit, RunNext, PathLiveInit, PTL DEF Spec
=============================================================================
