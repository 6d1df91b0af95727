------------------------------ MODULE Converge ------------------------------
(***************************************************************************)
(* Planning and applying one host's file-like resources over several runs, *)
(* with edits of the configuration, drift and crashes between them         *)
(* (Engine.Plan, orphanSteps, operationSteps, executeResourceStep and      *)
(* recordOperationOutputs in internal/core/engine/engine.go, planFileLike, *)
(* applyFileLike and planDirectory in provider_files.go, the decisions in  *)
(* provider_values.go, Destroy in provider.go).                            *)
(*                                                                         *)
(* A resource wants a version of what is at its path: content, owner and   *)
(* mode in one.  A unit may name a change action, which the state records  *)
(* when it is complete.  (The scripts of a file's on_change are left out.) *)
(* Items of a run are independent here; how they wait for one another and  *)
(* write the state in parallel is in ExecutionWaves and Executor.          *)
(***************************************************************************)
EXTENDS Integers, FiniteSets

CONSTANTS
    Resource,       \* addresses
    KindOf,         \* "file", "unit" or "directory"
    Path,
    PathOf,         \* an address stands for one path
    Version,        \* what can be at a path
    Hooks,          \* hooks the configurations use: "none", "action"
    Missing,        \* what is at a path where there is nothing
    Undeclared,     \* the declaration of an address that has none
    NoRecord,       \* the record of an address that has none
    Incomplete,     \* the completion of an action that has none
    Budgets         \* bounds of the behaviours to consider: the addresses that are
                    \* declared, edits of the configuration, changes of the host
                    \* by others, and calls that fail or crashes

ASSUME ConstantsAssumption ==
    /\ KindOf \in [Resource -> {"file", "unit", "directory"}]
    /\ PathOf \in [Resource -> Path]
    /\ Hooks \subseteq {"none", "action"}
    /\ Budgets \subseteq [scope : SUBSET Resource, edits : Nat, drift : Nat, faults : Nat]

Node == [ensure : {"present", "absent"}, want : Version, hook : Hooks, protect : BOOLEAN]

\* What the digest of a node's desired values tells apart.  Lifecycle and
\* on_change are not among them.
Digest(n) == [ensure |-> n.ensure, want |-> n.want, action |-> n.hook = "action"]

Digests == [ensure : {"present", "absent"}, want : Version, action : BOOLEAN]

Record ==
    [digest : Digests, ownership : {"managed", "adopted"},
     done : Digests \cup {Incomplete}, protect : BOOLEAN]

ASSUME AbsenceAssumption ==
    /\ Missing \notin Version
    /\ Undeclared \notin Node
    /\ NoRecord \notin Record
    /\ Incomplete \notin Digests

VARIABLES
    config,     \* the configuration: a node or nothing for every address
    disk,       \* what is at each path
    records,    \* the host's state file
    phase,      \* "idle", "run", "done", "failed" or "refused"
    plan,       \* action and ownership of every step
    at,         \* how far each step is
    op,         \* how far each step's operation is
    live,       \* the version each resource's action last ran for
    counted,    \* whether the record counts an action as done because its unit
                \* was adopted: "no", "found" (somebody else's unit) or "lost"
                \* (dbf wrote the unit itself, and no record of it was kept)
    wrote,      \* whether dbf has created or updated what is there since it last
                \* dropped its record: "no", "update" or "create"
    applied,    \* the last configuration that a run applied to its end
    left        \* what is left of the behaviour's budget

vars == <<config, disk, records, phase, plan, at, op, live, counted, wrote, applied, left>>

Declared(a) == config[a] # Undeclared
NoStep == [action |-> "no-op", ownership |-> "managed"]
PlanSteps ==
    [action : {"no-op", "create", "update", "delete", "adopt", "destroy", "forget"},
     ownership : {"managed", "adopted"}]

\* What merge lets through: one declaration for a path, and no change action
\* for a unit that is to be absent.
ValidConfig(cf) ==
    /\ \A a \in Resource : cf[a] # Undeclared /\ cf[a].hook = "action" =>
         KindOf[a] = "unit" /\ cf[a].ensure = "present"
    /\ \A a, b \in Resource : a # b /\ PathOf[a] = PathOf[b] =>
         cf[a] = Undeclared \/ cf[b] = Undeclared

\* The paths that a behaviour with this budget is about; nothing is elsewhere.
InScope(p) == \E a \in left.scope : PathOf[a] = p

Init ==
    /\ left \in Budgets
    /\ config = [a \in Resource |-> Undeclared]
    /\ disk \in [Path -> Version \cup {Missing}]
    /\ \A p \in Path : ~InScope(p) => disk[p] = Missing
    /\ records = [a \in Resource |-> NoRecord]
    /\ phase = "idle"
    /\ plan = [a \in Resource |-> NoStep]
    /\ at = [a \in Resource |-> "settled"]
    /\ op = [a \in Resource |-> "none"]
    /\ live = [a \in Resource |-> Missing]
    /\ counted = [a \in Resource |-> "no"]
    /\ wrote = [a \in Resource |-> "no"]
    /\ applied = config

-----------------------------------------------------------------------------
(* The plan.                                                               *)

\* ownership
Ownership(a) == IF records[a] = NoRecord THEN "managed" ELSE records[a].ownership

\* Mutant: what is in sync is never looked at again.
NeverPending(a) == FALSE

\* changeActionCompletionPending
CompletionPending(a) ==
    /\ config[a].hook = "action"
    /\ records[a] # NoRecord
    /\ records[a].done # Digest(config[a])

\* changeActionConfigurationRemoved
ActionRemoved(a) ==
    /\ config[a].hook # "action"
    /\ records[a] # NoRecord
    /\ records[a].digest.action

\* Mutant: what was found in place is managed like what was made.
InSyncManaged(a) ==
    IF records[a] = NoRecord
      THEN [action |-> "adopt", ownership |-> "managed"]
      ELSE [action |-> "no-op", ownership |-> Ownership(a)]

\* inSyncPlan
InSync(a) ==
    IF records[a] = NoRecord
      THEN [action |-> "adopt", ownership |-> "adopted"]
      ELSE [action |-> "no-op", ownership |-> Ownership(a)]

\* absentInSyncPlan
AbsentInSync(a) ==
    [action |-> IF records[a] = NoRecord THEN "no-op" ELSE "delete", ownership |-> Ownership(a)]

\* planFileLike and planDirectory
PlanNode(a) ==
    LET there == disk[PathOf[a]]
        step(action) == [action |-> action, ownership |-> Ownership(a)]
    IN  CASE config[a].ensure = "absent" /\ there # Missing -> step("delete")
          [] config[a].ensure = "absent" /\ there = Missing -> AbsentInSync(a)
          [] config[a].ensure = "present" /\ there = Missing -> step("create")
          [] config[a].ensure = "present" /\ there \notin {Missing, config[a].want} -> step("update")
          [] config[a].ensure = "present" /\ there = config[a].want ->
               IF KindOf[a] # "directory" /\ (CompletionPending(a) \/ ActionRemoved(a))
                 THEN step("update")
                 ELSE InSync(a)

\* Mutant: an orphan is destroyed whoever else declares its directory.
NeverStillManaged(a) == FALSE

\* desiredStillManagesOrphan
StillManaged(a) ==
    /\ KindOf[a] = "directory"
    /\ \E b \in Resource :
         /\ Declared(b) /\ KindOf[b] = "directory"
         /\ PathOf[b] = PathOf[a]
         /\ config[b].ensure = records[a].digest.ensure
         /\ config[b].want = records[a].digest.want

\* orphanSteps
PlanOrphan(a) ==
    [action |-> IF records[a].ownership = "adopted" \/ StillManaged(a) THEN "forget" ELSE "destroy",
     ownership |-> "managed"]

PlanStep(a) ==
    CASE Declared(a) -> PlanNode(a)
      [] ~Declared(a) /\ records[a] # NoRecord -> PlanOrphan(a)
      [] OTHER -> NoStep

\* preventsDestroy, for a node and for an orphan
Protected(a) ==
    /\ PlanStep(a).action \in {"delete", "destroy"}
    /\ IF Declared(a) THEN config[a].protect ELSE records[a].protect

\* triggersOperation, operationSteps
Triggers(a) ==
    /\ Declared(a) /\ config[a].hook # "none"
    /\ PlanStep(a).action \in {"create", "update", "delete"}

Ended == phase \in {"idle", "done", "failed", "refused"}

Refuse ==
    /\ Ended /\ phase # "refused"
    /\ \E a \in Resource : Protected(a)
    /\ phase' = "refused"
    /\ UNCHANGED <<config, disk, records, plan, at, op, live, counted, wrote, applied, left>>

Plan ==
    /\ Ended /\ phase # "done"
    /\ \A a \in Resource : ~Protected(a)
    /\ phase' = "run"
    /\ plan' = [a \in Resource |-> PlanStep(a)]
    /\ at' = [a \in Resource |-> IF PlanStep(a).action = "no-op" THEN "settled" ELSE "todo"]
    /\ op' = [a \in Resource |-> IF Triggers(a) THEN "todo" ELSE "none"]
    /\ UNCHANGED <<config, disk, records, live, counted, wrote, applied, left>>

-----------------------------------------------------------------------------
(* Executing it.                                                           *)

\* One of the faults of the behaviour.
Fault == left.faults > 0 /\ left' = [left EXCEPT !.faults = @ - 1]

Orphan(a) == plan[a].action \in {"destroy", "forget"}

\* executionWaves: orphans come first.
MayStart(a) ==
    /\ phase = "run" /\ at[a] = "todo"
    /\ Orphan(a) \/ \A b \in Resource : Orphan(b) => at[b] \in {"settled", "failed"}

\* Provider.Apply and Provider.Destroy change the host; adopt and forget do not.
Outcome(a) ==
    CASE plan[a].action \in {"create", "update"} -> config[a].want
      [] plan[a].action \in {"delete", "destroy"} -> Missing
      [] OTHER -> disk[PathOf[a]]

Wrote(a) ==
    wrote' = [wrote EXCEPT ![a] =
        IF plan[a].action \in {"create", "update"} /\ @ # "create" THEN plan[a].action ELSE @]

Apply(a) ==
    /\ MayStart(a)
    /\ disk' = [disk EXCEPT ![PathOf[a]] = Outcome(a)]
    /\ Wrote(a)
    /\ at' = [at EXCEPT ![a] = "applied"]
    /\ UNCHANGED <<config, records, phase, plan, op, live, counted, applied, left>>

\* The call fails, before or after the host was changed.
ApplyFails(a) ==
    /\ MayStart(a)
    /\ plan[a].action \notin {"adopt", "forget"}
    /\ Fault
    /\ \/ UNCHANGED <<disk, wrote>>
       \/ /\ disk' = [disk EXCEPT ![PathOf[a]] = Outcome(a)]
          /\ Wrote(a)
    /\ at' = [at EXCEPT ![a] = "failed"]
    /\ UNCHANGED <<config, records, phase, plan, op, live, counted, applied>>

\* resourceStateForStep, with what Apply observed; completeChangeActionOnAdopt
NewRecord(a) ==
    [digest |-> Digest(config[a]), ownership |-> plan[a].ownership,
     done |-> IF plan[a].action = "adopt" /\ config[a].hook = "action"
                THEN Digest(config[a]) ELSE Incomplete,
     protect |-> config[a].protect]

RecordAfter(a) ==
    IF plan[a].action \in {"create", "update", "adopt"} THEN NewRecord(a) ELSE NoRecord

Keep(a) ==
    /\ records' = [records EXCEPT ![a] = RecordAfter(a)]
    /\ wrote' = [wrote EXCEPT ![a] = IF RecordAfter(a) = NoRecord THEN "no" ELSE @]
    /\ counted' = [counted EXCEPT ![a] =
           IF plan[a].action # "adopt" \/ config[a].hook # "action" THEN "no"
           ELSE IF wrote[a] = "no" THEN "found" ELSE "lost"]

\* The state with the step's record is written.
WriteRecord(a) ==
    /\ phase = "run" /\ at[a] = "applied"
    /\ Keep(a)
    /\ at' = [at EXCEPT ![a] = "settled"]
    /\ UNCHANGED <<config, disk, phase, plan, op, live, applied, left>>

\* The write fails, before or after the file was replaced.
WriteRecordFails(a) ==
    /\ phase = "run" /\ at[a] = "applied"
    /\ Fault
    /\ Keep(a) \/ UNCHANGED <<records, wrote, counted>>
    /\ at' = [at EXCEPT ![a] = "failed"]
    /\ UNCHANGED <<config, disk, phase, plan, op, live, applied>>

\* Provider.RunOperation
RunOperation(a) ==
    /\ phase = "run" /\ op[a] = "todo" /\ at[a] = "settled"
    /\ live' = [live EXCEPT ![a] = disk[PathOf[a]]]
    /\ op' = [op EXCEPT ![a] = "ran"]
    /\ UNCHANGED <<config, disk, records, phase, plan, at, counted, wrote, applied, left>>

\* The operation fails, or is blocked by its step.
RunOperationFails(a) ==
    /\ phase = "run" /\ op[a] = "todo"
    /\ \/ at[a] = "failed" /\ left' = left
       \/ at[a] = "settled" /\ Fault
    /\ op' = [op EXCEPT ![a] = "failed"]
    /\ UNCHANGED <<config, disk, records, phase, plan, at, live, counted, wrote, applied>>

\* Mutant: a completion is not kept.
CompleteNothing(a) ==
    /\ phase = "run" /\ op[a] = "ran"
    /\ op' = [op EXCEPT ![a] = "ok"]
    /\ UNCHANGED <<config, disk, records, phase, plan, at, live, counted, wrote, applied, left>>

\* recordOperationOutputs: an operation with a completion writes the digest of
\* the record it completes.
CompleteOperation(a) ==
    /\ phase = "run" /\ op[a] = "ran"
    /\ op' = [op EXCEPT ![a] = "ok"]
    /\ records' = IF config[a].hook = "action"
                    THEN [records EXCEPT ![a].done = records[a].digest] ELSE records
    /\ UNCHANGED <<config, disk, phase, plan, at, live, counted, wrote, applied, left>>

\* ... or its write fails, before or after the file was replaced.
CompleteOperationFails(a) ==
    /\ phase = "run" /\ op[a] = "ran" /\ config[a].hook = "action"
    /\ Fault
    /\ op' = [op EXCEPT ![a] = "failed"]
    /\ records' \in {records, [records EXCEPT ![a].done = records[a].digest]}
    /\ UNCHANGED <<config, disk, phase, plan, at, live, counted, wrote, applied>>

Finish ==
    /\ phase = "run"
    /\ \A a \in Resource : at[a] \in {"settled", "failed"} /\ op[a] \in {"none", "ok", "failed"}
    /\ LET good == \A a \in Resource : at[a] = "settled" /\ op[a] # "failed"
       IN  /\ phase' = IF good THEN "done" ELSE "failed"
           /\ applied' = IF good THEN config ELSE applied
    /\ UNCHANGED <<config, disk, records, plan, at, op, live, counted, wrote, left>>

-----------------------------------------------------------------------------
(* The environment.                                                        *)

\* The run dies.
Crash ==
    /\ phase = "run"
    /\ Fault
    /\ phase' = "failed"
    /\ UNCHANGED <<config, disk, records, plan, at, op, live, counted, wrote, applied>>

\* The user edits the configuration.
Edit ==
    /\ Ended /\ left.edits > 0
    /\ left' = [left EXCEPT !.edits = @ - 1]
    /\ \E S \in SUBSET left.scope : \E n \in [S -> Node \cup {Undeclared}] :
         LET cf == [a \in Resource |-> IF a \in S THEN n[a] ELSE config[a]]
         IN  cf # config /\ ValidConfig(cf) /\ config' = cf
    /\ phase' = "idle"
    /\ UNCHANGED <<disk, records, plan, at, op, live, counted, wrote, applied>>

\* Somebody else changes the host.
Drift ==
    /\ Ended /\ left.drift > 0
    /\ left' = [left EXCEPT !.drift = @ - 1]
    /\ \E p \in Path, v \in Version \cup {Missing} :
         InScope(p) /\ v # disk[p] /\ disk' = [disk EXCEPT ![p] = v]
    /\ phase' = "idle"
    /\ UNCHANGED <<config, records, plan, at, op, live, counted, wrote, applied>>

Step(a) ==
    \/ Apply(a) \/ ApplyFails(a) \/ WriteRecord(a) \/ WriteRecordFails(a)
    \/ RunOperation(a) \/ RunOperationFails(a)
    \/ CompleteOperation(a) \/ CompleteOperationFails(a)

Next ==
    \/ Plan \/ Refuse \/ Finish \/ Crash \/ Edit \/ Drift
    \/ \E a \in Resource : Step(a)

Spec == Init /\ [][Next]_vars

-----------------------------------------------------------------------------
(* Properties.                                                             *)

TypeOK ==
    /\ config \in [Resource -> Node \cup {Undeclared}]
    /\ disk \in [Path -> Version \cup {Missing}]
    /\ records \in [Resource -> Record \cup {NoRecord}]
    /\ phase \in {"idle", "run", "done", "failed", "refused"}
    /\ plan \in [Resource -> PlanSteps]
    /\ at \in [Resource -> {"todo", "applied", "settled", "failed"}]
    /\ op \in [Resource -> {"none", "todo", "ran", "ok", "failed"}]
    /\ live \in [Resource -> Version \cup {Missing}]
    /\ counted \in [Resource -> {"no", "found", "lost"}]
    /\ wrote \in [Resource -> {"no", "update", "create"}]
    /\ left \in [scope : SUBSET Resource, edits : Nat, drift : Nat, faults : Nat]

\* After a run without an error nothing is left to do, whatever failed or died
\* before it: the host is as declared and the next plan is empty.
Converged ==
    phase = "done" =>
        \A a \in Resource :
            /\ PlanStep(a).action = "no-op"
            /\ Declared(a) => disk[PathOf[a]] = IF config[a].ensure = "present"
                                                  THEN config[a].want ELSE Missing

\* A run removes only what is declared absent or what dbf has written itself
\* since it began to keep a record of it.  What was found in place is never
\* destroyed, also when a run died before it could say what it had done.
RemovesOnlyItsOwn ==
    [][\A a \in Resource :
         at[a] = "todo" /\ at'[a] # "todo" /\ plan[a].action = "destroy" => wrote[a] # "no"]_vars

\* When a run ends without an error, every change action has run for the unit
\* that is in place, however often it or the record of its completion failed
\* before, with two exceptions: the unit was found as it is, or dbf had written
\* it, lost the record and adopted its own unit.  In the second case the action
\* never runs (completeChangeActionOnAdopt), against CHANGELOG.md:41-42 and
\* docs/systemd-service-units.md:156-158: see CompletedAfterRun.
ActionNotForgotten ==
    phase = "done" => \A a \in Resource :
        Declared(a) /\ config[a].hook = "action" =>
            \/ disk[PathOf[a]] = live[a]
            \/ counted[a] = "found"
            \/ counted[a] = "lost" /\ wrote[a] # "no" /\ records[a].ownership = "adopted"

\* What CHANGELOG.md says of change actions: a completion is recorded only after
\* the command ran for the unit, unless the unit was found as it is and dbf had
\* not written it.
CompletedAfterRun ==
    [][\A a \in Resource :
         records'[a] # NoRecord /\ records'[a] # records[a] /\ records'[a].done # Incomplete =>
            wrote[a] = "no" \/ live[a] = records'[a].done.want]_vars

\* What docs/operations-runbook.md says of prevent_destroy: what a configuration
\* protects that was applied is not destroyed when its declaration goes.
ProtectionHolds ==
    [][\A a \in Resource :
         at[a] = "todo" /\ at'[a] # "todo" /\ plan[a].action = "destroy" =>
            ~(applied[a] # Undeclared /\ applied[a].protect)]_vars
=============================================================================
