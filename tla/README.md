# DebianForm in TLA+

DebianForm (`dbf`) reads host declarations, compiles them into a resource graph,
compares the graph with the hosts over SSH, and applies the difference.  This
directory holds a TLA+ model of the parts where order, failure and concurrency
decide whether that goes well, the TLC configurations that check it on small
instances, and proofs for every instance.

Paths below are relative to `src/internal/core/` unless they begin with `cmd/`
or `docs/`.

## 1. The system

One run of `dbf apply` goes through these parts.

| part | state it keeps | operations | what makes it correct |
|---|---|---|---|
| parser, merge (`parser/`, `merge/`) | none between runs | parse files, evaluate locals and variables, merge profiles, instantiate components | precedence and conflicts are decided the same way whatever the file order |
| graph compilation (`graph/graph*.go`) | the resource graph: nodes, operations, `DependsOn`, `TriggeredBy` | one part of `compileHost` per kind of declaration | what is accepted compiles without a cycle; what an item needs is in place before its turn |
| graph validation and scheduling (`graph/schedule.go`) | none | `Validate`, `Waves`, `ActiveWavesWithAliases` | waves respect the edges, run everything once, and what validates can be scheduled |
| planner (`engine/engine.go`, `bulk_plan.go`) | the plan: one action per node, orphans, operations, moves | `Plan`, `Compare`, `orphanSteps`, `operationSteps` | a second run after a good one finds nothing to do; nothing protected or foreign is destroyed |
| moved blocks (`state/moved.go`) | none | `ResolveMoves` | a record is renamed once, never merged with or dropped for another |
| host locks (`engine/engine.go`) | held locks, lease monitor | `lockHosts`, `unlockHosts`, `newLockLeaseMonitor` | all locks or none; a lost lease stops the run |
| state lock (`engine/ssh_backend.go`) | on the host: lease record, lock directory, marker, guard; in the client: token, renewal ticker | `Lock`, `keepAlive`, `renew`, `Unlock` | one holder at a time, and a dead one can be replaced |
| execution (`engine/engine.go`) | item results, semaphores, the engine's copy of every host's state | `runExecutionWaves`, `executeItem`, `executeResourceStep`, `recordOperationOutputs` | nothing runs after a failed dependency, no state update is lost, the run ends |
| state file (`state/state.go`, `engine/ssh_backend.go`) | serial, records, dependency references | `Read`, `PrepareWrite`, `Write` | every record that was committed stays until it is removed |
| providers (`engine/provider*.go`) | the host itself | `Plan`, `Apply`, `Destroy`, `RunOperation` | applying what was planned makes the next comparison empty |
| remote calls (`engine/ssh.go`, `debug_runner.go`) | authentication slot, counters of the debugger | `Run`, `before`, `failed` | one first authentication at a time, no call that nobody asked for, no waiter forgotten |
| command line (`cmd/dbf/main.go`) | variables, facts, preview, the approved plan | validate, plan, check, apply | what runs is what was approved, and the last word is true |
| documents and output (`plan/`, `progress.go`, `termstyle/`) | none | formatting | no state |

They meet in three places.  *Calls*: the command line calls the engine, the
engine calls provider and backend, both go through the SSH runner.  *Shared
memory*: the goroutines of a wave share the map of states, one mutex per host
and two levels of semaphores; the lease monitor shares the context with all of
them.  *The host's file system*: two runs of `dbf`, on different machines, meet
only in the lock files and the state file.

What is hard: a script sent over SSH outlives the call that sent it, so a failed
call says nothing about its effect; leases expire by a clock while clients are
slow; a lock script can die between any two file operations; edges of the graph
turn round for resources that are destroyed; goroutines of one host copy, change
and write the same state; a host changes between the preview, the lock, the plan
and the execution; a provider's script is cut off between two commands.

## 2. Modules

| module | models | kind |
|---|---|---|
| `StateLock` | the version 2 lock of one host | component |
| `StateLockProofs` | its invariants, proved | proofs |
| `MCStateLock` | instances of it | model checking |
| `ExecutionWaves` | from plan to waves | component |
| `ExecutionWavesProofs` | what a schedule promises, proved | proofs |
| `MCExecutionWaves` | all small graphs and plans | model checking |
| `DependencyRun` | what executing a plan promises | abstract specification |
| `Executor` | executing the waves, with the state writes | component, implements `DependencyRun` |
| `ExecutorProofs` | its invariants and the refinement, proved | proofs |
| `MCExecutor` | one plan with every kind of item | model checking |
| `LeaseLock` | what one host's lock promises | abstract specification, implemented by `StateLock` |
| `HostLocks` | several hosts' locks, the lease monitor and the phases of an apply | component |
| `HostLocksProofs` | its invariants, proved | proofs |
| `MCHostLocks` | instances of it | model checking |
| `Moves` | `moved` blocks from the plan to the prepared state | component |
| `MovesProofs` | facts about chains, and its properties, proved | proofs |
| `MCMoves` | instances of it | model checking |
| `Converge` | planning and applying file-like resources over several runs | component |
| `ConvergeProofs` | its properties, proved | proofs |
| `MCConverge` | instances of it | model checking |
| `HostGraph` | one host from its declarations over validation and compilation to the order of its run | component |
| `MCHostGraph` | a pool of declarations | model checking |
| `ProviderKinds` | what plan, apply, destroy and the diagnostics do for every kind | operators |
| `Providers` | one resource of any kind over several runs with faults | component, uses `ProviderKinds` |
| `ProvidersProofs` | its properties, kind by kind, proved | proofs |
| `MCProviders` | instances of it | model checking |
| `Session` | one invocation of `dbf` from flags to exit code while others change the host | component |
| `SessionProofs` | its invariants and those of `RemoteCalls`, proved | proofs |
| `MCSession` | command lines and hosts | model checking |
| `RemoteCalls` | the first authentication and the debugger around remote calls | component |
| `MCRemoteCalls` | instances of it | model checking |

Operators whose comment begins with `Mutant:` are variants of the definition
that follows them, each with a plausible mistake.  No specification uses them:
with one in place of the definition, TLC must find the property it is listed
for in `PROJECT.json` violated.

### StateLock

State: the files `record` (`lock_path`), `lockDir`, `marker` (`owner.v2`) with
contents and modification times, the `guard` (the flock, with the clock reading
the script in it took); for each attempt the control points of its three scripts
(`lockPC`, `renewPC`, `unlockPC`), its `deadline`, and the Go side (`client`,
`renewStart`, `tickAt`).  An attempt is one `Lock()` call and its random token.

Actions follow the scripts one file operation at a time.  `LockClaim` is the
part of the loop between `flock -n` and the decision, `LockMkdir`,
`LockTruncMarker`, `LockFillMarker` and `LockPublish` the claim; a poll that
changes nothing is a stuttering step.  `RenewEnter` makes all the checks of the
renew script at once, which is sound because they are made under the guard and
only old clients, who do not touch a lease of this version, ignore it.  The Go
side is `LockReturns`, `ValidateOk`/`ValidateFails` (the first, synchronous
renewal), `RenewCall`/`RenewOk`/`RenewFails` (`keepAlive`), `UnlockCall`.
Checksums are abstract: a record is a valid lease, a damaged one or unknown.
A lock or unlock script that dies while the directory is there without a complete
marker and without a record ends as `unmarked`, which is only what `Recoverable`
needs to tell it from other deaths.

External to the source and marked so in the map: scripts and clients that die,
loss of power (nothing is fsynced, so a published record may come back damaged),
old clients of the directory lock, and the clock.  Time is one clock; `Tick`
waits for clients that are overdue, because Go's timers fire: that is the
assumption `Pausable = {}` stands for.  With a client in `Pausable` exclusion ends,
because state writes carry no token that the host would check.

### ExecutionWaves

A behaviour starts with an input (graph, actions, orphans), and each step emits
one wave.  `NodeWaits` is `activeDependencyOverrides`, `AliasWaits` is
`operationForTriggers` for operations that run once per trigger, `OrphanWaits`
the reversed dependencies of `orphanExecutionWaves`.  Sorting inside a wave is
left out: items of a wave start together.

### DependencyRun and Executor

`DependencyRun` has one variable, the status of each item, and says: an item
starts only when all it depends on is ok, is blocked only by a failure, and is
settled in the end.

`Executor` has the program's state: `wave`, the goroutine's control point `pc`
of every item, `firstErr`, the engine's `memory` of every host's state, the
`draft` an item is about to write, the `disk`, writes that are still under way
although their call failed (`late`), and the context.  A host's state is its
serial, the addresses with a record, and what each record's `depends_on` names.
`LockState` is everything between taking the host's mutex and `Backend.Write`;
`WriteOk`, `WriteFails`, `WriteAnswerLost` and `WriteDetached` are what a call
over SSH can turn out to be.  `firstErr` is any failure of the first wave with
one, because the order inside a wave is left out.  `Status` maps a state to
`DependencyRun`.

### LeaseLock and HostLocks

`LeaseLock` is the lock as its callers see it: an attempt tries once, holds only
while nobody else does, and never holds again after it stopped.  `LeasePhase`
maps a state of `StateLock` to it.

`HostLocks` is `withHostLocks` for several runs.  `Feed` and `CloseFeed` are the
feeder of `runHosts`, `LockOk`/`LockFails`/`AppendLock` its workers,
`RunHostsReturns` the end of `wg.Wait` with the rollback or the start of the
lease monitor.  The four phases of `Apply` follow, each reading the monitor's
context where the code does.  `UnlockLast` takes one lock off the slice,
`UnlockDone` adds what `leaseMonitor.stop` finds.  `Ask` and `Answer` are the
prompts: the confirmation in `BeforeExecute` and, with one worker, the debugger's.
A run at a prompt does nothing else.  `owner` is the lease on the
host; a lease that nobody renews expires.

### Moves

A state is a function from addresses, pairs of a component (or the host) and a
suffix, to records; a record keeps its kind, the component its values name, its
digest and its references.  `ReadState` validates and orders the declarations,
`ResolveOne` realises the next one (`ResolveMoves`), once for the plan and again
in `prepareHostStates`; `PrepareWrite` verifies, reconciles the references and
writes.  `Follow` is one hop of a chain, and `Hops` so many of them; they take the
place of the recursion in `validateAndOrderMoves` and of the loop in
`finalMoveTargets`.

### Converge

`config` is what the user declares, `disk` the host, `records` the state file.
`Plan` decides on every address (`PlanNode` is `planFileLike` and `planDirectory`,
`PlanOrphan` is `orphanSteps`), `Refuse` is the error of `prevent_destroy`.
`Apply` and `WriteRecord` are the two halves of `executeResourceStep`,
`RunOperation` and `CompleteOperation` those of an operation.  Content, owner and
mode of a path are one `Version`.  Between runs the user edits, others change the
host; a call can fail before or after its effect and a run can die anywhere.
`live`, `counted`, `wrote` and `applied` are history that no action reads:  for
which version a change action ran last, whether the record counts one as done
because its unit was adopted (`found` as it is, or dbf's own with its record
`lost`), and what dbf wrote.  A behaviour begins with a budget (`left`):  which
addresses the user declares, and how many edits, changes by others and faults may
happen.  The scripts of a file's `on_change` are left out.

### HostGraph

A host is a set of declarations (scope, kind, name, path, owner, what it uses,
its script, its `depends_on`).  `Merge` is `validateHostSpec` with the claims on
paths and the resolution of `depends_on`; `Compile` is `compileHost`, one operator
for each part of it, named after what it makes (`HostRepositories`,
`NftOperations`, `ComposeProjectDeps`), followed by `Validate`.  `Plan` picks any
set of changed nodes and activates the operations they trigger, `RunItem` runs an
item when its direct active dependencies are settled and blocks it when one is
not ok, which is what `Executor` implements.  `Valid` states what the depth first
search of `validateAcyclic` computes: stripping items without dependencies leaves
nothing.  Contents, modes and summaries are left out.

### ProviderKinds and Providers

`ProviderKinds` has for each kind the plan (`PlanFileLike`, `PlanUser`), the
change (`ApplySysctl`, `Rollback`) and the delete diagnostic (`DeleteBehavior`).
A change is a sequence of hosts, one for each command of the script that changes
something, with an outcome: the call that is cut off stops after any of them.
`Providers` puts one resource through `Plan`, `Call` (or `CallFails`, `CallCut`),
`WriteRecord`, and edits and drift between runs.  `origin`, `applied` and `clean`
are history.  The text of commands, owners and modes beyond "as declared or not",
and versions of packages are left out.  Where the code never calls a resource in
sync (`NeverInSync`) or `install` puts a file into a directory (`Obstructed`), the
properties say so instead of hiding it; section 5 lists them.

A Compose project has containers of its services, containers of services it no
longer has, and a file.  `ReadDockerComposeProject` takes a project whose file
cannot be read for absent, as the code does, which drops every error of `docker
compose`.  `FileStep` is the step of the file's own node, between the plan and
the step of the project: what it writes is not in the project's node, so a
service may be new or gone and the plan does not know.  `Overlooked` says when
such a project is passed over.

### Session

`call` is the command line with its configuration, `pc` the place in
`runConfigWorkflow`.  `CheckFlags`, `Parse` (with the order of the sources of
variables) and `Validate` come first, `DiscoverFacts` runs before any lock,
`Preview` plans without the lock, `Confirm` asks, `Lock` and `Replan` are the
second plan under the lock, which `SameApprovedPlan` compares with what was
approved and otherwise shows and asks again, `Prepare`, `Execute` and `Unlock` end
it.  `lock` is `left` when a lock or unlock call failed and its lease stayed on
the host; `LeaseExpires` ends that.  `OtherLocks`, `OtherWrites` and
`OtherUnlocks` are another `dbf`, or an administrator who ignores the lock.

### RemoteCalls

`slot` and `waits` are the fields of `SSHRunner` (`initialAuthRunning`,
`initialAuthSucceeded`, the channel that is closed and made anew); `session` is
`DebugSession`.  A caller is a goroutine with its place `at` and the kind of its
call: ordinary ones meet the debugger, cleanup ones pass its prompts, maintenance
ones (renewals) pass it altogether.  The actions of the user are the commands of
the two prompts.  `asked` is history: the calls that commands of the user cover,
and whether a continue does, which ends at a failed call (`Halted`) until its
prompt has been answered.

## 3. Runs

| run | instance | shows |
|---|---|---|
| `lock` | 2 attempts, old client, 1 power loss, 5 time units, fairness | refinement of `LeaseLock`, `MutualExclusion`, `LegacyExclusion`, `Recoverable`, `NoResurrection`, `CallsEnd` |
| `waves` | 3 nodes and 1 operation, 2 nodes and 2 operations, 3 orphans; all edges, all actions | `CompleteAndTight`, `DependencyOrder` |
| `executor` | 10 items, 2 hosts, 4 waves, `--parallel` 3, 2 per host, 1 late write | refinement of `DependencyRun` with liveness, `UnsafeRunsAlone`, `NoLostUpdate`, `SuccessIsComplete` |
| `host_locks` | 1 run, 3 hosts, `--parallel` 1 to 3, prompts, fairness; the rest of the world is what fails its calls | `AllOrNothing`, `LeasesAccountedFor`, `LockingEnds`, `LostLeaseEndsRun` |
| `moves` | 3 components, at most 2 moves and one cycle of 3, 2 runs, 1 foreign write | `ResolvedDirectly`, `MoveOnlyIsNoOp`, `RetryIsSafe`, `ApprovedMovesOnly` |
| `converge` | 2 versions; a unit with 3 edits, 2 changes by others and 2 faults, or a directory at 2 addresses with 3 edits | `Converged`, `ActionNotForgotten`, `RemovesOnlyItsOwn` |
| `converge_handoff` | 1 file, 2 addresses, 2 edits | violation: the file is gone |
| `host_graph` | every host of at most 3 of some fifty declarations; 9 hosts run with any changes and 2 failures | `AcceptedCompiles`, `ClaimedOnce`, `OrderedForUse` |
| `providers` | 25 kinds, 2 edits, 1 change by others, 1 cut call or lost record | `AppliedIsDeclared`, `RestoresOriginal`, `DiagnosticHonest`, `LeavesTheRest`, `ArchiveReplacedWhole` |
| `session` | 2 items, 3 values, all combinations of sources, 2 changes by others, fairness | `HighestSourceWins`, `LastWordTrue`, `ReadsNoTornHost`, `ExecutedWasApproved`, `CommandEnds` |
| `remote_calls` | 2 workers and the renewer, 3 calls each, `next` up to 2, fairness | `FirstAuthAlone`, `OnlyWhatWasAsked`, `UnattendedCallsEnd` |
| `debug_retry` | the same | violation: no pause after a retry |

Other configurations, to be run by hand with the same MC modules:
`MCStateLockLonger.cfg` (the safety of the lock over 7 time units),
`MCHostLocksTwoRuns.cfg` (two runs of two hosts:  also `NoWaitCycle`, with one
worker no circle of waiting runs), and those that show a violation:
`MCExecutionWavesCycle.cfg`, `MCConvergeProtect.cfg`, `MCConvergeAction.cfg`,
`MCProvidersRestore.cfg`, `MCHostGraphCompose.cfg` and `MCSessionControl.cfg`
(section 5).  The comments of the properties that hold name the cases these are
about.  Every module states `TypeOK`; it holds on the same instances, and of
`StateLock`, `Executor`, `HostLocks`, `Converge` and `Moves` it is proved.

Bounds.  The lock's timings are the smallest that keep the order of the defaults
(`RenewInterval + 2 * RenewTimeout < LeaseTTL <= RecoveryGrace`, in seconds
30 + 40 < 120 <= 300); `MaxTime` lets one lease expire and be taken over, or be
recovered after a claim that died; with 7 units its new holder also renews it and
the takeover itself can die and be recovered.  Longer behaviours repeat these and
are covered by the proofs, which bound nothing.  The graphs of `waves` are all those
on so few addresses up to renaming: an operation between two nodes, two
operations in a chain, and a diamond are among them.  The executor's plan has
every action, a chain over three waves, unsafe items, more items than slots, and
both kinds of operation that write state.  One late write (`MaxLate`) is enough to
put an old state over a newer one.  Three hosts let one worker of
`HostLocks` fail, one be in its call and one have its lock; two runs of two hosts
are the smallest circle.  Two moves make a chain, three a cycle that no two of them
show; the second run of `Moves` is the retry.  In `Converge` three edits declare,
change and remove, two faults make a retry fail as well, and two versions tell
apart what is wanted from what is there.  Three declarations of `HostGraph` are a
user, what it uses and what that uses; the pool has every kind and every pair of
kinds that can claim one path.  In `Providers` two edits declare and change or
remove, and one fault before the second run is what a retry meets.  In `Session`
two changes by others fall before and after the lock.  Two workers and the renewer
are one that authenticates, one that waits, and one whose call the debugger may
not hold up.

Deadlock is not checked where a run simply ends (`HostGraph`, `Providers` and
`Session` say where they may stop, and it is checked there).

Fairness.  `LiveSpec` of `StateLock` gives weak fairness to scripts that can
run, to the Go side when it has an answer to read or a timer fired
(`ClientProceeds`), and to the clock; strong fairness to scripts that wait in
`flock -w` or `flock -x`, since the kernel queues them, but none to a poll with
`flock -n`.  Nothing is fair that need not happen (deaths, losses, calls that
break).  `LiveSpec` of `Executor` gives every goroutine weak fairness, so calls
return; SSH calls do, because the context bounds them.  `ExecutionWaves` is a loop
that runs.  `LiveSpec` of `HostLocks` lets Lock and Unlock calls return, which
`CallsEnd` of `StateLock` shows, and work return when its context is cancelled and
it is not at a prompt; work under a live context may hang, and a prompt need not
be answered: `confirmApply` and the debugger read standard input without a
context, so `LockingEnds` and `LostLeaseEndsRun` except a run that waits there.
`Session` is one thread that goes on while it can, with a user who answers, another
`dbf` that gives its lock back at last, and time that passes until a lease left
behind expires; nothing forces others to change the host.  `RemoteCalls` gives
fairness to the calls and none to the user of the debugger.

## 4. Proofs

`StateLockProofs` proves, for any set of attempts and all timings that satisfy
`LeaseAssumption`:  `TypeCorrect`, and for clients that are never suspended
(`Pausable = {}`) `MutualExclusionCorrect`, `LegacyExclusionCorrect` and
`HolderLeaseLiveCorrect`, `LeaseLockCorrect` (the refinement of `LeaseLock`),
`NoResurrectionCorrect` and `RecoverableCorrect`.  Exclusion is not inductive:  it
rests on time.  `LockInv` adds who has the guard (`GuardInv`), what lies on disk
while a script is half way through (`FileInv`), how long a client can have waited
(`ClientInv`), and the heart of it, `RelyInv`:  a client that relies on the lease,
or will when the answer to its first renewal arrives, has a record on disk that
keeps everybody else out for longer than the client will go on without another
successful renewal, namely `renewStart + RenewInterval + 2 * RenewTimeout`.
`UnlockInv` (unlock is sent only after the lock script has ended) and `DatesInv`
(no file is from the future and no lease runs longer than `LeaseTTL` from now)
carry the last two.  `Recoverable` has two sides, what can be claimed after a
grace period and what never can, and needs `OwnerInv`:  a directory without a
complete marker and without a record is an old client's, or a script is at work on
it or died over it, and in the last case nothing touches it any more.

`ExecutorProofs` proves, for every plan whose waves respect `dependsOn`
(`WavesAssumption`, which `ExecutionWavesProofs` proves of `executionWaves`):
`TypeCorrect`, `WavesCorrect`, `ContainCorrect`, `RunSafetyCorrect` (every step
maps to a step of `DependencyRun` or a stutter), and `NoLostUpdateCorrect`: the
file keeps every successful item's update until a write lands whose call had
been given up, which may put an older state in its place.  The last
needs `StateInv`: what a settled item recorded is in the engine's copy and also
in every copy another item is about to write, which holds because copy and write
are under one mutex.  `PlanAssumption` states what the plan guarantees of a
resource that is removed.

`SessionProofs` proves of `RemoteCalls`, for any number of workers and calls and
any argument of `next`, `FirstAuthAlone` and `OnlyWhatWasAsked` from
`CallersAssumption`.  `SlotInv` strengthens the first:  until a host has been
reached, whoever runs `ssh` has the slot, so a waiter that wakes up cannot start a
second process.  `DebugInv` strengthens the second:  the calls asked for suffice
for what is left of `next` and for a call that was let through and has not
started; at the prompt nothing is left, so that a new command starts from zero;
and in the mode of `continue` all calls are asked for, unless the user has quit
since or a failed call, or a diagnostic command after it, is under way.

`ExecutionWavesProofs` discharges `WavesAssumption`:  for every finite graph,
every plan and every set of orphans, `CompleteAndTight` and `DependencyOrder`.
`KahnInv` says that the waves emitted so far are layers (`Layered`:  each item is
in one wave, behind all it waits for and directly behind one of them) and that the
loop's data are right (`Frontier`:  the indegree of an item counts the waits that
have not been emitted, the ready items are those with none, and each became ready
through the last wave).  That an operation runs after every change that triggered
it, a part of `DependencyOrder`, needs `TriggersAssumption`:  an operation depends
on its triggers, or on an operation that does and has the same trigger.  That is
how `compileHost`, the networkd activation and the compose projects build them.

`ExecutorProofs` also has `UnsafeRunsAloneCorrect` and `SuccessIsCompleteCorrect`,
for finite plans.  `SlotInv` says who is at work on a host; the host's semaphore
is a count of weights, and that one item which is not safe excludes all others
follows from it by cardinalities.  `FailInv` keeps a witness: behind every blocked
item, every difference between the engine's state and the file, and every write
that is under way on its own there is a failed item, and failures of earlier waves
are in `firstErr`.  `CountInv` counts serials by the items that have written.

`HostLocksProofs` proves `TypeCorrect`, `AllOrNothingCorrect` and
`LeasesAccountedForCorrect` for any runs, hosts and numbers of workers, where a
run names a host once (`ConstantsAssumption`).  `LocksInv` has, for each run,
`PoolInv` (hosts are in a worker's hands exactly if the feeder has come by them,
the slice has the locks that were taken, nobody is at work after `wg.Wait`, and a
pool that stopped early was cancelled) and `LeaseInv` (who renews a lease has the
lock in a worker's hands or in the slice), and `OwnerInv`, a lease that is renewed
is on the host.

`SessionProofs` proves `ReadsNoTornHostCorrect`, `LastWordTrueCorrect` and
`ExecutedWasApprovedCorrect` for any items, command lines and hosts.  `SessionInv`
says which command can be where, that the lock is the command's exactly from
`Lock` to `Unlock` and a lease that is left behind goes with an error, that a plan
made under it is not torn, that the plan about to be executed is on the screen and
was approved (`ApprovedInv`), and that unless others interfered what is left of it
covers what is not yet as wanted (`WorkInv`).

`ConvergeProofs` proves `TypeCorrect` and `RemovesOnlyItsOwnCorrect` for any
resources, paths and budgets.  `WroteInv` says that a record kept as managed, also
one that a dead run left, is newer than a write of its address; `StepInv` that the
steps of a run fit the configuration and which record each of them leaves.
`ConvergedCorrect` and `ActionNotForgottenCorrect` have the hypothesis `OwnPaths`,
that no two addresses share a path:  without it the first is false
(`converge_handoff`, section 5).  They need `PathLiveInv`:  what a step has found
or put at its path is still there, and a completed action ran for the version it
was completed for or was counted as done when its unit was adopted.  A directory
that passes between addresses in one edit, which the `converge` run has, stays
with TLC.

`MovesProofs` proves `TypeCorrect`, `ResolvedDirectlyCorrect`,
`MoveOnlyIsNoOpCorrect`, `RetryIsSafeCorrect` and `ApprovedMovesOnlyCorrect`, for
chains of any length, any addresses and any number of runs and foreign writes,
from finite sets of declarations and addresses that can be rebased
(`AddressAssumption`).  Its first part is about chains.  `Hops` is a recursive
function, and what it computes needs induction, which the proofs do with sets of
numbers (`SetInduction`, from the library's well-foundedness of `<`): the
recursion has a solution (`HopExists`), a hop may be taken first or last
(`HopsShift`), all components of a chain have one final target, which is no
source, and a declaration is deeper than the one that goes on where it ends
(`DepthDecreases`).  Hence the order of `validateAndOrderMoves`, `OrderInv`: when
a declaration's turn comes, whatever leads to its source has had its own.  In the
loop, `CarriedInv` says that there is a function from components to components by
which the records and all references to them have been renamed so far
(`CarriedBy`), and that it leads along the chain (`OnTheWay`); at the end it leads
home.  `Settled` is what remains true of a declaration after its turn; of all of
them together it says that another run finds nothing to do.

`ProvidersProofs` proves the five properties of `Providers`, for any numbers of
edits, changes by others, failures and cuts, and for any of the kinds the provider
knows (`KindsAssumption`, which also says that the names for "no record" and "no
original" stand for nothing else).  It goes kind by kind.  `HostSpace` is what the
host of a kind can be, torn files and half-replaced archives included; for each
kind the Call lemmas say what a call that returns, fails or is cut off does to it,
the Fact lemmas what its plan decides, and the After lemmas, from both, what the
host and the record are once a step has been executed.  `Typed` puts them
together:  `TypeInv`, and `PlannedInv`, that the step being executed was planned
from this declaration, record and host.  `ArchivesReplacedWhole`,
`DiagnosticsHonest` and `StepsLeaveTheRest` follow from it by what a call does.
`OriginalsRestored` needs `OriginalInv`:  the record, and the step that is about
to write it, keep the original that was saved, and where every write is in the
record it is what was there first.  `RunsConverge` (`AppliedIsDeclared`) is not
inductive as it stands, because some reads cannot see whether the declaration is
in force:  a file that is write-only, the content of an unpacked archive, the
projects of Compose other than the declared one, or that one when its file is
unreadable or new (`Overlooked`).  There the record has to tell.  `KeptInv` says
that it does, as long as every write is in it and nobody else changed the host;
`ShaInv` that the digest in the record of a binary, where there is one, is the
declared content's; `GoodInv` that between the call and the end of the run the
resource is as declared and a plan made from the record about to be written would
be empty.

Each of these invariants was first checked by TLC on an instance of its module.

Model-checked only: liveness (`CallsEnd`, `RunLiveness`, `LockingEnds`,
`LostLeaseEndsRun`, `CommandEnds`, `UnattendedCallsEnd`), because the prover does
not treat fairness; `HostGraph`, whose graph is built with `SetToSeq`, an operator
the prover has no facts about; and `HighestSourceWins`, which is about what
`FlattenSeq` and `SelectSeq` return, which takes induction over sequences.

## 5. Disagreements with the documentation

- `activeDependencyOverrides` turns edges into a deleted node round but keeps
  the edges of operations, so a plan for a validated graph can be cyclic and
  apply stops with "resource graph dependency cycle detected"
  (`ValidatedGraphSchedules`, `MCExecutionWavesCycle.cfg`), although
  `docs/how-it-works/05-resource-graph.md` lists "Detect dependency cycles" among
  what validation has done:
  for instance a unit that is deleted while the service that needs it is
  updated, with the daemon reload between them.
- A file that moves to another address is adopted there and destroyed as an
  orphan in the same run (`converge_handoff`).  Directories are spared as long
  as the old record says what the new declaration says; after drift or a failed
  record write it need not, which is why the directory's budget has neither.
- `prevent_destroy` added to a resource in sync does not reach its record
  (`ProtectionHolds`, `MCConvergeProtect.cfg`), so removing the declaration later
  destroys it; `docs/operations-runbook.md` says that it "blocks delete, destroy,
  and replace during planning".
- After a failure between the provider's change and the record, the next run
  adopts what dbf itself made, and counts the change action of a unit as done
  (`CompletedAfterRun`, `MCConvergeAction.cfg`); `CHANGELOG.md` says that a failed
  action "remains pending for retry".  `ActionNotForgotten` names this case as one
  of its two exceptions.
- In the same way a change of `on_destroy` alone never reaches the record
  (`RestoreHonoured`, `MCProvidersRestore.cfg`): a source file that was declared
  with `keep` and later with `restore` is kept;
  `docs/delete-behavior-diagnostics-plan.md` says "under `restore`, restore
  original content or remove a newly created file".
- The service of a compose project waits for its unit and the reload, not for the
  validation of its files, so it starts a project whose validation failed when
  the unit itself is unchanged (`NotStartedUnvalidated`, `MCHostGraphCompose.cfg`);
  `docs/operations-runbook.md` says "DebianForm does not start a Compose project
  after config validation fails."
- After `next N` or `continue` a failed call can be retried, and the debugger does
  not pause again (`PausesAfterRetry`, `debug_retry`);
  `docs/apply-debugger-requirements.md` says "When the user entered `retry`, pause
  before the next remote call."  It also lists `continue` as disallowed in the
  failed state, where the code takes it and gives the error to the caller.
- When the discovery of facts fails, the directory of the ssh control sockets is
  not removed (`ControlDirectoryRemoved`, `MCSessionControl.cfg`); `CHANGELOG.md`
  speaks of its cleanup.

Noticed while translating, without a run:  a complete lease whose marker is
missing or torn is taken over after the grace period (`ssh_backend.go:228-233`),
while `docs/state.md` and `docs/how-it-works/08-apply-scheduler.md` ask for a
verifiable marker; a lock or unlock script that dies while its directory has no
complete marker and no record leaves a lock that is refused for ever, like an old
client's (`Recoverable` says so); a failed unlock leaves the lease until it
expires; the confirmation and the prompts of the debugger ignore that a lease is
lost or the run cancelled until they are answered; the read of a Compose project
drops the errors of `docker compose`, so a project to be absent whose file is not
readable is taken for gone and the run succeeds; a project's node has the path of
its file and not the content, so a service that is new in the file of a running
project is not started by the project's step, and containers of a service that
went are found by the next plan only; a serial is used for two different states
when the answer to a write is lost (`docs/state.md` says it grows by one with
every committed write); operations with outputs or a completion do write state; a
failed `on_change` script is not run again, because nothing records that it is
due.  A sysctl value with blanks, a user whose primary group is among its
`groups`, a compose project that is to be stopped and has no containers, and a
kernel module in use are never in sync; a directory in the place of a file makes
`install` succeed without installing; an archive script that is killed between its
two moves leaves nothing in place, and the next run begins by removing the copy
kept aside; `authorized_keys` is rewritten in place; a failed daemon reload after
a written unit is not repeated.  Deletions by `ensure = "absent"` run in the order
of dependencies, only absent nftables files trigger no validation, and paths of
repository files, keys, directories and units of the host are compared with
nobody's.  An explicit `depends_on` that follows a reload or refresh may be cyclic
through the operation that gathers all triggers.  Facts are discovered once,
before the lock.  Two variables read from `@-` leave the second one empty, and the
debugger, the confirmation and `@-` read the same input.  After `continue` at the
prompt of a failed call, an empty line at the next prompt means `continue`.

## 6. What is not modelled

Formatting, printing, progress, syntax and the text of shell commands are left
out for good, and so are plan documents and diffs, which keep no state.

- Parser: shapes of blocks, expressions and error texts; nothing lasts between two
  calls.
- Merge: how profiles and components are merged attribute by attribute.  The
  conflicts that `validateHostSpec` finds and the resolution of `depends_on` are
  in `HostGraph`.
- Bulk planning: the same comparisons as the providers', asked in one call.
- The Netplan refusal of `PreflightHost`, `fmt`, `inspect` and `version`.
- The validation of the state file (`Normalize`), its versions and digests as text.
- The in-memory backend and provider, which the tests use.

## 7. Plan

Done: `StateLock`, `LeaseLock`, `HostLocks`, `ExecutionWaves`, `DependencyRun`,
`Executor`, `Moves`, `Converge`, `HostGraph`, `ProviderKinds`, `Providers`,
`Session`, `RemoteCalls`.

Theorems next: `HighestSourceWins` of `Session`, with facts about flattened
sequences by induction over sets as in `MovesProofs`; `Converged` for directories
that pass from one address to another without drift; and the safety of an atomic
lock of all hosts that `HostLocks` implements.

Then, in this order:  `Merge` (precedence of profiles, conflicts, instantiation of
components; the result does not depend on the order of the files), `Evaluate`
(variables and locals, their order and cycles, sensitive and ephemeral marks) and
`StateFile` (`Normalize`, versions, sanitising).
