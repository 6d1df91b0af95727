------------------------------- MODULE Moves -------------------------------
(***************************************************************************)
(* Declared moves of component instances and the preparation of one host's *)
(* state file (ResolveMoves in internal/core/state/moved.go, resolveHost-  *)
(* Moves, verifyApprovedHostMoves, reconcileStateDependencies and          *)
(* prepareHostStates in internal/core/engine/engine.go).                   *)
(*                                                                         *)
(* A run resolves the moves twice: for the plan that is approved, and      *)
(* again on the file it reads just before it writes the renamed records.   *)
(* Declarations may form chains, which are resolved hop by hop, longest    *)
(* rest first.  An address is a component with a suffix; a component root  *)
(* is one segment, so prefixes overlap only when they are equal.           *)
(***************************************************************************)
EXTENDS Integers, FiniteSets

CONSTANTS
    Component,      \* component instances of the host
    HostScope,      \* stands in the place of a component in other addresses
    Suffix,         \* addresses below a component
    NoComponent,    \* the desired component of a record that has none
    Address,
    Deps,           \* what the node of each address depends on
    Declarations,   \* the sets of moved blocks to consider
    MaxRuns,
    MaxForeign      \* bound: writes by a run that took over the lock

Declaration == [from : Component, to : Component]

ASSUME ConstantsAssumption ==
    /\ HostScope \notin Component /\ NoComponent \notin Component \cup {HostScope}
    /\ Address \subseteq (Component \cup {HostScope}) \X Suffix
    /\ Deps \in [Address -> SUBSET Address]
    /\ Declarations \subseteq SUBSET Declaration
    /\ MaxRuns \in Nat \ {0} /\ MaxForeign \in Nat

\* A configuration is finite, and what is below one component can be below any.
ASSUME AddressAssumption ==
    /\ \A D \in Declarations : IsFiniteSet(D)
    /\ \A c, e \in Component, s \in Suffix : <<c, s>> \in Address => <<e, s>> \in Address

\* What ResolveMoves may touch of a record, and the address it was made under
\* for all it must carry along.  digest and observed name the desired component
\* the record's digests were made of.
Record ==
    [was : Address, component : Component \cup {NoComponent},
     digest : Component \cup {NoComponent}, observed : Component \cup {NoComponent},
     provider : Address, dependsOn : SUBSET Address]

VARIABLES
    decls,      \* the moved blocks
    desired,    \* components in the configuration
    file,       \* the records in the host's state file
    phase,      \* where the run is
    read,       \* the state that is being resolved, as it was read
    work,       \* and as resolved so far
    todo,       \* declarations ResolveMoves has still to go through
    moves,      \* realized moves
    approved,   \* those of the approved plan
    migrated,   \* the file is the one the last preparation wrote
    runs, foreign

vars == <<decls, desired, file, phase, read, work, todo, moves, approved,
          migrated, runs, foreign>>
resolving == <<read, work, todo, moves>>

Phases == {"start", "planning", "approve", "preparing", "executing", "error"}

-----------------------------------------------------------------------------
(* The declarations.                                                       *)

Sources(D) == {d.from : d \in D}
Targets(D) == {d.to : d \in D}

\* The next component on the chain of c, if there is one.
Follow(D, c) == IF c \in Sources(D) THEN (CHOOSE d \in D : d.from = c).to ELSE c

\* Where each component is after n hops.
Hops(D, n) ==
    LET hop[k \in Nat] ==
          IF k = 0 THEN [c \in Component |-> c]
          ELSE [c \in Component |-> Follow(D, hop[k - 1][c])]
    IN  hop[n]

\* validateAndOrderMoves: what it rejects.
Invalid(D) ==
    \/ \E d \in D : d.from = d.to
    \/ \E d, e \in D : d # e /\ (d.from = e.from \/ d.to = e.to)
    \/ \E c \in Sources(D) : Hops(D, Cardinality(D))[c] \in Sources(D)

\* ... and the order it gives: the number of hops that are left.
Depth(D, c) == Cardinality({n \in 0..Cardinality(D) : Hops(D, n)[c] \in Sources(D)})

\* finalMoveTargets
FinalTarget(D, c) == Hops(D, Cardinality(D))[c]

-----------------------------------------------------------------------------
(* ResolveMoves.                                                           *)

HasNode(a) == a[1] \in desired \cup {HostScope}

\* matchingAddresses
Matching(st, c) == {a \in DOMAIN st : a[1] = c}

\* replaceAddressPrefix
Rebased(a, d) == IF a[1] = d.from THEN <<d.to, a[2]>> ELSE a

\* Mutant: the digest is not made again.
RebaseKeepsDigest(r, d, to) ==
    LET component == IF r.component = NoComponent THEN NoComponent ELSE d.to
    IN  [r EXCEPT !.component = component,
                  !.provider = IF HasNode(to) THEN to ELSE @]

\* rebaseMovedResource
RebaseMovedResource(r, d, to) ==
    LET component == IF r.component = NoComponent THEN NoComponent ELSE d.to
        changed == r.component # NoComponent
    IN  [r EXCEPT !.component = component,
                  !.provider = IF HasNode(to) THEN to ELSE @,
                  !.digest = IF changed THEN component ELSE @,
                  !.observed = IF changed /\ @ = r.digest THEN component ELSE @]

\* rebaseResourceDependencies
RebaseResourceDependencies(st, d) ==
    [a \in DOMAIN st |-> [st[a] EXCEPT !.dependsOn = {Rebased(b, d) : b \in @}]]

\* Every matching record gets its new address.
MoveAll(st, d) ==
    [b \in (DOMAIN st \ Matching(st, d.from)) \cup {Rebased(a, d) : a \in Matching(st, d.from)} |->
        IF b[1] = d.to /\ <<d.from, b[2]>> \in DOMAIN st
          THEN RebaseMovedResource(st[<<d.from, b[2]>>], d, b)
          ELSE st[b]]

\* The destination state entry already exists.
Collides(st, d) == \E a \in Matching(st, d.from) : Rebased(a, d) \in DOMAIN st

Rejected(d) ==
    /\ Matching(work, d.from) # {}
    /\ IF d.from \in desired
         THEN FinalTarget(decls, d.from) \in desired \/ Collides(work, d)
         ELSE FinalTarget(decls, d.from) \notin desired \/ Collides(work, d)

StaysBehind(d) == Matching(work, d.from) = {} \/ d.from \in desired

Fail ==
    /\ phase' = "error"
    /\ UNCHANGED <<decls, desired, file, resolving, approved, migrated, runs, foreign>>

\* Mutant: declarations are taken as they come.
IsNextAny(d) == d \in todo

\* Chains from their far end would leave records half way.
IsNext(d) ==
    /\ d \in todo
    /\ \A e \in todo : Depth(decls, e.from) =< Depth(decls, d.from)

\* One turn of the loop over the ordered declarations.
ResolveOne(d) ==
    /\ phase \in {"planning", "preparing"}
    /\ IsNext(d)
    /\ \/ Rejected(d) /\ Fail
       \/ /\ ~Rejected(d)
          /\ todo' = todo \ {d}
          /\ IF StaysBehind(d)
               THEN UNCHANGED <<work, moves>>
               ELSE /\ work' = RebaseResourceDependencies(MoveAll(work, d), d)
                    /\ moves' = moves \cup {<<a, Rebased(a, d)>> : a \in Matching(work, d.from)}
          /\ UNCHANGED <<decls, desired, file, phase, read, approved, migrated, runs, foreign>>

\* Backend.Read, then ResolveMoves up to its loop.
ReadState(from, to) ==
    /\ phase = from
    /\ \/ /\ Invalid(decls)
          /\ Fail
       \/ /\ ~Invalid(decls)
          /\ phase' = to
          /\ read' = file /\ work' = file
          /\ todo' = decls
          /\ moves' = {}
          /\ UNCHANGED <<decls, desired, file, approved, migrated, runs, foreign>>

-----------------------------------------------------------------------------
(* The run.                                                                *)

\* Engine.Plan
StartPlan == runs < MaxRuns /\ ReadState("start", "planning")

\* The plan with its moves is approved while the locks are held.
Approve ==
    /\ phase = "planning" /\ todo = {}
    /\ phase' = "approve"
    /\ approved' = moves
    /\ UNCHANGED <<decls, desired, file, resolving, migrated, runs, foreign>>

StartPrepare == ReadState("approve", "preparing")

\* reconcileStateDependencies: records of nodes take the graph's dependencies,
\* as far as they are tracked.
Reconciled(st) ==
    [a \in DOMAIN st |->
        IF HasNode(a)
          THEN [st[a] EXCEPT !.dependsOn = {b \in Deps[a] : HasNode(b)} \cap DOMAIN st]
          ELSE st[a]]

\* Mutant: what was approved must happen, but more may.
ApprovedAtLeast == approved \subseteq moves

\* verifyApprovedHostMoves
ApprovedMoves == moves = approved

NotApproved ==
    /\ phase = "preparing" /\ todo = {}
    /\ ~ApprovedMoves
    /\ Fail

\* Mutant: the file written is the one that was read.
PrepareWriteRead ==
    /\ phase = "preparing" /\ todo = {} /\ ApprovedMoves
    /\ phase' = "executing"
    /\ file' = Reconciled(read)
    /\ migrated' = TRUE
    /\ UNCHANGED <<decls, desired, resolving, approved, runs, foreign>>

\* The state is written when there is something to write.
PrepareWrite ==
    /\ phase = "preparing" /\ todo = {} /\ ApprovedMoves
    /\ phase' = "executing"
    /\ file' = Reconciled(work)
    /\ migrated' = TRUE
    /\ UNCHANGED <<decls, desired, resolving, approved, runs, foreign>>

\* The call of the write fails; the host may have replaced the file.
PrepareWriteFails ==
    /\ phase = "preparing" /\ todo = {} /\ ApprovedMoves
    /\ phase' = "error"
    /\ \/ file' = file /\ migrated' = migrated
       \/ file' = Reconciled(work) /\ migrated' = TRUE
    /\ UNCHANGED <<decls, desired, resolving, approved, runs, foreign>>

\* The run is over, at any point, and the next one starts from the file.
RunEnds ==
    /\ phase # "start"
    /\ phase' = "start"
    /\ runs' = runs + 1
    /\ UNCHANGED <<decls, desired, file, resolving, approved, migrated, foreign>>

NewRecord(a, dependsOn) ==
    [was |-> a, component |-> IF a[1] = HostScope THEN NoComponent ELSE a[1],
     digest |-> IF a[1] = HostScope THEN NoComponent ELSE a[1],
     observed |-> IF a[1] = HostScope THEN NoComponent ELSE a[1],
     provider |-> a, dependsOn |-> dependsOn]

\* A run that took over the lock creates or removes a record between this run's
\* plan and its preparation.  (One that comes later is overwritten: state writes
\* are not fenced, see MutualExclusion in StateLock.)
ForeignWrite ==
    /\ foreign < MaxForeign /\ phase \in {"approve", "planning"}
    /\ foreign' = foreign + 1
    /\ migrated' = FALSE
    /\ \E a \in Address :
         IF a \in DOMAIN file
           THEN file' = [b \in DOMAIN file \ {a} |-> [file[b] EXCEPT !.dependsOn = @ \ {a}]]
           ELSE file' = [b \in DOMAIN file \cup {a} |->
                           IF b = a THEN NewRecord(a, Deps[a] \cap DOMAIN file) ELSE file[b]]
    /\ UNCHANGED <<decls, desired, phase, resolving, approved, runs>>

\* Records an earlier configuration left, any moved blocks and any components.
Init ==
    /\ decls \in Declarations
    /\ desired \in SUBSET Component
    /\ \E A \in SUBSET Address : file = [a \in A |-> NewRecord(a, Deps[a] \cap A)]
    /\ phase = "start"
    /\ read = file /\ work = file
    /\ todo = {}
    /\ moves = {} /\ approved = {}
    /\ migrated = FALSE
    /\ runs = 0 /\ foreign = 0

Next ==
    \/ StartPlan \/ Approve \/ StartPrepare
    \/ \E d \in todo : ResolveOne(d)
    \/ NotApproved \/ PrepareWrite \/ PrepareWriteFails
    \/ RunEnds \/ ForeignWrite

Spec == Init /\ [][Next]_vars

-----------------------------------------------------------------------------
(* Properties.                                                             *)

TypeOK ==
    /\ decls \in Declarations /\ desired \subseteq Component
    /\ \A st \in {file, read, work} : DOMAIN st \subseteq Address /\ \A a \in DOMAIN st : st[a] \in Record
    /\ phase \in Phases
    /\ todo \subseteq decls
    /\ moves \subseteq Address \X Address /\ approved \subseteq Address \X Address
    /\ migrated \in BOOLEAN
    /\ runs \in 0..MaxRuns /\ foreign \in 0..MaxForeign

Resolved == phase \in {"planning", "preparing"} /\ todo = {}

\* Where a record belongs when chains are followed at once.
Home(a) ==
    IF a[1] \in Sources(decls) /\ a[1] \notin desired
      THEN <<FinalTarget(decls, a[1]), a[2]>>
      ELSE a

\* Resolving chains hop by hop gives what renaming every record to its final
\* address gives: nothing is dropped, merged or left half way, and whoever
\* depended on a record depends on it under its new address.
ResolvedDirectly ==
    Resolved =>
        /\ DOMAIN work = {Home(a) : a \in DOMAIN read}
        /\ \A a, b \in DOMAIN read : a # b => Home(a) # Home(b)
        /\ \A a \in DOMAIN read :
             /\ work[Home(a)].was = read[a].was
             /\ work[Home(a)].dependsOn = {Home(b) : b \in read[a].dependsOn}

\* Renaming alone makes no work: a record that was in sync is in sync with the
\* node it is compared with next, digests and provider address included.
MoveOnlyIsNoOp ==
    Resolved => \A a \in DOMAIN read :
        read[a].digest = read[a].observed /\ Home(a) # a =>
            LET r == work[Home(a)] IN
                /\ r.component # NoComponent => r.component = Home(a)[1]
                /\ r.digest = r.component /\ r.observed = r.digest
                /\ r.provider = Home(a)

\* Once a preparation's write has reached the file, also one whose answer was
\* lost, every later run resolves it without moves and without an error.
RetryIsSafe == migrated /\ phase = "planning" => moves = {} /\ \A d \in todo : ~(IsNext(d) /\ Rejected(d))

\* A preparation changes addresses only by moves of the approved plan, whatever
\* was written to the file since the plan was made.
ApprovedMovesOnly ==
    [][phase = "preparing" /\ file' # file =>
         /\ \A a \in DOMAIN file \ DOMAIN file' : \E p \in approved : p[1] = a
         /\ \A a \in DOMAIN file' \ DOMAIN file : \E p \in approved : p[2] = a]_vars
=============================================================================
