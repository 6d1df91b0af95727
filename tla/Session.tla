------------------------------ MODULE Session ------------------------------
(***************************************************************************)
(* One invocation of dbf: validate, plan, check or apply, from its flags   *)
(* to its exit code (runConfigWorkflow in cmd/dbf/main.go, Engine.Check    *)
(* and Engine.Apply in internal/core/engine/engine.go, the discovery of    *)
(* facts in facts.go), while others change the host: another dbf under the *)
(* state lock, an administrator without it.                                *)
(*                                                                         *)
(* A configuration gives a value to every item of a host, or leaves it to  *)
(* a fact that is discovered.  A plan is what it would change and what it  *)
(* has seen; how a plan is executed is in module Executor, the lock in     *)
(* StateLock.                                                              *)
(***************************************************************************)
EXTENDS Naturals, FiniteSets, Sequences, SequencesExt

CONSTANTS
    Items,          \* what a configuration speaks of
    Values,         \* the values of items and of the fact
    Fact,           \* the value of an item that is left to the fact
    NoPlan,         \* no plan yet
    Invocations,    \* the command lines to consider
    Hosts,          \* the states of the host before the command
    MaxOthers       \* changes by others

ASSUME SessionAssumption ==
    /\ IsFiniteSet(Items) /\ Fact \notin Values /\ MaxOthers \in Nat
    /\ \A i \in Invocations :
         i.want \in [Items -> Values \cup {Fact}] /\ i.cmd \in {"validate", "plan", "check", "apply"}
    /\ \A h \in Hosts :
         h.items \in [Items -> Values] /\ h.fact \in Values /\ h.lock \in {"free", "other"}

VARIABLES
    call,       \* the command line, the configuration and the files it finds
    pc,
    host,       \* the items of the host
    fact,       \* the fact of the host
    lock,       \* the state lock: "free", "self", "other", or "left" on the host by a
                \* lock or unlock call that failed
    others,     \* changes that others may still make
    known,      \* the facts that were discovered
    preview,    \* the plan that is shown first
    actual,     \* the plan that is made under the lock
    screen,     \* the plan that was printed last
    approved,   \* the plans that were answered with yes
    todo,       \* the changes of the plan that are left
    saved,      \* the state was written
    control,    \* the directory of the ssh control sockets exists
    stdin,      \* "open" or "eof"
    torn,       \* the last plan was made in the middle of another's apply
    moved,      \* others have changed the host since the last plan
    result      \* "", "ok", "differs", "cancelled" or "error"

vars == <<call, pc, host, fact, lock, others, known, preview, actual, screen, approved, todo,
          saved, control, stdin, torn, moved, result>>

world == <<host, fact, lock, others>>
plans == <<preview, actual, screen, approved, todo, torn, moved>>

-----------------------------------------------------------------------------
(* The configuration files, and the values of variables by their sources.  *)

\* appendConfigFile, configFileDirs: what was there before is left out.
WithoutRepeats(s) ==
    LET first == SelectSeq([i \in DOMAIN s |-> i], LAMBDA i : \A j \in 1 .. i - 1 : s[j] # s[i])
    IN  [k \in DOMAIN first |-> s[first[k]]]

\* expandConfigSources: a directory stands for its *.dbf.hcl files by name.
ConfigFiles ==
    WithoutRepeats(FlattenSeq([k \in DOMAIN call.sources |->
        LET src == call.sources[k]
        IN  IF src.file = "" THEN call.tree[src.dir] ELSE <<[dir |-> src.dir, file |-> src.file]>>]))

\* A directory without configuration files.
SourceError == \E src \in ToSet(call.sources) : src.file = "" /\ call.tree[src.dir] = << >>

\* configFileDirs: in the order of the configuration files.
ConfigFileDirs ==
    LET files == ConfigFiles IN WithoutRepeats([k \in DOMAIN files |-> files[k].dir])

\* autoVariableFilesForDir: the default files, then the others by name.
AutoVariableFilesForDir(dir) ==
    SelectSeq(<< <<dir, "default">>, <<dir, "default.json">>, <<dir, "a.auto">>, <<dir, "b.auto">> >>,
              LAMBDA f : f \in call.files)

\* autoVariableFiles
AutoVariableFiles ==
    LET dirs == ConfigFileDirs IN FlattenSeq([k \in DOMAIN dirs |-> AutoVariableFilesForDir(dirs[k])])

\* Mutant: variable files of the command line come before those that are found.
ExternalVariableValuesSwapped ==
    call.env \o call.varFiles \o AutoVariableFiles \o call.vars

\* collectExternalVariableValues
ExternalVariableValues ==
    call.env \o AutoVariableFiles \o call.varFiles \o call.vars

\* resolveVariableValues: the last one, or the default.
VariableValue ==
    LET values == ExternalVariableValues
    IN  IF values = << >> THEN "default" ELSE Last(values)

\* A variable without a default has no value, or a name is unknown; unknown names
\* of the environment are passed over.
VariableError == (call.required /\ ExternalVariableValues = << >>) \/ call.unknown

-----------------------------------------------------------------------------
(* Flags and compilation.                                                  *)

\* runConfigCommand, runConfigWorkflow: before anything is read.
FlagError ==
    \/ call.html /\ (call.cmd # "plan" \/ call.format # "text")
    \/ call.debug /\ call.cmd \notin {"plan", "apply"}
    \/ call.offline /\ call.cmd # "plan"
    \/ call.parallel > 0 /\ call.cmd # "apply"
    \/ call.debug /\ call.parallel > 1

\* ... after the configuration is read, and for validate compiled.
FormatError == call.format # "text" /\ call.cmd # "plan"

\* What the program wants of an item.
Want(i) == IF call.want[i] = Fact THEN known ELSE call.want[i]

NeedsFact == \E i \in Items : call.want[i] = Fact

\* Engine.Plan
PlanNow == {[item |-> i, from |-> host[i], to |-> Want(i)] : i \in {j \in Items : host[j] # Want(j)}}

HasActions(plan) == plan # {}

-----------------------------------------------------------------------------
Init ==
    /\ call \in Invocations
    /\ pc = "flags"
    /\ \E h \in Hosts : host = h.items /\ fact = h.fact /\ lock = h.lock
    /\ others = MaxOthers
    /\ known = Fact /\ preview = NoPlan /\ actual = NoPlan /\ screen = NoPlan
    /\ approved = {} /\ todo = {}
    /\ saved = FALSE /\ control = FALSE /\ torn = FALSE /\ moved = FALSE
    /\ stdin \in {"open", "eof"}
    /\ result = ""

\* The command returns: errors and results pass by the deferred unlock and
\* runner.Close where these are in force.
Returns(r, place) == result' = r /\ pc' = place

CheckFlags ==
    /\ pc = "flags"
    /\ IF SourceError \/ FlagError THEN Returns("error", "end") ELSE Returns("", "parse")
    /\ UNCHANGED <<call, world, known, plans, saved, control, stdin>>

\* parseCLIVars, readCLIVarAtSource: -var name=@- reads the whole standard input.
StdinAfterVars == IF call.stdinVar THEN "eof" ELSE stdin

\* parseConfigWithExternalValues
Parse ==
    /\ pc = "parse"
    /\ stdin' = StdinAfterVars
    /\ IF VariableError \/ ~call.valid \/ (FormatError /\ call.cmd # "validate")
       THEN Returns("error", "end")
       ELSE Returns("", CASE call.cmd = "validate" -> "validate" [] call.offline -> "offline"
                          [] OTHER -> "facts")
    /\ UNCHANGED <<call, world, known, plans, saved, control>>

\* compileValidationProgram
Validate ==
    /\ pc = "validate"
    /\ Returns(IF FormatError THEN "error" ELSE "ok", "end")
    /\ UNCHANGED <<call, world, known, plans, saved, control, stdin>>

\* plan --offline: isRuntimeFactCompileError, or all there is to be.
Offline ==
    /\ pc = "offline"
    /\ IF NeedsFact THEN Returns("error", "end") /\ UNCHANGED screen
       ELSE Returns("ok", "end")
            /\ screen' = {[item |-> i, from |-> Fact, to |-> Want(i)] : i \in Items}
    /\ UNCHANGED <<call, world, known, preview, actual, approved, todo, torn, moved, saved, control, stdin>>

\* loadOnlineProgramWithProgress, resolveOnlineProgramWithRunner: the facts are
\* discovered and the program is compiled with them.
DiscoverFacts ==
    /\ pc = "facts"
    /\ control' = TRUE
    /\ known' = fact
    /\ Returns("", IF call.cmd = "check" THEN "lock" ELSE "preview")
    /\ UNCHANGED <<call, world, plans, saved, stdin>>

\* The program does not compile, and no call was made; or the host cannot be
\* reached or is not supported, or the program does not compile with its facts:
\* the runner is not closed.
DiscoverFactsFails ==
    /\ pc = "facts"
    /\ control' \in BOOLEAN
    /\ Returns("error", "end")
    /\ UNCHANGED <<call, world, known, plans, saved, stdin>>

\* Engine.Plan without the lock, for plan and apply.
Preview ==
    /\ pc = "preview"
    /\ preview' = PlanNow /\ screen' = PlanNow
    /\ torn' = (lock = "other") /\ moved' = FALSE
    /\ CASE call.cmd = "plan" \/ ~HasActions(PlanNow) -> Returns("ok", "close")
         [] call.cmd = "apply" /\ HasActions(PlanNow) ->
              Returns("", IF call.autoApprove THEN "lock" ELSE "confirm")
    /\ UNCHANGED <<call, world, known, actual, approved, todo, saved, control, stdin>>

\* The host cannot be read, or the graph is refused.
PlanFails ==
    /\ pc \in {"preview", "locked"}
    /\ Returns("error", IF pc = "locked" THEN "unlock" ELSE "close")
    /\ UNCHANGED <<call, world, known, plans, saved, control, stdin>>

\* confirmApply: yes to what is on the screen; anything else, and the end of
\* the input, is no.
Confirm ==
    /\ pc \in {"confirm", "review"}
    /\ \/ /\ stdin = "open"
          /\ approved' = approved \cup {screen}
          /\ Returns("", IF pc = "confirm" THEN "lock" ELSE "prepare")
       \/ /\ UNCHANGED approved
          /\ Returns("cancelled", IF pc = "confirm" THEN "close" ELSE "unlock")
    /\ UNCHANGED <<call, world, known, preview, actual, screen, todo, torn, moved, saved, control, stdin>>

-----------------------------------------------------------------------------
(* Under the lock.                                                         *)

\* Mutant: check does not take the lock.
LockApplyOnly ==
    /\ pc = "lock" /\ (lock = "free" \/ call.cmd = "check")
    /\ lock' = IF call.cmd = "check" THEN lock ELSE "self"
    /\ Returns("", "locked")
    /\ UNCHANGED <<call, host, fact, others, known, plans, saved, control, stdin>>

\* withHostLocks
Lock ==
    /\ pc = "lock" /\ lock = "free"
    /\ lock' = "self"
    /\ Returns("", "locked")
    /\ UNCHANGED <<call, host, fact, others, known, plans, saved, control, stdin>>

\* lockHosts fails: the time is up, or the call broke, and then its script may
\* have left a lease.
LockFails ==
    /\ pc = "lock"
    /\ lock' = lock \/ (lock = "free" /\ lock' = "left")
    /\ Returns("error", "close")
    /\ UNCHANGED <<call, host, fact, others, known, plans, saved, control, stdin>>

\* Engine.Check plans under the lock; its plan is printed after the unlock.
CheckPlan ==
    /\ pc = "locked" /\ call.cmd = "check"
    /\ preview' = PlanNow
    /\ torn' = (lock = "other") /\ moved' = FALSE
    /\ Returns(result, "unlock")
    /\ UNCHANGED <<call, world, known, actual, screen, approved, todo, saved, control, stdin>>

CheckReport ==
    /\ pc = "report"
    /\ screen' = preview
    /\ Returns(IF HasActions(preview) THEN "differs" ELSE "ok", "close")
    /\ UNCHANGED <<call, world, known, preview, actual, approved, todo, torn, moved, saved, control, stdin>>

\* Mutant: the plans are compared by what they change, not by what they saw.
SameApprovedPlanLoosely(plan) ==
    {c.item : c \in plan} = {c.item : c \in preview}

\* sameApprovedPlan
SameApprovedPlan(plan) == plan = preview

\* Mutant: facts are saved before the plan is reviewed.
ReplanSaves ==
    /\ pc = "locked" /\ call.cmd = "apply"
    /\ actual' = PlanNow /\ screen' = PlanNow
    /\ torn' = (lock = "other") /\ moved' = FALSE
    /\ saved' = TRUE
    /\ Returns("", IF call.autoApprove \/ SameApprovedPlan(PlanNow) THEN "prepare" ELSE "review")
    /\ UNCHANGED <<call, world, known, preview, approved, todo, control, stdin>>

\* Engine.Apply plans again; reviewExecutionPlan shows that plan, and asks
\* unless it is the one that was approved.
Replan ==
    /\ pc = "locked" /\ call.cmd = "apply"
    /\ actual' = PlanNow /\ screen' = PlanNow
    /\ torn' = (lock = "other") /\ moved' = FALSE
    /\ Returns("", IF call.autoApprove \/ SameApprovedPlan(PlanNow) THEN "prepare" ELSE "review")
    /\ UNCHANGED <<call, world, known, preview, approved, todo, saved, control, stdin>>

\* prepareHostStates: facts and moves are saved.
Prepare ==
    /\ pc = "prepare"
    /\ saved' = TRUE
    /\ todo' = actual
    /\ Returns("", "execute")
    /\ UNCHANGED <<call, world, known, preview, actual, screen, approved, torn, moved, control, stdin>>

\* runExecutionWaves, one change after the other.
Execute ==
    /\ pc = "execute"
    /\ \E c \in todo :
         /\ host' = [host EXCEPT ![c.item] = c.to]
         /\ todo' = todo \ {c}
    /\ Returns("", "execute")
    /\ UNCHANGED <<call, fact, lock, others, known, preview, actual, screen, approved, torn, moved,
                   saved, control, stdin>>

\* Mutant: the run ends well whatever is left.
ExecuteEndsEarly ==
    /\ pc = "execute"
    /\ Returns("ok", "unlock")
    /\ UNCHANGED <<call, world, known, plans, saved, control, stdin>>

ExecuteEnds ==
    /\ pc = "execute" /\ todo = {}
    /\ Returns("ok", "unlock")
    /\ UNCHANGED <<call, world, known, plans, saved, control, stdin>>

\* A step fails, or the lease is lost.
ExecuteFails ==
    /\ pc \in {"prepare", "execute"}
    /\ Returns("error", "unlock")
    /\ UNCHANGED <<call, world, known, plans, saved, control, stdin>>

\* Mutant: only what was executed unlocks.
UnlockExecuted ==
    /\ pc = "unlock"
    /\ lock' = IF lock = "self" /\ saved THEN "free" ELSE lock
    /\ Returns(result, IF result = "" THEN "report" ELSE "close")
    /\ UNCHANGED <<call, host, fact, others, known, plans, saved, control, stdin>>

\* Mutant: the error of an unlock that failed is dropped.
UnlockQuietly ==
    /\ pc = "unlock"
    /\ lock' \in {"free", "left"}
    /\ Returns(result, IF result = "" THEN "report" ELSE "close")
    /\ UNCHANGED <<call, host, fact, others, known, plans, saved, control, stdin>>

\* The deferred unlockHosts of withHostLocks; its error, and one of the lease, is
\* joined to the result.  When the call fails the lease may stay on the host.
Unlock ==
    /\ pc = "unlock"
    /\ \/ /\ lock' = "free"
          /\ \E r \in {result, "error"} : Returns(r, IF r = "" THEN "report" ELSE "close")
       \/ /\ lock' = "left"
          /\ Returns("error", "close")
    /\ UNCHANGED <<call, host, fact, others, known, plans, saved, control, stdin>>

\* The deferred runner.Close.
Close ==
    /\ pc = "close"
    /\ control' = FALSE
    /\ Returns(result, "end")
    /\ UNCHANGED <<call, world, known, plans, saved, stdin>>

-----------------------------------------------------------------------------
\* Nobody renews a lease that was left, so it expires.
LeaseExpires ==
    /\ lock = "left"
    /\ lock' = "free"
    /\ UNCHANGED <<call, pc, host, fact, others, known, plans, saved, control, stdin, result>>

(* The others.  What they do before the first call to the host is part of  *)
(* the initial states.                                                     *)

Connected == pc \notin {"flags", "parse", "validate", "offline", "end"}

OtherLocks ==
    /\ Connected /\ lock = "free" /\ others > 0
    /\ lock' = "other"
    /\ UNCHANGED <<call, pc, host, fact, others, known, plans, saved, control, stdin, result>>

\* Another apply changes an item; an administrator does it without the lock.
OtherWrites ==
    /\ Connected /\ others > 0
    /\ others' = others - 1
    /\ moved' = TRUE
    /\ \/ \E i \in Items, v \in Values : host' = [host EXCEPT ![i] = v] /\ UNCHANGED fact
       \/ fact' \in Values /\ UNCHANGED host
    /\ UNCHANGED <<call, pc, lock, known, preview, actual, screen, approved, todo, torn, saved, control,
                   stdin, result>>

OtherUnlocks ==
    /\ lock = "other"
    /\ lock' = "free"
    /\ UNCHANGED <<call, pc, host, fact, others, known, plans, saved, control, stdin, result>>

Others == OtherLocks \/ OtherWrites \/ OtherUnlocks

Steps ==
    \/ CheckFlags \/ Parse \/ Validate \/ Offline \/ DiscoverFacts \/ DiscoverFactsFails \/ Preview
    \/ PlanFails \/ Confirm \/ Lock \/ LockFails \/ CheckPlan \/ CheckReport \/ Replan \/ Prepare \/ Execute
    \/ ExecuteEnds \/ ExecuteFails \/ Unlock \/ Close

Ended == pc = "end" /\ lock = "free" /\ UNCHANGED vars

Next == Steps \/ LeaseExpires \/ Others \/ Ended

\* The command goes on (every step changes pc or todo), and its user answers;
\* another's apply ends, and time passes.
Fairness == WF_<<pc, todo>>(Steps) /\ WF_lock(OtherUnlocks) /\ WF_lock(LeaseExpires)

Spec == Init /\ [][Next]_vars /\ Fairness

-----------------------------------------------------------------------------
(* Properties.                                                             *)

TypeOK ==
    /\ host \in [Items -> Values] /\ fact \in Values /\ known \in Values \cup {Fact}
    /\ lock \in {"free", "self", "other", "left"} /\ others \in 0 .. MaxOthers
    /\ stdin \in {"open", "eof"}
    /\ {saved, control, torn, moved} \subseteq BOOLEAN
    /\ result \in {"", "ok", "differs", "cancelled", "error"}

\* A variable has the value of the source that docs/cli.md ranks highest: the
\* command line over its variable files, these over the files that are found,
\* where later directories and, in one directory, the automatic files come
\* last, and these over the environment.
HighestSourceWins ==
    pc = "parse" =>
        LET value == VariableValue
            with == SelectSeq(ConfigFileDirs, LAMBDA d : \E f \in call.files : f[1] = d)
            given(s) == s # << >> /\ value = Last(s)
        IN  \/ given(call.vars)
            \/ call.vars = << >> /\ given(call.varFiles)
            \/ /\ call.vars = << >> /\ call.varFiles = << >> /\ with # << >>
               /\ value \in {f \in call.files : f[1] = Last(with)}
               /\ value[2] \in {"default", "default.json"} =>
                    {<<value[1], "a.auto">>, <<value[1], "b.auto">>} \cap call.files = {}
            \/ /\ call.vars = << >> /\ call.varFiles = << >> /\ with = << >>
               /\ value = IF call.env = << >> THEN "default" ELSE Last(call.env)

\* Every change that a command makes is of a plan that the user has seen and
\* answered with yes, as it was on the screen, or was told to make unasked and
\* printed; whatever others did to the host and to the lock meanwhile.
ExecutedWasApproved ==
    [][\A i \in Items : Execute /\ host'[i] # host[i] =>
         /\ call.cmd = "apply" /\ lock = "self"
         /\ screen = actual
         /\ actual \in approved \/ call.autoApprove
         /\ \E c \in actual : c.item = i /\ c.to = host'[i]]_vars

\* What check reports and apply executes is read while nobody else holds the
\* lock, so never in the middle of another's apply.
ReadsNoTornHost ==
    pc \in {"report", "review", "prepare", "execute"} => ~torn

\* The last word of a command is true: what is cancelled, or is no apply, has
\* written neither the state nor the host; an apply that says it is complete, or
\* finds nothing to do, leaves the host as its program wants it, unless others
\* have changed it since the plan was made; and no command keeps its lock, but for
\* the lease of a lock or unlock call that failed, and then it says so.
LastWordTrue ==
    /\ result = "cancelled" \/ call.cmd # "apply" => ~saved /\ todo = {}
    /\ pc = "end" /\ call.cmd = "apply" /\ result = "ok" /\ ~moved =>
         \A i \in Items : host[i] = Want(i)
    /\ pc = "end" => lock # "self" /\ (lock = "left" => result = "error")

\* A command comes to its end when its user answers, and at last its lease is
\* gone from the host: given back, or expired when a call failed.
CommandEnds == <>(pc = "end" /\ lock \notin {"self", "left"})

\* CHANGELOG.md: the directory of the control sockets is cleaned up.
ControlDirectoryRemoved == pc = "end" => ~control
=============================================================================
