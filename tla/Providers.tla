----------------------------- MODULE Providers -----------------------------
(***************************************************************************)
(* One resource of any kind over several runs: the plan compares it with   *)
(* the host, the call changes the host, the state records it, with edits   *)
(* of the configuration, changes of the host by others, failed and         *)
(* interrupted calls in between (Engine.Plan, orphanSteps and              *)
(* executeResourceStep in internal/core/engine/engine.go around the        *)
(* operators of ProviderKinds).                                            *)
(***************************************************************************)
EXTENDS ProviderKinds

CONSTANTS
    Kinds,          \* the kinds of the resources to consider
    MaxEdits,       \* edits of the configuration
    MaxDrift,       \* changes of the host by others
    MaxFaults       \* calls cut off and records lost

ASSUME BoundsAssumption == MaxEdits \in Nat /\ MaxDrift \in Nat /\ MaxFaults \in Nat

VARIABLES
    kind,       \* the kind of the resource
    want,       \* its declaration
    host,       \* what the host has of it
    rec,        \* its record in the state
    step,       \* the step that the plan holds
    pc,         \* "idle", "refused", "planned", "called", "done", "failed" or "cut"
    applied,    \* the declaration of the last run that ended without an error
    origin,     \* what was there before dbf wrote
    clean,      \* every write since then is in the record, and may be saved
    left        \* what is left of the bounds

vars == <<kind, want, host, rec, step, pc, applied, origin, clean, left>>

-----------------------------------------------------------------------------
(* Declarations and hosts of each kind.                                    *)

PathKinds ==
    {"file", "systemd_unit", "networkd_netdev", "directory", "apt_source_file", "apt_signing_key",
     "component_download", "component_build", "component_binary", "component_file",
     "component_archive", "component_script_output"}

AllKinds ==
    PathKinds \cup
    {"package", "docker_package_conflicts", "kernel_module", "sysctl", "group", "user",
     "user_group_membership", "ssh_authorized_key", "service", "docker_compose_project",
     "system_hostname", "system_timezone", "system_locale"}

Present == {"present"}
Either == {"present", "absent"}

\* What merge lets through.
Nodes(k) ==
    CASE k = "file" -> [ensure : Either, content : Content, write_only : BOOLEAN]
      [] k \in {"systemd_unit", "networkd_netdev"} -> [ensure : Either, content : Content, write_only : {FALSE}]
      [] k = "apt_source_file" ->
           {n \in [ensure : Either, content : Content, on_destroy : {"keep", "restore"}, sensitive : BOOLEAN] :
              ~(n.sensitive /\ n.on_destroy = "restore")}
      [] k = "apt_signing_key" -> [ensure : Either, content : Content, from : {"content", "url", "url_sha256"}]
      [] k \in {"component_download", "component_build", "component_binary", "component_file",
                "component_archive"} -> [ensure : Either, content : Content]
      [] k = "directory" -> [ensure : Either]
      [] k = "component_script_output" -> [ensure : Present, script : Content]
      [] k = "package" -> [ensure : Either, policy : {"unset", "keep", "replace"}]
      [] k = "docker_package_conflicts" -> [ensure : Present, remove_conflicts : {"auto", "true", "false"}]
      [] k = "kernel_module" -> [ensure : Either]
      [] k = "sysctl" -> [ensure : Either, value : {"1", "2", "4_5"}]
      [] k = "group" -> [ensure : Either, gid : {"unset", "1", "2"}]
      [] k = "user" -> [ensure : Either, shell : {"unset", "sh", "zsh"}, groups : SUBSET {"g", "w"}]
      [] k = "user_group_membership" -> [ensure : Either, managed : BOOLEAN]
      [] k = "ssh_authorized_key" -> [ensure : Either]
      [] k = "service" ->
           [ensure : Present, enabled : {"unset", "yes", "no"},
            state : {"unset", "running", "stopped", "restarted", "reloaded"}]
      [] k = "docker_compose_project" ->
           [ensure : Present, project : Project, state : {"running", "stopped", "absent"}, remove_orphans : BOOLEAN]
      [] k \in {"system_hostname", "system_timezone", "system_locale"} -> [ensure : Present, value : {"x", "y"}]

\* What readPath can give, and what the state can keep of a resource.
Contents == Content \cup {"part", "link", "none"}
Entry == [type : {"missing", "file", "dir"}, content : Contents, meta : {"root", "other", "none"}]
Records(k) ==
    [desired : Nodes(k), owner : {"managed", "adopted"}, original : Entry \cup {NoOriginal}, sha : Contents]

\* The provider knows the kinds; the names for what is not there stand for
\* nothing else.
ASSUME KindsAssumption ==
    /\ Kinds \subseteq AllKinds
    /\ NoOriginal \notin Entry
    /\ \A k \in Kinds : NoRecord \notin Records(k)

Paths ==
    {Missing} \cup {File(c, m) : c \in Content, m \in {"root", "other"}} \cup {Dir("none", m) : m \in {"root", "other"}}

Hosts(k) ==
    LET NoUser == [exists |-> FALSE, shell |-> "unset", primary |-> "unset", groups |-> {}]
        NoContainer(file) == [svc |-> "none", orphan |-> "none", file |-> file]
    IN  CASE k = "networkd_netdev" -> [path : Paths, aside : {Missing, File("link", "root")}]
          [] k = "systemd_unit" -> {[path |-> p, aside |-> p] : p \in Paths}
          [] k \in PathKinds \ {"networkd_netdev", "systemd_unit"} -> [path : Paths, aside : {Missing}]
          [] k = "package" -> [pkg : {"none", "installed", "virtual"}]
          [] k = "docker_package_conflicts" -> [pkgs : SUBSET {"p", "q"}]
          [] k = "kernel_module" -> [loaded : BOOLEAN, persisted : BOOLEAN]
          [] k = "sysctl" -> [value : {"1", "2"}, file : {"none", "1", "2"}]
          [] k = "group" -> {[exists |-> FALSE, gid |-> "unset"]} \cup [exists : {TRUE}, gid : {"1", "2"}]
          [] k = "user" -> {NoUser} \cup [exists : {TRUE}, shell : {"sh", "zsh"}, primary : {"own", "g"},
                                          groups : SUBSET {"g", "w"}]
          [] k = "user_group_membership" ->
               {h \in [user : BOOLEAN, primary : BOOLEAN, member : BOOLEAN] : h.user \/ ~(h.primary \/ h.member)}
          [] k = "ssh_authorized_key" ->
               {h \in [user : BOOLEAN, keys : SUBSET {"k", "other"}] : h.user \/ h.keys = {}}
          [] k = "service" -> [enabled : {"yes", "no"}, active : BOOLEAN]
          [] k = "docker_compose_project" ->
               {[p1 |-> c, p2 |-> NoContainer(c.file)] :
                  c \in [svc : {"none", "running", "stopped", "mixed"}, orphan : {"none", "running"},
                         file : {"unread", "read"}]}
          [] k \in {"system_hostname", "system_timezone", "system_locale"} ->
               [value : {"unset", "x", "y"}, available : BOOLEAN]

NoStep == [action |-> "none", owner |-> "managed", seen |-> Blank]

Init ==
    /\ kind \in Kinds
    /\ host \in Hosts(kind)
    /\ want = Undeclared /\ rec = NoRecord /\ step = NoStep /\ pc = "idle"
    /\ applied = Undeclared /\ origin = host /\ clean = TRUE
    /\ left = [edits |-> MaxEdits, drift |-> MaxDrift, faults |-> MaxFaults]

-----------------------------------------------------------------------------
(* The plan.                                                               *)

\* forgetOrphan
ForgetOrphan ==
    \/ kind \in {"component_script_output", "system_hostname", "system_timezone", "system_locale"}
    \/ kind = "apt_source_file" /\ rec.desired.on_destroy = "keep"

\* orphanSteps: what is recorded and no longer declared.
OrphanStep ==
    IF rec = NoRecord THEN Step(rec, "no-op", Blank)
    ELSE Step(rec, IF rec.owner = "adopted" \/ ForgetOrphan THEN "forget" ELSE "destroy", Blank)

PlannedStep == IF want = Undeclared THEN OrphanStep ELSE ProviderPlan(kind, want, rec, host)

Ended == pc \in {"idle", "refused", "done", "failed", "cut"}

\* Engine.Plan: every node is compared before anything is done.
Plan ==
    /\ Ended /\ PlannedStep.action # "error"
    /\ step' = PlannedStep
    /\ pc' = "planned"
    /\ origin' = IF rec = NoRecord /\ clean THEN host ELSE origin
    /\ UNCHANGED <<kind, want, host, rec, applied, clean, left>>

PlanRefused ==
    /\ Ended /\ PlannedStep.action = "error"
    /\ pc' = "refused"
    /\ UNCHANGED <<kind, want, host, rec, step, applied, origin, clean, left>>

-----------------------------------------------------------------------------
(* The step.                                                               *)

Outcomes ==
    IF step.action = "destroy" THEN ProviderDestroy(kind, rec, host)
    ELSE ProviderApply(kind, want, step, rec, host)

Calls == step.action \in {"create", "update", "delete", "destroy"}

\* executeResourceStep: the provider's call succeeds.
Call ==
    /\ pc = "planned" /\ Calls
    /\ \E o \in Outcomes :
         /\ o.ok
         /\ host' = Last(<<host>> \o o.via)
         /\ step' = IF step.action \in {"create", "update"}
                      THEN [step EXCEPT !.seen = Observed(kind, want, rec, host, host')] ELSE step
    /\ pc' = "called"
    /\ UNCHANGED <<kind, want, rec, applied, origin, clean, left>>

\* A command of the call fails.
CallFails ==
    /\ pc = "planned" /\ Calls
    /\ \E o \in Outcomes : ~o.ok /\ host' = Last(<<host>> \o o.via)
    /\ pc' = "failed"
    /\ clean' = FALSE
    /\ UNCHANGED <<kind, want, rec, step, applied, origin, left>>

\* The connection or the host is lost anywhere in the call.
CallCut ==
    /\ pc = "planned" /\ Calls /\ left.faults > 0
    /\ \E o \in Outcomes : host' \in {host} \cup ToSet(o.via)
    /\ pc' = "cut"
    /\ clean' = FALSE
    /\ left' = [left EXCEPT !.faults = @ - 1]
    /\ UNCHANGED <<kind, want, rec, step, applied, origin>>

\* Steps without a call; the file of a Compose project has been written.
NoCall ==
    /\ pc = "planned" /\ ~Calls
    /\ host' \in IF kind = "docker_compose_project" /\ want # Undeclared
                   THEN AfterFileStep(want, host) ELSE {host}
    /\ pc' = "called"
    /\ UNCHANGED <<kind, want, rec, step, applied, origin, clean, left>>

\* resourceStateForStep and the record's end.
RecordAfter ==
    CASE step.action = "no-op" -> rec
      [] step.action \in {"create", "update", "adopt"} ->
           [desired |-> want, owner |-> step.owner, original |-> step.seen.original, sha |-> step.seen.sha]
      [] step.action \in {"delete", "destroy", "forget"} -> NoRecord

\* A record whose content may not be saved cannot give back the original.
Unsaved == kind = "apt_source_file" /\ rec' # NoRecord /\ rec'.desired.sensitive

\* The rest of executeResourceStep: the state is written and the run ends.
WriteRecord ==
    /\ pc = "called"
    /\ rec' = RecordAfter
    /\ pc' = "done"
    /\ applied' = IF want = Undeclared THEN applied ELSE want
    /\ clean' = (clean /\ ~Unsaved)
    /\ UNCHANGED <<kind, want, host, step, origin, left>>

\* ... or the write fails, before or after the file was replaced.
WriteRecordFails ==
    /\ pc = "called" /\ step.action # "no-op" /\ left.faults > 0
    /\ rec' \in {rec, RecordAfter}
    /\ pc' = "cut"
    /\ clean' = FALSE
    /\ left' = [left EXCEPT !.faults = @ - 1]
    /\ UNCHANGED <<kind, want, host, step, applied, origin>>

-----------------------------------------------------------------------------
(* The environment.                                                        *)

Edit ==
    /\ Ended /\ left.edits > 0
    /\ want' \in (Nodes(kind) \cup {Undeclared}) \ {want}
    /\ pc' = "idle"
    /\ clean' = (clean \/ (pc = "done" /\ rec = NoRecord))
    /\ left' = [left EXCEPT !.edits = @ - 1]
    /\ UNCHANGED <<kind, host, rec, step, applied, origin>>

Drift ==
    /\ Ended /\ left.drift > 0
    /\ host' \in Hosts(kind) \ {host}
    /\ pc' = "idle"
    /\ left' = [left EXCEPT !.drift = @ - 1]
    /\ UNCHANGED <<kind, want, rec, step, applied, origin, clean>>

Next ==
    \/ Plan \/ PlanRefused \/ Call \/ CallFails \/ CallCut \/ NoCall
    \/ WriteRecord \/ WriteRecordFails \/ Edit \/ Drift

Spec == Init /\ [][Next]_vars

-----------------------------------------------------------------------------
(* Properties.                                                             *)

\* What a declaration asks for, said without the comparison of the provider.
\* What the reads cannot see counts where this run has written it, or every
\* write is in the record and nobody else has changed the host.
Wrote == step.action \in {"create", "update"}
Undisturbed == clean /\ left.drift = MaxDrift

\* The content is neither chosen by a build or a server nor unreadable.
ContentKnown ==
    ~ \/ kind = "component_build"
      \/ kind = "apt_signing_key" /\ want.from = "url"
      \/ kind = "file" /\ want.write_only

PathSatisfied ==
    CASE kind = "component_script_output" -> host.path.type = "file"
      [] kind = "directory" -> Fits(host.path, "dir")
      [] kind = "component_archive" ->
           Fits(host.path, "dir") /\ (Wrote \/ Undisturbed => host.path.content = want.content)
      [] OTHER ->
           /\ Fits(host.path, "file")
           /\ host.path.content \in Content
           /\ ContentKnown \/ (kind = "file" /\ (Wrote \/ Undisturbed)) => host.path.content = want.content
           /\ kind = "systemd_unit" /\ Wrote => host.aside = host.path

PresentSatisfied ==
    CASE kind \in PathKinds -> PathSatisfied
      [] kind = "package" -> host.pkg # "none"
      [] kind = "docker_package_conflicts" -> host.pkgs = {}
      [] kind = "kernel_module" -> host.loaded /\ host.persisted
      [] kind = "sysctl" -> host.value = want.value /\ host.file = want.value
      [] kind = "group" -> host.exists /\ want.gid \in {"unset", host.gid}
      [] kind = "user" -> /\ host.exists /\ want.shell \in {"unset", host.shell}
                          /\ want.groups \subseteq host.groups \cup {host.primary}
      [] kind = "user_group_membership" -> host.user /\ (host.primary \/ host.member)
      [] kind = "ssh_authorized_key" -> "k" \in host.keys
      [] kind = "service" -> /\ want.enabled \in {"unset", host.enabled}
                             /\ want.state # "unset" => host.active = (want.state # "stopped")
      [] kind = "docker_compose_project" ->
           /\ host[want.project].svc \in
                CASE want.state = "running" -> {"running"} \cup (IF Wrote THEN {} ELSE {"part"})
                  [] want.state = "stopped" -> {"stopped", "none"}
                  [] want.state = "absent" -> {"none"}
           /\ Undisturbed =>
                \A p \in Project \ {want.project} : host[p].svc # "none" => origin[p].svc # "none"
      [] OTHER -> host.value = want.value /\ (kind = "system_hostname" \/ host.available)

AbsentSatisfied ==
    CASE kind = "apt_source_file" -> TRUE
      [] kind \in PathKinds \ {"apt_source_file"} -> ~Exists(host.path)
      [] kind = "package" -> host.pkg # "installed"
      [] kind = "kernel_module" -> ~host.persisted
      [] kind = "sysctl" -> host.file # want.value
      [] kind \in {"user", "group"} -> ~host.exists
      [] kind = "user_group_membership" -> host.primary \/ ~host.member
      [] kind = "ssh_authorized_key" -> "k" \notin host.keys

Satisfied == IF want.ensure = "absent" THEN AbsentSatisfied ELSE PresentSatisfied

\* A directory stands where a file is to be: install puts the file into it.
Obstructed == kind \in PathKinds /\ host.path.type = "dir"

\* Resources that are never in sync: a service to be restarted or reloaded by
\* every run, a module that is in use, a sysctl value that is shown otherwise
\* than it is written, a user's primary group among its groups, and a project
\* with containers of services it no longer has that are not to be removed, or
\* to be stopped without containers.
NeverInSync ==
    CASE kind = "service" -> want.state \in {"restarted", "reloaded"}
      [] kind = "kernel_module" -> want.ensure = "absent" /\ host.loaded
      [] kind = "sysctl" -> Shown(want.value) # want.value
      [] kind = "user" -> host.primary \in want.groups
      [] kind = "docker_compose_project" ->
           \/ host[want.project].orphan # "none" /\ (~want.remove_orphans \/ want.state = "stopped")
           \/ want.state = "stopped" /\ host[want.project].svc = "none"
      [] OTHER -> FALSE

\* A Compose project whose step had nothing to do, by a plan that could not read
\* its file or read it before the run wrote it: a project to be absent stays
\* while its file is unreadable, and the next plan finds what the new file makes
\* of the containers.
Overlooked ==
    /\ kind = "docker_compose_project" /\ step.action \in {"no-op", "adopt"}
    /\ \/ host[want.project].file = "unread" /\ want.state = "absent"
       \/ host[want.project].file = "late" /\ PlannedStep.action # "no-op"

\* A run that ends without an error leaves the resource as declared and the
\* next plan empty, whatever failed, was interrupted or changed before it,
\* but for the resources above.  A service that is new in the file of a running
\* Compose project and has no container is not counted as missing: no plan
\* finds it.
AppliedIsDeclared ==
    pc = "done" /\ want # Undeclared =>
        \/ Obstructed /\ want.ensure = "present" /\ kind \notin {"directory", "component_archive"}
        \/ Overlooked
        \/ /\ Satisfied
           /\ NeverInSync \/ PlannedStep.action = "no-op"

Executed == pc = "planned" /\ pc' = "called"

\* A source file is given back when its declaration goes and the record is of a
\* file that dbf has written and was to restore, or when it is declared absent
\* with on_destroy = "restore".
GivenBack ==
    IF want = Undeclared THEN rec.owner = "managed" /\ rec.desired.on_destroy = "restore"
    ELSE want.on_destroy = "restore"

\* When a source file is given up it gets the original that the record has saved,
\* or nothing of it is touched.  Once saved, an original is never replaced, and
\* it is what was there before dbf wrote, if every write since is in the record.
\* What is not given back: a file that was adopted, and one whose on_destroy
\* became "restore" while it was in sync, against
\* docs/delete-behavior-diagnostics-plan.md:182 (see RestoreHonoured).  After a
\* write that never got into the record the saved original is dbf's own text.
RestoresOriginal ==
    [][kind = "apt_source_file" =>
         /\ Executed /\ step.action \in {"delete", "destroy", "forget"} =>
              IF GivenBack
                THEN /\ Obstructed \/ host'.path = IF rec.original = NoOriginal THEN Missing ELSE rec.original
                     /\ clean => rec.original = OriginalFrom(origin.path)
                ELSE host' = host
         /\ rec # NoRecord /\ rec' # NoRecord /\ rec.original # NoOriginal /\ ~rec'.desired.sensitive =>
              rec'.original = rec.original]_vars

\* What the plan says of a deletion is what the deletion does: forgetting
\* changes nothing, restoring gives back the original, removing a managed
\* artifact leaves the runtime value alone.
DiagnosticHonest ==
    [][Executed /\ step.action \in {"delete", "destroy", "forget"} =>
         LET d == IF step.action = "delete" THEN want ELSE rec.desired
             b == DeleteBehavior(kind, step.action, d)
         IN  /\ b # "unknown"
             /\ b = "forget" => host' = host
             /\ b = "restore-original" /\ rec.original # NoOriginal /\ ~Obstructed => host'.path = rec.original
             /\ b = "remove-managed-artifact" =>
                  IF kind = "sysctl" THEN host'.value = host.value ELSE ~Exists(host'.path)]_vars

\* A step changes nothing that its declaration does not speak of: other keys,
\* groups of a user declared without groups, the enablement of a service
\* declared without it, containers of former services unless they are to go.
LeavesTheRest ==
    [][Executed /\ step.action \in {"create", "update", "delete"} =>
         CASE kind = "ssh_authorized_key" -> host'.keys \ {"k"} = host.keys \ {"k"}
           [] kind = "user" -> want.ensure = "present" /\ host.exists =>
                /\ host'.primary = host.primary
                /\ want.groups = {} => host'.groups = host.groups
                /\ want.shell = "unset" => host'.shell = host.shell
           [] kind = "group" -> want.ensure = "present" /\ host.exists /\ want.gid = "unset" => host' = host
           [] kind = "service" ->
                /\ want.enabled = "unset" => host'.enabled = host.enabled
                /\ want.state = "unset" => host'.active = host.active
           [] kind = "user_group_membership" -> host'.primary = host.primary
           [] kind = "docker_compose_project" ->
                \A p \in Project : host'[p].orphan # host[p].orphan =>
                    p = want.project /\ (want.remove_orphans \/ host[p].orphan = "none")
           [] kind = "component_archive" -> ~Exists(host'.aside) \/ host'.aside = host.aside
           [] OTHER -> TRUE]_vars

\* An archive is replaced as a whole: when a command of the replacement fails,
\* the old archive or the new one is in place.
ArchiveReplacedWhole ==
    [][pc = "planned" /\ pc' = "failed" /\ kind = "component_archive" /\ Exists(host.path) =>
         host'.path = host.path \/ host'.path = Dir(want.content, "root")]_vars

\* What docs/delete-behavior-diagnostics-plan.md says of apt source files: when
\* the declaration goes, on_destroy = "restore" gives back the original.
RestoreHonoured ==
    pc = "done" /\ kind = "apt_source_file" /\ want = Undeclared /\ clean
    /\ applied # Undeclared /\ applied.ensure = "present" /\ applied.on_destroy = "restore"
    => host.path = OriginalFrom(origin.path)
=============================================================================
