--------------------------- MODULE ProviderKinds ---------------------------
(***************************************************************************)
(* What NativeProvider does for each kind of resource: how it compares a   *)
(* host with a declaration (Plan), what the commands of Apply and Destroy  *)
(* change, and what it says of a deletion beforehand                       *)
(* (internal/core/engine/provider*.go, deleteDiagnosticForStep in          *)
(* engine.go).                                                             *)
(*                                                                         *)
(* A host is what the resource's reads can tell apart.  A plan is a step;  *)
(* applying gives the outcomes a call can have: the hosts that its         *)
(* commands go through one after the other, and whether it reports         *)
(* success.  Contents, keys, owners and modes are names.  Change actions   *)
(* are in module Converge.                                                 *)
(***************************************************************************)
EXTENDS Naturals, FiniteSets, Sequences, SequencesExt

CONSTANTS
    Undeclared,     \* the declaration of an address that has none
    NoRecord,       \* the record of an address that has none
    NoOriginal      \* the saved original of a record without one

-----------------------------------------------------------------------------
(* Paths.                                                                  *)

Content == {"a", "b"}
File(c, m) == [type |-> "file", content |-> c, meta |-> m]
Dir(c, m) == [type |-> "dir", content |-> c, meta |-> m]
Missing == [type |-> "missing", content |-> "none", meta |-> "none"]

\* readPath: what there is, its owner and mode, and the digest of a file.
Exists(p) == p.type # "missing"
Sha(p) == IF p.type = "file" THEN p.content ELSE "none"
Fits(p, type) == p.type = type /\ p.meta = "root"

\* A call that succeeds or fails at the end of its commands.
Done(via) == {[via |-> via, ok |-> TRUE]}
Fails(via) == {[via |-> via, ok |-> FALSE]}

\* install replaces a file in two steps; in place of a directory it puts the
\* file into the directory and succeeds (writePathContent).
Installing(h, file) ==
    IF h.path.type = "dir" THEN << >>
    ELSE <<[h EXCEPT !.path = File("part", "other")], [h EXCEPT !.path = file]>>

\* removePath: rm -f fails on a directory; removeDirectory: rm -rf does not.
RemovePath(h) ==
    IF h.path.type = "dir" THEN Fails(<< >>) ELSE Done(<<[h EXCEPT !.path = Missing]>>)
RemoveDirectory(h) == Done(<<[h EXCEPT !.path = Missing]>>)

-----------------------------------------------------------------------------
(* Decisions that all kinds share.                                         *)

Blank == [original |-> NoOriginal, sha |-> "none", installed |-> {}]

Ownership(prior) == IF prior = NoRecord THEN "managed" ELSE prior.owner

Step(prior, action, seen) ==
    [action |-> action, owner |-> Ownership(prior), seen |-> seen]

PlanError == [action |-> "error", owner |-> "managed", seen |-> Blank]

\* inSyncPlan
InSync(prior, seen) ==
    IF prior = NoRecord THEN [action |-> "adopt", owner |-> "adopted", seen |-> seen]
    ELSE Step(prior, "no-op", seen)

\* absentInSyncPlan: a record of what is gone is dropped by a deletion.
AbsentInSync(prior, seen) ==
    Step(prior, IF prior = NoRecord THEN "no-op" ELSE "delete", seen)

\* The comparison of a resource that is there or not.
Ensured(n, prior, exists, same) ==
    IF n.ensure = "absent"
      THEN IF exists THEN Step(prior, "delete", Blank) ELSE AbsentInSync(prior, Blank)
    ELSE IF ~exists THEN Step(prior, "create", Blank)
    ELSE IF ~same THEN Step(prior, "update", Blank)
    ELSE InSync(prior, Blank)

Removes(n, s) == n.ensure = "absent" \/ s.action = "delete"

\* The digest of the record is that of the declaration.
Recorded(n, prior) == prior # NoRecord /\ prior.desired = n

-----------------------------------------------------------------------------
(* Files, units, directories.  A path comes with what hangs on it: what    *)
(* systemd has loaded of a unit, the link of a netdev, an archive moved    *)
(* aside.                                                                  *)

\* Mutant: a write-only content is compared as if it were empty.
PlanFileLikeBlind(n, prior, h) ==
    Ensured(n, prior, Exists(h.path),
            Fits(h.path, "file") /\ (n.write_only \/ h.path.content = n.content))

\* planFileLike: write-only content is known by the record alone.
PlanFileLike(n, prior, h) ==
    Ensured(n, prior, Exists(h.path),
            /\ Fits(h.path, "file")
            /\ IF n.write_only THEN Recorded(n, prior) ELSE h.path.content = n.content)

\* systemctl daemon-reload
DaemonReload(h) == [h EXCEPT !.aside = h.path]

\* applyFileLike; for a unit daemon-reload is a call of its own.
ApplyFileLike(n, s, h, daemonReload) ==
    IF Removes(n, s)
      THEN {IF daemonReload /\ o.ok THEN [o EXCEPT !.via = Append(@, DaemonReload(Last(@)))] ELSE o :
              o \in RemovePath(h)}
      ELSE LET via == Installing(h, File(n.content, "root"))
               end == Last(<<h>> \o via)
           IN  Done(via \o (IF daemonReload THEN <<DaemonReload(end)>> ELSE << >>))

\* planDirectory
PlanDirectory(n, prior, h) == Ensured(n, prior, Exists(h.path), Fits(h.path, "dir"))

\* applyDirectory
ApplyDirectory(n, s, h) ==
    IF Removes(n, s) THEN RemoveDirectory(h)
    ELSE IF h.path.type = "file" THEN Fails(<< >>)
    ELSE LET made == IF Exists(h.path) THEN h ELSE [h EXCEPT !.path = Dir("none", "other")]
         IN  Done(<<made, [made EXCEPT !.path.meta = "root"]>>)

\* destroyNetworkdNetDev
DestroyNetworkdNetDev(h) ==
    {IF o.ok THEN [o EXCEPT !.via = Append(@, [Last(@) EXCEPT !.aside = Missing])] ELSE o :
       o \in RemovePath(h)}

-----------------------------------------------------------------------------
(* APT.                                                                    *)

\* aptSourceOriginalFromCurrent
OriginalFrom(p) == IF p.type = "file" THEN p ELSE Missing

\* Mutant: the original is what is there now.
AptSourceOriginalNow(prior, p) == OriginalFrom(p)

\* aptSourceOriginal, withAPTSourceOriginal
AptSourceOriginal(prior, p) ==
    IF prior # NoRecord /\ prior.original # NoOriginal THEN prior.original ELSE OriginalFrom(p)

\* aptSourceStateNeedsRefresh
NeedsRefresh(n, prior) ==
    prior # NoRecord /\ (prior.original # NoOriginal \/ prior.desired # n)

\* planAPTSourceFile
PlanAptSourceFile(n, prior, h) ==
    LET same == Fits(h.path, "file") /\ h.path.content = n.content
        saved == [Blank EXCEPT !.original = AptSourceOriginal(prior, h.path)]
    IN  IF n.ensure = "absent"
          THEN IF prior = NoRecord THEN Step(prior, "no-op", Blank)
               ELSE IF n.on_destroy = "keep" THEN Step(prior, "forget", Blank)
               ELSE IF prior.original = NoOriginal THEN PlanError
               ELSE Step(prior, "delete", Blank)
        ELSE IF ~Exists(h.path) THEN Step(prior, "create", Blank)
        ELSE IF ~same THEN Step(prior, "update", Blank)
        ELSE IF ~n.sensitive THEN InSync(prior, saved)
        ELSE IF NeedsRefresh(n, prior) THEN Step(prior, "adopt", Blank)
        ELSE InSync(prior, Blank)

\* restoreAPTSourceFile
RestoreAptSourceFile(prior, h) ==
    IF prior = NoRecord THEN Done(<< >>)
    ELSE IF prior.original \in {NoOriginal, Missing} THEN RemovePath(h)
    ELSE Done(Installing(h, prior.original))

\* applyAPTSourceFile
ApplyAptSourceFile(n, s, prior, h) ==
    IF Removes(n, s)
      THEN IF n.on_destroy = "restore" THEN RestoreAptSourceFile(prior, h) ELSE Done(<< >>)
      ELSE Done(Installing(h, File(n.content, "root")))

\* destroyAPTSourceFile: the apt-get update after the restoration may fail.
DestroyAptSourceFile(prior, h) ==
    IF prior.desired.on_destroy # "restore" THEN Done(<< >>)
    ELSE RestoreAptSourceFile(prior, h) \cup {[o EXCEPT !.ok = FALSE] : o \in RestoreAptSourceFile(prior, h)}

\* planAPTSigningKey, desiredSigningKeySHA: a key from a URL without a digest
\* is known by the record alone.
PlanAptSigningKey(n, prior, h) ==
    Ensured(n, prior, Exists(h.path),
            /\ Fits(h.path, "file")
            /\ IF n.from = "url" THEN prior = NoRecord \/ Recorded(n, prior)
                                 ELSE h.path.content = n.content)

\* A download, of what the server has, checked when there is a digest.
Download(n, h, checked) ==
    UNION {IF checked /\ c # n.content THEN Fails(<< >>) ELSE Done(Installing(h, File(c, "root"))) :
             c \in Content}

\* applyAPTSigningKey
ApplyAptSigningKey(n, s, h) ==
    IF Removes(n, s) THEN RemovePath(h)
    ELSE IF n.from = "content" THEN Done(Installing(h, File(n.content, "root")))
    ELSE Download(n, h, n.from = "url_sha256")

-----------------------------------------------------------------------------
(* Components.                                                             *)

\* planComponentDownload, planComponentFile
PlanComponentDownload(n, prior, h) ==
    Ensured(n, prior, Exists(h.path), Fits(h.path, "file") /\ h.path.content = n.content)
PlanComponentFile(n, prior, h) == PlanComponentDownload(n, prior, h)

\* applyComponentDownload
ApplyComponentDownload(n, s, h) ==
    IF Removes(n, s) THEN RemovePath(h) ELSE Download(n, h, TRUE)

\* applyComponentFile: from the downloaded source.
ApplyComponentFile(n, s, h) ==
    IF Removes(n, s) THEN RemovePath(h) ELSE Done(Installing(h, File(n.content, "root")))

\* planComponentBuild, planComponentBinary: the output is known by what the
\* record says was installed.
PlanComponentBuild(n, prior, h) ==
    Ensured(n, prior, Exists(h.path),
            /\ Fits(h.path, "file")
            /\ Recorded(n, prior) /\ prior.sha # "none" /\ prior.sha = Sha(h.path))
PlanComponentBinary(n, prior, h) == PlanComponentBuild(n, prior, h)

\* componentBuildScript: a build may give another output every time, or none.
BuildScript(h) == Fails(<< >>) \cup UNION {Done(Installing(h, File(c, "root"))) : c \in Content}

\* applyComponentBuild
ApplyComponentBuild(n, s, h) == IF Removes(n, s) THEN RemovePath(h) ELSE BuildScript(h)

\* componentBinaryExtractInstallScript: the archive may not hold the file
\* exactly once.
ExtractInstallScript(n, h) == Fails(<< >>) \cup Done(Installing(h, File(n.content, "root")))

\* applyComponentBinary
ApplyComponentBinary(n, s, h) ==
    IF Removes(n, s) THEN RemovePath(h) ELSE ExtractInstallScript(n, h)

\* planComponentArchive
PlanComponentArchive(n, prior, h) ==
    Ensured(n, prior, Exists(h.path), Fits(h.path, "dir") /\ Recorded(n, prior))

\* Mutant: the rollback only cleans up.
RollbackCleans(h) == [h EXCEPT !.aside = Missing]

\* component_workspace_rollback
Rollback(h) ==
    IF Exists(h.aside) THEN [path |-> h.aside, aside |-> Missing] ELSE [h EXCEPT !.aside = Missing]

\* applyComponentArchive, componentWorkspaceSetup: the old archive is moved
\* aside, the new one moved in, the old one removed.  A command that fails
\* before the new one is in place rolls back.
ApplyComponentArchive(n, s, h) ==
    LET clean == [h EXCEPT !.aside = Missing]
        moved == [path |-> Missing, aside |-> h.path]
        new   == [moved EXCEPT !.path = Dir(n.content, "root")]
    IN  IF Removes(n, s) THEN RemoveDirectory(h)
        ELSE Fails(<<clean>>) \cup Fails(<<clean, moved, Rollback(moved)>>) \cup Fails(<<clean, moved, new>>)
             \cup Done(<<clean, moved, new, [new EXCEPT !.aside = Missing]>>)

\* planComponentScriptOutput
PlanComponentScriptOutput(n, prior, h) ==
    IF ~Exists(h.path) THEN Step(prior, IF prior = NoRecord THEN "create" ELSE "update", Blank)
    ELSE IF h.path.type = "dir" \/ ~Recorded(n, prior) \/ prior.sha # Sha(h.path)
      THEN Step(prior, "update", Blank)
    ELSE InSync(prior, Blank)

\* runScriptOperation, readScriptOutputs: the script's operation writes the
\* output; without a regular file there is an error (applyComponentScriptOutput
\* itself changes nothing).
RunScript(h) ==
    Fails(<< >>) \cup (IF h.path.type = "dir" THEN {}
                       ELSE UNION {Done(<<[h EXCEPT !.path = File(c, "root")]>>) : c \in Content})

-----------------------------------------------------------------------------
(* Packages, kernel, users.                                                *)

\* packageInstallState: the package itself, or only one that provides its name.
PackageInstallState(h) == [Blank EXCEPT !.installed = IF h.pkg = "installed" THEN {"pkg"} ELSE {}]

\* planPackage
PlanPackage(n, prior, h) ==
    LET seen == PackageInstallState(h)
    IN  IF n.ensure = "absent"
          THEN IF h.pkg = "installed" THEN Step(prior, "delete", seen) ELSE AbsentInSync(prior, seen)
        ELSE IF h.pkg = "none" THEN Step(prior, "create", seen)
        ELSE IF h.pkg = "installed" /\ prior # NoRecord /\ n.policy \notin {"unset", prior.desired.policy}
          THEN Step(prior, "update", seen)
        ELSE InSync(prior, seen)

\* applyPackage: what apt installs may be a provider of the name; it is
\* verified by reading it again.
ApplyPackage(n, s, h) ==
    IF Removes(n, s)
      THEN Done(IF s.seen.installed = {} THEN << >> ELSE <<[h EXCEPT !.pkg = IF @ = "installed" THEN "none" ELSE @]>>)
      ELSE Fails(<< >>) \cup Done(<<[h EXCEPT !.pkg = "installed"]>>)
           \cup (IF h.pkg = "installed" THEN {} ELSE Done(<<[h EXCEPT !.pkg = "virtual"]>>))

\* planDockerPackageConflicts, installedPackages
PlanDockerPackageConflicts(n, prior, h) ==
    IF h.pkgs = {} THEN Step(prior, "no-op", Blank)
    ELSE IF n.remove_conflicts = "false" THEN PlanError
    ELSE Step(prior, "delete", [Blank EXCEPT !.installed = h.pkgs])

\* applyDockerPackageConflicts
ApplyDockerPackageConflicts(s, h) == Done(<<[h EXCEPT !.pkgs = @ \ s.seen.installed]>>)

\* planKernelModule
PlanKernelModule(n, prior, h) ==
    IF n.ensure = "absent"
      THEN IF h.loaded \/ h.persisted THEN Step(prior, "delete", Blank) ELSE AbsentInSync(prior, Blank)
    ELSE IF h.loaded /\ h.persisted THEN InSync(prior, Blank) ELSE Step(prior, "update", Blank)

\* modprobe -r fails silently for a module in use.
UnloadKernelModule(h) ==
    LET gone == [h EXCEPT !.persisted = FALSE]
    IN  Done(<<gone>>) \cup Done(<<gone, [gone EXCEPT !.loaded = FALSE]>>)

\* applyKernelModule
ApplyKernelModule(n, s, h) ==
    IF Removes(n, s) THEN UnloadKernelModule(h)
    ELSE Done(<<[h EXCEPT !.loaded = TRUE], [loaded |-> TRUE, persisted |-> TRUE]>>)

\* sysctl -n separates the numbers of a value by tabs.
Shown(v) == IF v = "4_5" THEN "4_tab_5" ELSE v

\* planSysctl
PlanSysctl(n, prior, h) ==
    IF n.ensure = "absent"
      THEN IF h.file = n.value THEN Step(prior, "delete", Blank) ELSE AbsentInSync(prior, Blank)
    ELSE IF Shown(h.value) # n.value \/ h.file # n.value THEN Step(prior, "update", Blank)
    ELSE InSync(prior, Blank)

\* Mutant: the runtime value is reset with the file.
ApplySysctlResets(n, s, h) ==
    IF Removes(n, s) THEN Done(<<[value |-> "1", file |-> "none"]>>)
    ELSE Done(<<[h EXCEPT !.value = n.value], [value |-> n.value, file |-> n.value]>>)

\* applySysctl
ApplySysctl(n, s, h) ==
    IF Removes(n, s) THEN Done(<<[h EXCEPT !.file = "none"]>>)
    ELSE Done(<<[h EXCEPT !.value = n.value], [value |-> n.value, file |-> n.value]>>)

\* planGroup
PlanGroup(n, prior, h) == Ensured(n, prior, h.exists, n.gid \in {"unset", h.gid})

\* applyGroup: a new group without a gid gets one.
ApplyGroup(n, s, h) ==
    IF Removes(n, s) THEN Done(<<[exists |-> FALSE, gid |-> "unset"]>>)
    ELSE Done(<<[exists |-> TRUE, gid |-> IF n.gid # "unset" THEN n.gid
                                          ELSE IF h.exists THEN h.gid ELSE "1"]>>)

\* readUser: the primary group is not among the groups that are read.
ReadUser(h) == [h EXCEPT !.groups = @ \ {h.primary}]

\* planUser
PlanUser(n, prior, h) ==
    LET user == ReadUser(h)
    IN  Ensured(n, prior, user.exists, n.shell \in {"unset", user.shell} /\ n.groups \in {{}, user.groups})

\* Mutant: usermod -G without groups.
ApplyUserStrips(n, s, h) ==
    IF Removes(n, s) THEN Done(<<[exists |-> FALSE, shell |-> "unset", primary |-> "unset", groups |-> {}]>>)
    ELSE Done(<<[exists |-> TRUE, shell |-> IF n.shell # "unset" THEN n.shell ELSE IF h.exists THEN h.shell ELSE "sh",
                 primary |-> IF h.exists THEN h.primary ELSE "own", groups |-> n.groups]>>)

\* applyUser, userFlags: usermod -G replaces the supplementary groups.
ApplyUser(n, s, h) ==
    IF Removes(n, s) THEN Done(<<[exists |-> FALSE, shell |-> "unset", primary |-> "unset", groups |-> {}]>>)
    ELSE Done(<<[exists |-> TRUE, shell |-> IF n.shell # "unset" THEN n.shell ELSE IF h.exists THEN h.shell ELSE "sh",
                 primary |-> IF h.exists THEN h.primary ELSE "own",
                 groups |-> IF n.groups # {} THEN n.groups ELSE h.groups]>>)

\* planUserGroupMembership; managed: the node depends on the node of its user.
PlanUserGroupMembership(n, prior, h) ==
    IF n.ensure = "absent"
      THEN IF h.user /\ h.member /\ ~h.primary THEN Step(prior, "delete", Blank)
           ELSE AbsentInSync(prior, Blank)
    ELSE IF ~h.user THEN IF n.managed THEN Step(prior, "create", Blank) ELSE PlanError
    ELSE IF h.primary \/ h.member THEN InSync(prior, Blank)
    ELSE Step(prior, "update", Blank)

\* applyUserGroupMembership: a managed user was created by then.
ApplyUserGroupMembership(n, s, h) ==
    LET there == [h EXCEPT !.user = @ \/ n.managed]
    IN  IF Removes(n, s)
          THEN Done(IF h.user /\ ~h.primary THEN <<[h EXCEPT !.member = FALSE]>> ELSE << >>)
        ELSE IF ~there.user THEN Fails(<< >>) ELSE Done(<<[there EXCEPT !.member = TRUE]>>)

\* planAuthorizedKey
PlanAuthorizedKey(n, prior, h) == Ensured(n, prior, h.user /\ "k" \in h.keys, TRUE)

\* applyAuthorizedKey: a key is removed by writing the file anew.
ApplyAuthorizedKey(n, s, h) ==
    IF Removes(n, s)
      THEN Done(IF ~h.user THEN << >>
                ELSE <<[h EXCEPT !.keys = {}], [h EXCEPT !.keys = @ \ {"k"}]>>)
    ELSE IF ~h.user THEN Fails(<< >>) ELSE Done(<<[h EXCEPT !.keys = @ \cup {"k"}]>>)

-----------------------------------------------------------------------------
(* Services, Compose projects and system settings.                         *)

\* planService
PlanService(n, prior, h) ==
    IF \/ n.enabled \notin {"unset", h.enabled}
       \/ n.state = "running" /\ ~h.active
       \/ n.state = "stopped" /\ h.active
       \/ n.state \in {"restarted", "reloaded"}
      THEN Step(prior, "update", Blank) ELSE InSync(prior, Blank)

\* applyService: a unit that is not active cannot be reloaded.
ApplyService(n, h) ==
    LET able == IF n.enabled = "unset" THEN h ELSE [h EXCEPT !.enabled = n.enabled]
    IN  CASE n.state = "unset" -> Done(<<able>>)
          [] n.state \in {"running", "restarted"} -> Done(<<able, [able EXCEPT !.active = TRUE]>>)
          [] n.state = "stopped" -> Done(<<able, [able EXCEPT !.active = FALSE]>>)
          [] n.state = "reloaded" -> IF h.active THEN Done(<<able>>) ELSE Fails(<<able>>)

\* Containers of a project, those of its services and those of services it no
\* longer has ("part": the containers run, but a service has none), and its
\* compose file: one docker compose can read, one that it cannot (it is missing
\* or invalid, or docker is down), or one written since the plan was made.
Project == {"p1", "p2"}

\* readDockerComposeProject: what docker compose says of an unreadable file is
\* dropped, and the project is taken for absent.
ReadDockerComposeProject(c) ==
    IF c.file = "unread" THEN [c EXCEPT !.svc = "none", !.orphan = "none"] ELSE c

\* summarizeDockerComposePS, dockerComposeProjectObservedState: a service
\* without a container does not count.
ObservedState(c) ==
    LET all == {c.svc, c.orphan}
    IN  CASE all = {"none"} -> "absent"
          [] all # {"none"} /\ all \subseteq {"none", "running", "part"} -> "running"
          [] all # {"none"} /\ all \subseteq {"none", "stopped"} -> "stopped"
          [] OTHER -> "degraded"

\* planDockerComposeProject
PlanDockerComposeProject(n, prior, h) ==
    LET observed == ReadDockerComposeProject(h[n.project])
        actual == ObservedState(observed)
    IN  IF n.state = "absent"
          THEN IF actual = "absent" THEN AbsentInSync(prior, Blank) ELSE Step(prior, "delete", Blank)
        ELSE IF \/ actual # n.state
                \/ observed.orphan # "none"
                \/ prior # NoRecord /\ prior.desired # n
          THEN Step(prior, "update", Blank)
        ELSE InSync(prior, Blank)

\* The compose file has a step of its own between the plan and the project's
\* step.  What it writes is not in the project's node: a service may be new, or
\* have gone.
FileStep(c) ==
    LET written == [c EXCEPT !.file = "late"]
    IN  {c, written,
         [written EXCEPT !.svc = IF @ = "running" THEN "part" ELSE @],
         [written EXCEPT !.orphan = IF @ = "none" /\ c.svc \in {"running", "stopped"} THEN c.svc ELSE @]}

AfterFileStep(n, h) == {[h EXCEPT ![n.project] = c] : c \in FileStep(h[n.project])}

\* dockerComposeProjectCommand: up, stop or down.
ComposeCommand(n, state, c) ==
    LET orphan == IF n.remove_orphans THEN "none" ELSE c.orphan
    IN  CASE state = "running" -> [svc |-> "running", orphan |-> orphan, file |-> "read"]
          [] state = "stopped" -> [c EXCEPT !.svc = IF @ = "none" THEN @ ELSE "stopped", !.file = "read"]
          [] state = "absent" -> [svc |-> "none", orphan |-> orphan, file |-> "read"]

\* applyDockerComposeProject: the project of the record is taken down first
\* when it has another name.
ComposeCommands(n, prior, h) ==
    LET renamed == prior # NoRecord /\ prior.desired.project # n.project
        down == IF renamed THEN [h EXCEPT ![prior.desired.project].svc = "none"] ELSE h
    IN  IF h[n.project].file = "unread" THEN Fails(<<h>>)
        ELSE Done(<<h, down, [down EXCEPT ![n.project] = ComposeCommand(n, n.state, @)]>>)

ApplyDockerComposeProject(n, prior, h) ==
    UNION {ComposeCommands(n, prior, g) : g \in AfterFileStep(n, h)}

\* Destroy: docker compose down, from the record.
DestroyDockerComposeProject(d, h) ==
    IF h[d.project].file = "unread" THEN Fails(<< >>)
    ELSE Done(<<[h EXCEPT ![d.project] = ComposeCommand(d, "absent", @)]>>)

\* planSystemHostname
PlanSystemHostname(n, prior, h) ==
    IF h.value # n.value THEN Step(prior, "update", Blank) ELSE InSync(prior, Blank)

\* systemSettingAction
SystemSettingAction(prior, h) == IF prior = NoRecord /\ h.value = "unset" THEN "create" ELSE "update"

\* planSystemTimezone; available: the zone is installed.
PlanSystemTimezone(n, prior, h) ==
    IF ~h.available THEN PlanError
    ELSE IF h.value # n.value THEN Step(prior, SystemSettingAction(prior, h), Blank)
    ELSE InSync(prior, Blank)

\* planSystemLocale; available: the locale is generated.
PlanSystemLocale(n, prior, h) ==
    IF h.value # n.value \/ ~h.available THEN Step(prior, SystemSettingAction(prior, h), Blank)
    ELSE InSync(prior, Blank)

\* applySystemHostname, verified by reading it again.
ApplySystemHostname(n, h) == Fails(<< >>) \cup Done(<<[h EXCEPT !.value = n.value]>>)

\* applySystemTimezone
ApplySystemTimezone(n, h) ==
    IF ~h.available THEN Fails(<< >>) ELSE Done(<<[h EXCEPT !.value = n.value]>>)

\* applySystemLocale
ApplySystemLocale(n, h) ==
    LET generated == [h EXCEPT !.available = TRUE]
    IN  Fails(<< >>) \cup Done(<<generated, [generated EXCEPT !.value = n.value]>>)

-----------------------------------------------------------------------------
(* Dispatch on the kind.                                                   *)

\* Plan
ProviderPlan(k, n, prior, h) ==
    CASE k \in {"file", "systemd_unit", "networkd_netdev"} -> PlanFileLike(n, prior, h)
      [] k = "directory" -> PlanDirectory(n, prior, h)
      [] k = "apt_source_file" -> PlanAptSourceFile(n, prior, h)
      [] k = "apt_signing_key" -> PlanAptSigningKey(n, prior, h)
      [] k = "component_download" -> PlanComponentDownload(n, prior, h)
      [] k = "component_build" -> PlanComponentBuild(n, prior, h)
      [] k = "component_binary" -> PlanComponentBinary(n, prior, h)
      [] k = "component_file" -> PlanComponentFile(n, prior, h)
      [] k = "component_archive" -> PlanComponentArchive(n, prior, h)
      [] k = "component_script_output" -> PlanComponentScriptOutput(n, prior, h)
      [] k = "package" -> PlanPackage(n, prior, h)
      [] k = "docker_package_conflicts" -> PlanDockerPackageConflicts(n, prior, h)
      [] k = "kernel_module" -> PlanKernelModule(n, prior, h)
      [] k = "sysctl" -> PlanSysctl(n, prior, h)
      [] k = "group" -> PlanGroup(n, prior, h)
      [] k = "user" -> PlanUser(n, prior, h)
      [] k = "user_group_membership" -> PlanUserGroupMembership(n, prior, h)
      [] k = "ssh_authorized_key" -> PlanAuthorizedKey(n, prior, h)
      [] k = "service" -> PlanService(n, prior, h)
      [] k = "docker_compose_project" -> PlanDockerComposeProject(n, prior, h)
      [] k = "system_hostname" -> PlanSystemHostname(n, prior, h)
      [] k = "system_timezone" -> PlanSystemTimezone(n, prior, h)
      [] k = "system_locale" -> PlanSystemLocale(n, prior, h)

\* Apply
ProviderApply(k, n, s, prior, h) ==
    CASE k \in {"file", "networkd_netdev"} -> ApplyFileLike(n, s, h, FALSE)
      [] k = "systemd_unit" -> ApplyFileLike(n, s, h, TRUE)
      [] k = "directory" -> ApplyDirectory(n, s, h)
      [] k = "apt_source_file" -> ApplyAptSourceFile(n, s, prior, h)
      [] k = "apt_signing_key" -> ApplyAptSigningKey(n, s, h)
      [] k = "component_download" -> ApplyComponentDownload(n, s, h)
      [] k = "component_build" -> ApplyComponentBuild(n, s, h)
      [] k = "component_binary" -> ApplyComponentBinary(n, s, h)
      [] k = "component_file" -> ApplyComponentFile(n, s, h)
      [] k = "component_archive" -> ApplyComponentArchive(n, s, h)
      [] k = "component_script_output" -> RunScript(h)
      [] k = "package" -> ApplyPackage(n, s, h)
      [] k = "docker_package_conflicts" -> ApplyDockerPackageConflicts(s, h)
      [] k = "kernel_module" -> ApplyKernelModule(n, s, h)
      [] k = "sysctl" -> ApplySysctl(n, s, h)
      [] k = "group" -> ApplyGroup(n, s, h)
      [] k = "user" -> ApplyUser(n, s, h)
      [] k = "user_group_membership" -> ApplyUserGroupMembership(n, s, h)
      [] k = "ssh_authorized_key" -> ApplyAuthorizedKey(n, s, h)
      [] k = "service" -> ApplyService(n, h)
      [] k = "docker_compose_project" -> ApplyDockerComposeProject(n, prior, h)
      [] k = "system_hostname" -> ApplySystemHostname(n, h)
      [] k = "system_timezone" -> ApplySystemTimezone(n, h)
      [] k = "system_locale" -> ApplySystemLocale(n, h)

\* Destroy: from the record alone.
ProviderDestroy(k, prior, h) ==
    LET d == prior.desired
        s == Step(prior, "delete", [Blank EXCEPT !.installed = {"pkg"}])
    IN  CASE k = "apt_source_file" -> DestroyAptSourceFile(prior, h)
          [] k = "networkd_netdev" -> DestroyNetworkdNetDev(h)
          [] k = "systemd_unit" -> ApplyFileLike(d, s, h, TRUE)
          [] k \in {"file", "apt_signing_key", "component_download", "component_build",
                    "component_binary", "component_file"} -> RemovePath(h)
          [] k \in {"directory", "component_archive"} -> RemoveDirectory(h)
          [] k \in {"package", "sysctl", "group", "user", "kernel_module",
                    "user_group_membership", "ssh_authorized_key"} -> ProviderApply(k, d, s, prior, h)
          [] k = "service" -> Done(<< >>) \cup Done(<<[enabled |-> "no", active |-> FALSE]>>)
          [] k = "docker_compose_project" -> DestroyDockerComposeProject(d, h)
          [] k \in {"docker_package_conflicts", "component_script_output", "system_hostname",
                    "system_timezone", "system_locale"} -> Done(<< >>)

\* What the record keeps of the host after a call, the digest of what was
\* installed and the original of a source file.
Observed(k, n, prior, before, after) ==
    [Blank EXCEPT
       !.sha = IF k \in {"component_build", "component_binary", "component_file", "component_script_output"}
                 THEN Sha(after.path) ELSE "none",
       !.original = IF k = "apt_source_file" /\ ~n.sensitive
                      THEN AptSourceOriginal(prior, before.path) ELSE NoOriginal]

-----------------------------------------------------------------------------
(* What a plan says of a deletion.                                         *)

\* deleteDiagnosticForStep, destructiveDeleteDiagnostic
DeleteBehavior(k, action, d) ==
    CASE action = "forget" -> "forget"
      [] action # "forget" /\ k = "apt_source_file" ->
           IF d.on_destroy = "restore" THEN "restore-original" ELSE "forget"
      [] action # "forget" /\ k \in {"sysctl", "apt_signing_key", "component_download", "component_build"} ->
           "remove-managed-artifact"
      [] action # "forget" /\ k \in {"kernel_module", "systemd_unit", "user_group_membership", "service",
                                     "networkd_netdev"} -> "external-side-effect"
      [] action # "forget" /\ k \in {"docker_package_conflicts", "package", "file", "directory", "group", "user",
                                     "ssh_authorized_key", "component_binary", "component_file",
                                     "component_archive", "docker_compose_project"} -> "destructive"
      [] OTHER -> "unknown"
=============================================================================
