----------------------------- MODULE HostGraph -----------------------------
(* One host from its merged declarations to the run of its resource graph:  *)
(* validateHostSpec and the resolution of depends_on (package merge),       *)
(* compileHost with its helpers and the validation of the graph (package    *)
(* graph), and the order in which a plan lets the active items run (the     *)
(* rule Executor implements: an item starts when its direct active          *)
(* dependencies are done, and is blocked when one of them is not ok).       *)
(*                                                                          *)
(* A host is a set of declarations of one shape.  A declaration carries     *)
(* what orders the graph: its scope (the host or a component), kind, name,  *)
(* the path it manages, its owner and group, the names it uses, the script  *)
(* its change triggers and its depends_on.  Contents, modes, summaries and  *)
(* sources are left out.  An address is <<scope, kind, name>>, with a fourth *)
(* part where the name of the declaration is not enough; a path is a pair,  *)
(* so that a derived path (an apt .sources file, a compose file) can  *)
(* be that of a declared file.  SetToSeq fixes one order of names where the *)
(* code sorts them: the graph depends on the order only as a chain.         *)
EXTENDS Naturals, FiniteSets, Sequences, SequencesExt

CONSTANTS
    Hosts,       \* the hosts that may be declared
    RunHosts,    \* those whose plans are run
    MaxFailures  \* items that may fail in one run

VARIABLES
    host,     \* the declarations
    phase,    \* declared, rejected, merged, compiled, running
    graph,    \* the compiled items
    changed,  \* the nodes the plan changes
    outcome   \* of every active item

vars == <<host, phase, graph, changed, outcome>>

HostScope == "host"
NoPath == <<"none", "none">>
NoHook == <<"none", "none">>
OfficialRepository == "docker-official"
\* Two stand for the packages of dockerOfficialPackages.
OfficialPackages == {"docker-ce", "compose-plugin"}

-----------------------------------------------------------------------------
\* Declarations.

Components(h) == {d.scope : d \in h} \ {HostScope}
Scopes(h) == <<HostScope>> \o SetToSeq(Components(h))
Of(h, S, k) == {d \in h : d.scope \in S /\ d.kind = k}
All(h, k) == Of(h, {HostScope} \cup Components(h), k)
Addr(d) == <<d.scope, d.kind, d.name>>
Sub(d, k) == <<d.scope, k, d.name>>
At(k, n) == <<HostScope, k, n>>
Part(d, k, x) == <<d.scope, k, d.name, x>>
Names(d, k) == {u[2] : u \in {v \in d.uses : v[1] = k}}
Is(d, f) == f \in d.flags
Present(d) == d.ensure /= "absent"
\* enable or state is set; "stopped" stands for restarted and reloaded too.
HasState(d) == d.flags \cap {"running", "stopped", "enabled", "disabled"} /= {}

\* The elements of S before x in the order the code visits them.
Before(S, x) ==
    LET q == SetToSeq(S)
        at == CHOOSE i \in DOMAIN q : q[i] = x
    IN  {q[i] : i \in 1..(at - 1)}

\* The declaration of kind k in the last scope that has one.
LastDecl(h, k) ==
    LET q == Scopes(h)
        last == CHOOSE i \in DOMAIN q :
                    /\ Of(h, {q[i]}, k) /= {}
                    /\ \A j \in DOMAIN q : j > i => Of(h, {q[j]}, k) = {}
    IN  CHOOSE d \in Of(h, {q[last]}, k) : TRUE

Node(a, deps, path) == [addr |-> a, op |-> FALSE, deps |-> deps, trig |-> {}, path |-> path]
Operation(a, deps, trig) == [addr |-> a, op |-> TRUE, deps |-> deps, trig |-> trig, path |-> NoPath]
Addrs(items) == {i.addr : i \in items}

-----------------------------------------------------------------------------
\* The address tables of compileHost.

GroupAddresses(h, n) == {Addr(d) : d \in {e \in All(h, "group") : e.name = n}}
UserAddresses(h, n) == {Addr(d) : d \in {e \in All(h, "user") : e.name = n}}
UnitAddresses(h, n) == {Addr(d) : d \in {e \in All(h, "unit") \cup All(h, "timer") : e.name = n}}
ManagedFileAddresses(h, p) ==
    {Addr(d) : d \in {e \in All(h, "file") \cup All(h, "secret") : e.path = p}}
NetdevAddresses(h) == {Addr(d) : d \in All(h, "netdev")}
InstallAddresses(h, c) == {Addr(d) : d \in Of(h, {c} \ {HostScope}, "artifact")}

OwnershipDependencies(h, d) ==
    (IF d.owner = "root" THEN {} ELSE UserAddresses(h, d.owner))
      \cup (IF d.group = "root" THEN {} ELSE GroupAddresses(h, d.group))

-----------------------------------------------------------------------------
\* Docker.

DockerDecls(h) == {d \in Of(h, {HostScope}, "docker") : Is(d, "enable")}
Official(h) == \E d \in DockerDecls(h) : Is(d, "official")

\* The errors of dockerEngineNodes: the official packages need the platform
\* and the name of the repository; a compose project needs its file.
DockerError(h) ==
    \/ /\ Official(h)
       /\ \/ \E d \in DockerDecls(h) : ~Is(d, "platform")
          \/ \E d \in Of(h, {HostScope}, "repository") : d.name = OfficialRepository
    \/ \E d \in DockerDecls(h), c \in Of(h, {HostScope}, "compose") :
            Is(c, "enable") /\ ~Is(c, "file")

AptRepositorySourcePath(n) == <<"sources.list.d", n>>
OfficialKey == At("docker_signing_key", OfficialRepository)
OfficialSource == At("docker_repository", OfficialRepository)
Conflicts == At("docker_package_conflicts", "docker")
DockerPackage(n) == At("docker_package", n)
DockerPackages(h) == IF Official(h) THEN {DockerPackage(n) : n \in OfficialPackages} ELSE {}
DockerService == At("docker_service", "docker")
DaemonFile == At("docker_daemon_file", "docker")
DaemonPath == <<"docker", "daemon.json">>
DaemonFiles(h) == IF \E d \in DockerDecls(h) : Is(d, "daemon") THEN {DaemonFile} ELSE {}
CacheRefresh == At("cache_refresh", "apt")

\* The key, the repository, the conflicting packages and the packages of the
\* official engine; the packages also wait for the refresh of the cache.
DockerEngine(h) ==
    IF ~Official(h) THEN {} ELSE
      {Node(OfficialKey, {}, <<"keyrings", "docker">>),
       Node(OfficialSource, {OfficialKey}, AptRepositorySourcePath(OfficialRepository)),
       Node(Conflicts, {}, NoPath)}
      \cup {Node(DockerPackage(n), {OfficialSource, Conflicts, CacheRefresh}, NoPath) : n \in OfficialPackages}

\* The members of the docker group, which is declared or added.
DockerUserMembership(h) ==
    LET users == UNION {Names(d, "user") : d \in DockerDecls(h)}
        own == At("docker_group", "docker")
        declared == GroupAddresses(h, "docker")
        group == IF declared = {} THEN {own} ELSE declared
    IN  IF users = {} THEN {} ELSE
          (IF declared = {} THEN {Node(own, {}, NoPath)} ELSE {})
          \cup {Node(At("docker_membership", u), group \cup UserAddresses(h, u), NoPath) : u \in users}

DockerDaemon(h) ==
    IF DaemonFiles(h) = {} THEN {} ELSE
      {Node(DaemonFile, DockerPackages(h), DaemonPath),
       Operation(At("docker_restart", "docker"), {DaemonFile, DockerService}, {DaemonFile})}

\* The service waits for the packages and the file (added late in compileHost).
DockerServiceNode(h) ==
    IF DockerDecls(h) = {} THEN {}
    ELSE {Node(DockerService, DockerPackages(h) \cup DaemonFiles(h), NoPath)}

Composes(h) ==
    IF DockerDecls(h) = {} THEN {}
    ELSE {d \in Of(h, {HostScope}, "compose") : Is(d, "enable")}
ComposeFilePath(d) == <<d.name, "compose.yaml">>
ComposeEnvPath(d, e) == <<d.name, e>>
UnitPath(n) == <<"system", n>>
ComposeEnv(d, e) == Part(d, "compose_env", e)
ComposeFiles(d) == {Sub(d, "compose_file")} \cup {ComposeEnv(d, e) : e \in Names(d, "env")}

ComposeFileNodes(h, d) ==
    LET deps == {Sub(d, "compose_directory"), DockerService} \cup DockerPackages(h)
    IN  {Node(Sub(d, "compose_file"), deps, ComposeFilePath(d))}
          \cup {Node(ComposeEnv(d, e), deps, ComposeEnvPath(d, e)) : e \in Names(d, "env")}

\* The systemd unit of a project, its reload and its service.
ComposeUnit(h, d) ==
    IF ~Is(d, "service") THEN {} ELSE
      {Node(Sub(d, "compose_unit"), {Sub(d, "compose_validate")}, UnitPath(d.name)),
       Operation(Sub(d, "compose_reload"), {Sub(d, "compose_unit")}, {Sub(d, "compose_unit")}),
       Node(Sub(d, "compose_service"),
            {Sub(d, "compose_unit"), Sub(d, "compose_reload")}
              \cup (IF Official(h) THEN {DockerService} ELSE {}),
            NoPath)}

\* A project ordered by the service alone.
ComposeProjectDepsUnchecked(h, d) ==
    IF Is(d, "service") THEN {Sub(d, "compose_service")}
    ELSE IF Official(h) THEN {DockerService} ELSE {}
ComposeProjectDeps(h, d) ==
    {Sub(d, "compose_validate")}
      \cup (IF Is(d, "service") THEN {Sub(d, "compose_service")}
            ELSE IF Official(h) THEN {DockerService} ELSE {})

DockerCompose(h) ==
    UNION {{Node(Sub(d, "compose_directory"), {}, <<d.name, "directory">>),
            Operation(Sub(d, "compose_validate"), ComposeFiles(d), ComposeFiles(d)),
            Node(Sub(d, "compose_project"), ComposeProjectDeps(h, d), NoPath)}
             \cup ComposeFileNodes(h, d) \cup ComposeUnit(h, d) : d \in Composes(h)}

-----------------------------------------------------------------------------
\* System, kernel, apt and packages.

SystemNodes(h) ==
    {Node(Addr(d), {}, NoPath) : d \in UNION {Of(h, {HostScope}, k) : k \in {"hostname", "timezone", "locale"}}}

KernelModules(h) == {Node(Addr(d), {}, NoPath) : d \in Of(h, {HostScope}, "kernel_module")}

\* bbr needs its module.
Sysctls(h) ==
    {Node(Addr(d),
          IF Is(d, "bbr") THEN {Addr(e) : e \in {m \in Of(h, {HostScope}, "kernel_module") : m.name = "tcp_bbr"}} ELSE {},
          NoPath) : d \in Of(h, {HostScope}, "sysctl")}

Keys(d) == IF Is(d, "signing_key") THEN {Sub(d, "signing_key")} ELSE {}
Repositories(h, S) ==
    UNION {{Node(k, {}, d.path) : k \in Keys(d)}
             \cup {Node(Addr(d), Keys(d), AptRepositorySourcePath(d.name))} : d \in Of(h, S, "repository")}
HostRepositories(h) == Repositories(h, {HostScope})
ComponentRepositories(h) == Repositories(h, Components(h))

SourceFiles(h, S) == {Node(Addr(d), {}, d.path) : d \in Of(h, S, "source_file")}
HostSourceFiles(h) == SourceFiles(h, {HostScope})
ComponentSourceFiles(h) == SourceFiles(h, Components(h))

RepositoryTriggers(h) ==
    Addrs(HostRepositories(h) \cup HostSourceFiles(h) \cup ComponentRepositories(h) \cup ComponentSourceFiles(h))
      \cup (IF Official(h) THEN {OfficialKey, OfficialSource} ELSE {})
CacheRefreshOperation(h) ==
    IF RepositoryTriggers(h) = {} THEN {}
    ELSE {Operation(CacheRefresh, RepositoryTriggers(h), RepositoryTriggers(h))}

RepositoryAddresses(h, n) == {Addr(d) : d \in {e \in All(h, "repository") : e.name = n}}

\* The refresh left to the dependencies of the repositories.
PackageDependenciesNoRefresh(h, d) ==
    UNION {RepositoryAddresses(h, n) : n \in Names(d, "repository")}
\* A package without repositories does not wait for the refresh.
PackageDependencies(h, d) ==
    LET deps == UNION {RepositoryAddresses(h, n) : n \in Names(d, "repository")}
    IN  deps \cup (IF deps /= {} THEN {CacheRefresh} ELSE {})
Packages(h, S) == {Node(Addr(d), PackageDependencies(h, d), NoPath) : d \in Of(h, S, "package")}
HostPackages(h) == Packages(h, {HostScope})
ComponentPackages(h) == Packages(h, Components(h))

\* A declared package hides the one docker installs.
PackageAddresses(h, n) ==
    LET declared == {Addr(d) : d \in {e \in All(h, "package") : e.name = n}}
    IN  IF declared /= {} THEN declared ELSE DockerPackages(h) \cap {DockerPackage(n)}

-----------------------------------------------------------------------------
\* nftables.

NftFiles(h) == Of(h, {HostScope}, "nftables")
NftSome(h, f) == \E d \in NftFiles(h) : Present(d) /\ Is(d, f)
NftTriggers(h) == {Addr(d) : d \in NftFiles(h)}
NftValidate == At("nftables_validate", "nftables")
NftActivate == At("nftables_activate", "nftables")
NftEnable == At("nftables_enable", "nftables")

NftFileNodes(h) == {Node(Addr(d), PackageAddresses(h, "nftables"), d.path) : d \in NftFiles(h)}

\* An activation ordered only by the package.
NftOperationsUnordered(h) ==
    (IF NftSome(h, "validate") THEN {Operation(NftValidate, NftTriggers(h), NftTriggers(h))} ELSE {})
      \cup (IF NftSome(h, "activate") THEN {Operation(NftActivate, PackageAddresses(h, "nftables"), NftTriggers(h))} ELSE {})
\* The activation follows the validation, or the files when none is asked for.
NftOperations(h) ==
    (IF NftSome(h, "validate") THEN {Operation(NftValidate, NftTriggers(h), NftTriggers(h))} ELSE {})
      \cup (IF NftSome(h, "activate")
            THEN {Operation(NftActivate,
                            IF NftSome(h, "validate") THEN {NftValidate} ELSE NftTriggers(h),
                            NftTriggers(h))}
            ELSE {})

NftService(h) ==
    {Node(NftEnable,
          PackageAddresses(h, "nftables")
            \cup (IF Is(d, "enable") /\ NftSome(h, "activate") THEN {NftActivate} ELSE {}),
          NoPath) : d \in Of(h, {HostScope}, "nftables_enable")}

-----------------------------------------------------------------------------
\* Artifacts of components.

Download(d) == Sub(d, "artifact_download")
Build(d) == Sub(d, "artifact_build")
BuildPackage(d, p) == <<d.scope, "build_package", p>>

\* A file:// source waits for the managed file at its path.
ArtifactDownloads(h) ==
    {Node(Download(d), IF d.from = NoPath THEN {} ELSE ManagedFileAddresses(h, d.from), NoPath)
        : d \in Of(h, Components(h), "artifact")}

ArtifactBuilds(h) ==
    UNION {{Node(BuildPackage(d, p), {}, NoPath) : p \in Names(d, "build_package")}
             \cup {Node(Build(d), {Download(d)} \cup {BuildPackage(d, p) : p \in Names(d, "build_package")}, NoPath)}
               : d \in {e \in Of(h, Components(h), "artifact") : Is(e, "build")}}

ArtifactInstalls(h) ==
    {Node(Addr(d), {IF Is(d, "build") THEN Build(d) ELSE Download(d)} \cup OwnershipDependencies(h, d), d.path)
        : d \in Of(h, Components(h), "artifact")}

CaCertificates(h) ==
    LET triggers == {Addr(d) : d \in {e \in Of(h, Components(h), "artifact") : Is(e, "ca_certificate")}}
    IN  IF triggers = {} THEN {} ELSE {Operation(At("ca_update", "ca_certificates"), triggers, triggers)}

-----------------------------------------------------------------------------
\* Directories, files, secrets, groups and users.

Owned(h, S, k) == {Node(Addr(d), OwnershipDependencies(h, d), d.path) : d \in Of(h, S, k)}
HostDirectories(h) == Owned(h, {HostScope}, "directory")
ComponentDirectories(h) == Owned(h, Components(h), "directory")
HostFiles(h) == Owned(h, {HostScope}, "file")
ComponentFiles(h) == Owned(h, Components(h), "file")
HostSecrets(h) == Owned(h, {HostScope}, "secret")
ComponentSecrets(h) == Owned(h, Components(h), "secret")

Plain(h, S, k) == {Node(Addr(d), {}, NoPath) : d \in Of(h, S, k)}
HostGroups(h) == Plain(h, {HostScope}, "group")
ComponentGroups(h) == Plain(h, Components(h), "group")

Users(h, S) ==
    UNION {{Node(Addr(d), UNION {GroupAddresses(h, n) : n \in Names(d, "primary") \cup Names(d, "group")}, NoPath)}
             \cup {Node(Part(d, "ssh_authorized_key", k), {Addr(d)}, NoPath) : k \in Names(d, "ssh_key")}
               : d \in Of(h, S, "user")}
HostUsers(h) == Users(h, {HostScope})
ComponentUsers(h) == Users(h, Components(h))

-----------------------------------------------------------------------------
\* Scripts.

Script(s, n) == <<s, "script", n>>
Scripts(h, s, n) == {d \in Of(h, {s}, "script") : d.name = n}
Output(d, o) == Part(d, "script_output", o)

\* The outputs of a script are nodes in a chain after the files that
\* trigger it; the operation follows them all and is triggered by them all.
ScriptItems(d, files) ==
    LET outs == Names(d, "output")
        all == files \cup {Output(d, o) : o \in outs}
    IN  {Node(Output(d, o), files \cup {Output(d, p) : p \in Before(outs, o)}, NoPath) : o \in outs}
          \cup {Operation(Addr(d), all, all)}

\* The files of component c whose change runs the script <<scope, n>>.
Hooked(h, S, scope, n) == {Addr(d) : d \in {e \in Of(h, S, "file") : e.hook = <<scope, n>>}}

ComponentScripts(h) ==
    UNION {ScriptItems(d, Hooked(h, {d.scope}, "component", d.name))
              : d \in {e \in Of(h, Components(h), "script") : Hooked(h, {e.scope}, "component", e.name) /= {}}}
RootScripts(h) ==
    UNION {ScriptItems(d, Hooked(h, Components(h), "root", d.name))
              : d \in {e \in Of(h, {HostScope}, "script") : Hooked(h, Components(h), "root", e.name) /= {}}}

\* An unknown script of the component is skipped; an unknown root script is an error.
RootScriptError(h) ==
    \E d \in Of(h, Components(h), "file") : d.hook[1] = "root" /\ Scripts(h, HostScope, d.hook[2]) = {}

-----------------------------------------------------------------------------
\* systemd units, timers and drop-ins.

DaemonReload == At("daemon_reload", "systemd")
ChangeAction(d) == Sub(d, "change_action")

Units(h, S, k) ==
    {Node(Addr(d), OwnershipDependencies(h, d) \cup InstallAddresses(h, d.scope), d.path) : d \in Of(h, S, k)}
HostUnits(h) == Units(h, {HostScope}, "unit")
ComponentUnits(h) == Units(h, Components(h), "unit")
TimerService(d) == Sub(d, "timer_service")
Timers(h, S) ==
    Units(h, S, "timer")
      \cup {Node(TimerService(d),
                 {Addr(d), DaemonReload}
                   \cup (IF d.scope = HostScope THEN {} ELSE OwnershipDependencies(h, d) \cup InstallAddresses(h, d.scope)),
                 NoPath) : d \in {e \in Of(h, S, "timer") : HasState(e)}}
HostTimers(h) == Timers(h, {HostScope})
ComponentTimers(h) == Timers(h, Components(h))

UnitTriggers(h) == {Addr(d) : d \in All(h, "unit") \cup All(h, "timer")}
DaemonReloadOperation(h) ==
    IF UnitTriggers(h) = {} THEN {}
    ELSE {Operation(DaemonReload, UnitTriggers(h), UnitTriggers(h))}

\* Restart or reload of the active service of a unit that changed.
ChangeActions(h) ==
    {Operation(ChangeAction(d), {Addr(d), DaemonReload}, {Addr(d)})
        : d \in {e \in All(h, "unit") : Is(e, "change_action")}}

\* resolved.conf and journald.conf: the drop-in and the state of the service.
StateService(d) == Part(d, "state_service", d.kind)
DropIns(h, S, k, package) ==
    UNION {{Node(Addr(d),
                 OwnershipDependencies(h, d) \cup InstallAddresses(h, d.scope) \cup package, d.path)}
             \cup (IF HasState(d) THEN {Node(StateService(d), {Addr(d)}, NoPath)} ELSE {})
               : d \in Of(h, S, k)}
ResolvedPackage(h) == PackageAddresses(h, "systemd-resolved")
HostResolved(h) == DropIns(h, {HostScope}, "resolved", ResolvedPackage(h))
HostJournald(h) == DropIns(h, {HostScope}, "journald", {})
ComponentDropIns(h) ==
    DropIns(h, Components(h), "resolved", ResolvedPackage(h)) \cup DropIns(h, Components(h), "journald", {})

\* A restart on change unless the service is declared stopped or disabled, or
\* its own state restarts it; the last scope that declares it decides.
ShouldRestartOnChange(d) == Is(d, "running") \/ ~(Is(d, "stopped") \/ Is(d, "disabled"))
LastStateService(h, k) ==
    LET with == {d \in h : d.kind = k /\ HasState(d)}
    IN  IF with = {} THEN {} ELSE {StateService(LastDecl(with, k))}
DropInRestart(h, k) ==
    LET triggers == {Addr(d) : d \in All(h, k)}
    IN  IF triggers = {} \/ ~ShouldRestartOnChange(LastDecl(h, k)) THEN {}
        ELSE {Operation(At("restart", k), triggers \cup LastStateService(h, k), triggers)}

-----------------------------------------------------------------------------
\* systemd-networkd.

NetworkdFiles(h) == All(h, "netdev") \cup All(h, "network")
NetworkdTriggers(h) == {Addr(d) : d \in NetworkdFiles(h)}
NetworkdReload == At("networkd_restart", "networkd")
NetworkdEnable == At("networkd_enable", "networkd")
\* The value of networkd.enable: the last scope that sets one decides.
NetworkdEnabled(h) == All(h, "networkd") /= {} /\ Is(LastDecl(h, "networkd"), "enable")

\* A network waits for every netdev of the host.
NetworkDependencies(h, d) == IF d.kind = "network" THEN NetdevAddresses(h) ELSE {}
NetworkdDependencies(h, d) ==
    NetworkDependencies(h, d)
      \cup (IF d.scope = HostScope THEN {} ELSE InstallAddresses(h, d.scope) \cup OwnershipDependencies(h, d))
NetworkdNetDevNodes(h, S) == {Node(Addr(d), NetworkdDependencies(h, d), d.path) : d \in Of(h, S, "netdev")}
NetworkdNetworkNodes(h, S) == {Node(Addr(d), NetworkdDependencies(h, d), d.path) : d \in Of(h, S, "network")}
HostNetworkd(h) == NetworkdNetDevNodes(h, {HostScope}) \cup NetworkdNetworkNodes(h, {HostScope})
ComponentNetworkd(h) == NetworkdNetDevNodes(h, Components(h)) \cup NetworkdNetworkNodes(h, Components(h))

NetworkdReloadOperation(h) ==
    IF NetworkdTriggers(h) = {} THEN {}
    ELSE {Operation(NetworkdReload,
                    NetworkdTriggers(h) \cup (IF NetworkdEnabled(h) THEN {NetworkdEnable} ELSE {}),
                    NetworkdTriggers(h))}

\* An enable node that follows the reload which itself waits for it.
NetworkdEnableAfterReload(h) ==
    IF All(h, "networkd") = {} THEN {}
    ELSE {Node(NetworkdEnable, NetworkdTriggers(h) \cup Addrs(NetworkdReloadOperation(h)), NoPath)}
NetworkdEnableNode(h) ==
    IF All(h, "networkd") = {} THEN {} ELSE {Node(NetworkdEnable, NetworkdTriggers(h), NoPath)}

\* networkctl reconfigure, one link after the other, after the reload.
Links(h) == UNION {Names(d, "reconfigure") : d \in NetworkdFiles(h)}
Reconfigure(l) == At("networkd_reconfigure", l)
ReconfigureOperations(h) ==
    {Operation(Reconfigure(l), {NetworkdReload} \cup {Reconfigure(m) : m \in Before(Links(h), l)},
               {Addr(d) : d \in {e \in NetworkdFiles(h) : l \in Names(e, "reconfigure")}}) : l \in Links(h)}

\* The script a networkd file names: of its component or of the root.
PostReloadScript(d) == Script(IF d.hook[1] = "component" THEN d.scope ELSE HostScope, d.hook[2])
PostReloadScripts(h) == {PostReloadScript(d) : d \in {e \in NetworkdFiles(h) : e.hook /= NoHook}}
PostReloadTriggers(h, s) ==
    {Addr(d) : d \in {e \in NetworkdFiles(h) : e.hook /= NoHook /\ PostReloadScript(e) = s}}
PostReloadError(h) == \E s \in PostReloadScripts(h) : Scripts(h, s[1], s[3]) = {}

\* Post-reload scripts run in a chain after the reload and the
\* reconfigurations; a script that on_change already runs is extended.
PostReloadOperations(h, ops) ==
    LET after(s) == {NetworkdReload} \cup {Reconfigure(l) : l \in Links(h)}
                      \cup Before(PostReloadScripts(h), s)
        old == {o \in ops : o.op /\ o.addr \in PostReloadScripts(h)}
    IN  (ops \ old)
          \cup {[o EXCEPT !.trig = @ \cup PostReloadTriggers(h, o.addr), !.deps = @ \cup after(o.addr)] : o \in old}
          \cup {Operation(s, after(s) \cup PostReloadTriggers(h, s), PostReloadTriggers(h, s))
                  : s \in PostReloadScripts(h) \ Addrs(old)}

-----------------------------------------------------------------------------
\* Services.

\* A service that waits for the unit file but not for the reload.
ServiceDependenciesUnloaded(h, d) ==
    UNION {PackageAddresses(h, n) : n \in Names(d, "package")} \cup InstallAddresses(h, d.scope)
      \cup UNION {UnitAddresses(h, n) : n \in Names(d, "unit")}
ServiceDependencies(h, d) ==
    UNION {PackageAddresses(h, n) : n \in Names(d, "package")}
      \cup InstallAddresses(h, d.scope)
      \cup UNION {UnitAddresses(h, n) : n \in Names(d, "unit")}
      \cup (IF \E n \in Names(d, "unit") : UnitAddresses(h, n) /= {} THEN {DaemonReload} ELSE {})
      \cup {ChangeAction(u) : u \in {e \in All(h, "unit") : Is(e, "change_action") /\ e.name \in Names(d, "unit")}}
Services(h, S) ==
    UNION {{Node(Addr(d), ServiceDependencies(h, d), NoPath)}
             \cup (IF Is(d, "restarted")
                   THEN {Operation(Sub(d, "service_restart"), {Addr(d)} \cup ServiceDependencies(h, d), {Addr(d)})}
                   ELSE {}) : d \in Of(h, S, "service")}
HostServices(h) == Services(h, {HostScope})
ComponentServices(h) == Services(h, Components(h))

-----------------------------------------------------------------------------
\* The graph of a host.

Resources(h) ==
    UNION {SystemNodes(h), DockerEngine(h), DockerUserMembership(h), DockerDaemon(h), DockerServiceNode(h),
           DockerCompose(h), KernelModules(h), Sysctls(h), HostRepositories(h), HostSourceFiles(h),
           ComponentRepositories(h), ComponentSourceFiles(h), CacheRefreshOperation(h), HostPackages(h),
           ComponentPackages(h), NftFileNodes(h), NftOperations(h), NftService(h), ArtifactDownloads(h),
           ArtifactBuilds(h), ArtifactInstalls(h), CaCertificates(h), HostDirectories(h),
           ComponentDirectories(h), HostFiles(h), ComponentFiles(h), ComponentScripts(h), RootScripts(h),
           HostSecrets(h), ComponentSecrets(h), HostGroups(h), ComponentGroups(h), HostUsers(h),
           ComponentUsers(h), HostUnits(h), HostTimers(h), ComponentUnits(h), ComponentTimers(h),
           HostResolved(h), HostJournald(h), ComponentDropIns(h), HostNetworkd(h), ComponentNetworkd(h),
           NetworkdReloadOperation(h), ReconfigureOperations(h), NetworkdEnableNode(h),
           DaemonReloadOperation(h), ChangeActions(h), DropInRestart(h, "resolved"),
           DropInRestart(h, "journald"), HostServices(h), ComponentServices(h)}

\* depends_on: package, file and service within the scope, an artifact by its
\* path in any component.
Targets(h, d, ref) ==
    IF ref[1] = "artifact" THEN {Addr(e) : e \in {x \in All(h, "artifact") : x.name = ref[2]}}
    ELSE {Addr(e) : e \in {x \in Of(h, {d.scope}, ref[1]) : x.name = ref[2]}}
Dependents == {"package", "file", "service"}
ExplicitError(h) ==
    \E d \in h : d.kind \in Dependents /\ \E ref \in d.after : Cardinality(Targets(h, d, ref)) /= 1
ExplicitDependencies(h, a) ==
    UNION {UNION {Targets(h, d, ref) : ref \in d.after} : d \in {e \in h : e.kind \in Dependents /\ Addr(e) = a}}

CompileError(h) == DockerError(h) \/ RootScriptError(h) \/ PostReloadError(h)
CompileHost(h) ==
    {[i EXCEPT !.deps = @ \cup (IF i.op THEN {} ELSE ExplicitDependencies(h, i.addr))]
        : i \in PostReloadOperations(h, Resources(h))}

\* scheduleEntries: addresses are unique and every reference is an address.
Resolved(g) ==
    /\ \A i, j \in g : i.addr = j.addr => i = j
    /\ \A i \in g : i.deps \cup i.trig \subseteq Addrs(g)

\* validateAcyclic: every nonempty set of items has one that depends on none
\* of them.  Removing the items without remaining dependencies, once per
\* item, leaves nothing.
Strip(g) == {i \in g : i.deps \cap Addrs(g) /= {}}
Stripped(g) == LET s[n \in 0..Cardinality(g)] == IF n = 0 THEN g ELSE Strip(s[n - 1]) IN s[Cardinality(g)]
Acyclic(g) == Stripped(g) = {}
Valid(g) == Resolved(g) /\ Acyclic(g)

-----------------------------------------------------------------------------
\* validateHostSpec.

\* What claims a path, in the order of the checks.  A unit of the host
\* overwrites the claim of a file, a secret or an apt source file unchecked.
Claim(d, p, rank) == [by |-> Addr(d), path |-> p, rank |-> rank]
ClaimKinds == <<"file", "secret", "source_file", "unit", "timer", "resolved", "journald", "netdev", "network", "nftables">>
UnitRank == 4
HostClaims(h) ==
    UNION {{Claim(d, d.path, r) : d \in Of(h, {HostScope}, ClaimKinds[r])} : r \in DOMAIN ClaimKinds}
DockerClaims(h) ==
    {Claim(d, DaemonPath, 11) : d \in {e \in Of(h, {HostScope}, "docker") : Is(e, "daemon")}}
      \cup UNION {{Claim(d, UnitPath(d.name), 12) : n \in {x \in {1} : Is(d, "service")}}
                   \cup {Claim(d, ComposeFilePath(d), 13) : n \in {x \in {1} : Is(d, "file")}}
                   \cup {Claim(d, ComposeEnvPath(d, e), 14) : e \in Names(d, "env")}
                     : d \in Of(h, {HostScope}, "compose")}
ComponentClaims(h) ==
    {Claim(d, d.path, 15) : d \in {e \in h : /\ e.scope /= HostScope
                                             /\ e.kind \in Range(ClaimKinds) \cup {"artifact"}}}
Claims(h) == HostClaims(h) \cup DockerClaims(h) \cup ComponentClaims(h)
\* The artifacts of components left out of the claims.
PathConflictNoArtifacts(h) ==
    \E c, e \in Claims(h) :
        /\ c /= e /\ c.path = e.path /\ c.rank =< e.rank /\ e.rank /= UnitRank
        /\ "artifact" \notin {c.by[2], e.by[2]}
PathConflict(h) ==
    \E c, e \in Claims(h) : c /= e /\ c.path = e.path /\ c.rank =< e.rank /\ e.rank /= UnitRank

\* An artifact may not replace a directory of the host or of an earlier component.
ArtifactOnDirectory(h) ==
    \E d \in Of(h, Components(h), "artifact"), e \in All(h, "directory") :
        d.path = e.path /\ e.scope \in {HostScope} \cup Before(Components(h), d.scope)

UniqueKinds == {"repository", "package", "group", "user", "service"}
NameConflict(h) ==
    \/ \E d, e \in h : d.scope /= e.scope /\ d.kind = e.kind /\ d.kind \in UniqueKinds /\ d.name = e.name
    \/ \E d, e \in All(h, "unit") \cup All(h, "timer") : d /= e /\ d.name = e.name
DirectoryConflict(h) ==
    \E d, e \in All(h, "directory") :
        d.path = e.path /\ <<d.owner, d.group, d.ensure>> /= <<e.owner, e.group, e.ensure>>
MissingReference(h) ==
    \/ \E d \in All(h, "user") : \E g \in Names(d, "primary") : g /= d.name /\ GroupAddresses(h, g) = {}
    \/ \E d \in All(h, "package") : \E n \in Names(d, "repository") :
            ~\E r \in All(h, "repository") : r.name = n /\ Present(r)

ValidateHostSpec(h) ==
    ~(PathConflict(h) \/ ArtifactOnDirectory(h) \/ NameConflict(h) \/ DirectoryConflict(h) \/ MissingReference(h))

-----------------------------------------------------------------------------
\* The life of a host: declared, compiled, planned and run.

TypeOK ==
    /\ phase \in {"declared", "rejected", "merged", "compiled", "running"}
    /\ changed \subseteq Addrs(graph)
    /\ DOMAIN outcome \subseteq Addrs(graph)
    /\ \A a \in DOMAIN outcome : outcome[a] \in {"pending", "ok", "failed", "blocked"}

Init ==
    /\ host \in Hosts
    /\ phase = "declared"
    /\ graph = {}
    /\ changed = {}
    /\ outcome = <<>>

\* BuildProgram: the first conflict ends it.
Merge ==
    /\ phase = "declared"
    /\ IF ValidateHostSpec(host) /\ ~ExplicitError(host)
       THEN phase' = "merged" ELSE phase' = "rejected"
    /\ UNCHANGED <<host, graph, changed, outcome>>

\* graph.Compile and Validate.
Compile ==
    /\ phase = "merged"
    /\ LET g == CompileHost(host)
       IN  IF ~CompileError(host) /\ Valid(g)
           THEN phase' = "compiled" /\ graph' = g
           ELSE phase' = "rejected" /\ graph' = {}
    /\ UNCHANGED <<host, changed, outcome>>

NodesOf(g) == {i.addr : i \in {j \in g : ~j.op}}
ActiveOf(g, ch) == ch \cup {i.addr : i \in {j \in g : j.op /\ j.trig \cap ch /= {}}}

\* Any set of nodes may have changed; an operation is active when one that
\* triggers it has.
Plan ==
    /\ phase = "compiled" /\ host \in RunHosts
    /\ \E ch \in SUBSET NodesOf(graph) \ {{}} :
        /\ changed' = ch
        /\ outcome' = [a \in ActiveOf(graph, ch) |-> "pending"]
    /\ phase' = "running"
    /\ UNCHANGED <<host, graph>>

\* The direct dependencies that are active; those of an inactive item are not
\* followed.
ActiveDeps(a) == (CHOOSE i \in graph : i.addr = a).deps \cap DOMAIN outcome
Failures == {a \in DOMAIN outcome : outcome[a] = "failed"}

RunItem(a) ==
    /\ phase = "running" /\ outcome[a] = "pending"
    /\ \A b \in ActiveDeps(a) : outcome[b] /= "pending"
    /\ IF \A b \in ActiveDeps(a) : outcome[b] = "ok"
       THEN \/ outcome' = [outcome EXCEPT ![a] = "ok"]
            \/ Cardinality(Failures) < MaxFailures /\ outcome' = [outcome EXCEPT ![a] = "failed"]
       ELSE outcome' = [outcome EXCEPT ![a] = "blocked"]
    /\ UNCHANGED <<host, phase, graph, changed>>

Ended ==
    \/ phase = "rejected"
    \/ phase = "compiled" /\ host \notin RunHosts
    \/ phase = "running" /\ \A a \in DOMAIN outcome : outcome[a] /= "pending"
Stay == Ended /\ UNCHANGED vars

Next == Merge \/ Compile \/ Plan \/ (\E a \in DOMAIN outcome : RunItem(a)) \/ Stay

Spec == Init /\ [][Next]_vars

-----------------------------------------------------------------------------
\* Properties.

Ok(a) == a \in DOMAIN outcome /\ outcome[a] = "ok"
AllOk(A) == \A a \in A \cap DOMAIN outcome : outcome[a] = "ok"

\* A host that validateHostSpec accepts, with no depends_on of its own and no
\* missing script or docker setting, always compiles: the dependencies that
\* compileHost derives are addresses of the graph and never form a cycle.
AcceptedCompiles ==
    (phase = "merged" /\ ~CompileError(host) /\ \A d \in host : d.after = {}) => Valid(CompileHost(host))

\* Two items of a compiled graph manage one path only if one of them is of a
\* kind that validateHostSpec does not look at: repository files and keys,
\* directories and the units of the host.
Unclaimed(a) ==
    \/ a[2] \in {"repository", "signing_key", "docker_repository", "docker_signing_key", "directory", "compose_directory"}
    \/ a[1] = HostScope /\ a[2] = "unit"
ClaimedOnce ==
    \A i, j \in graph : (i /= j /\ i.path = j.path /\ i.path /= NoPath) => (Unclaimed(i.addr) \/ Unclaimed(j.addr))

\* An operation (a reload, a restart, a refresh, a script) succeeds only after
\* every changed node that triggers it has been applied, whatever else of the
\* graph is inactive or has failed.
ActivatedAfterChange ==
    \A i \in graph : (i.op /\ Ok(i.addr)) => AllOk(i.trig)

\* A package from a named repository is installed only after the file and the
\* key of the repository are written and the cache is refreshed for every
\* changed source, also when only the key changed.
RefreshedBeforeInstall ==
    /\ \A d \in All(host, "package") : \A r \in All(host, "repository") :
          (Ok(Addr(d)) /\ r.name \in Names(d, "repository")) =>
              AllOk({Addr(r), CacheRefresh} \cup Keys(r))
    /\ \A n \in OfficialPackages : Ok(DockerPackage(n)) => AllOk({OfficialKey, OfficialSource, CacheRefresh})

\* Rules are activated, and the nftables service is enabled for them, only
\* after the changed files passed their validation; the step of a compose
\* project, and its unit, come only after its changed files did.  The service
\* of the project, whose unit runs docker compose up, waits for the validation
\* through the unit alone: with an unchanged unit it starts the project
\* whatever becomes of the validation, against docs/operations-runbook.md:506
\* (see NotStartedUnvalidated).
ValidatedBeforeUse ==
    /\ (Ok(NftActivate) \/ (Ok(NftEnable) /\ NftActivate \in DOMAIN outcome
                              /\ \E d \in Of(host, {HostScope}, "nftables_enable") : Is(d, "enable")))
          => AllOk({NftValidate})
    /\ \A d \in Composes(host) :
          \/ Ok(Sub(d, "compose_project"))
          \/ Ok(Sub(d, "compose_unit"))
          \/ Ok(Sub(d, "compose_service")) /\ Sub(d, "compose_unit") \in DOMAIN outcome
          => AllOk({Sub(d, "compose_validate")})

\* A service, a timer or a change action starts a unit only after the changed
\* units are written and systemd has reloaded them, and a declared service
\* only after the change action of its unit.
LoadedBeforeStart ==
    /\ \A d \in All(host, "service") : \A u \in All(host, "unit") :
          (Ok(Addr(d)) /\ u.name \in Names(d, "unit")) =>
              AllOk({Addr(u), DaemonReload, ChangeAction(u)})
    /\ \A u \in All(host, "unit") : Ok(ChangeAction(u)) => AllOk(UnitTriggers(host) \cup {DaemonReload})
    /\ \A t \in All(host, "timer") : Ok(TimerService(t)) => AllOk({Addr(t), DaemonReload})
    /\ \A d \in Composes(host) : Ok(Sub(d, "compose_service")) => AllOk({Sub(d, "compose_unit"), Sub(d, "compose_reload")})

\* Whatever is unchanged or fails, what an item needs of the others is in place
\* when its turn comes: files before their activation, keys and sources before
\* packages, validation before use (but for the service of a compose project
\* with an unchanged unit), units before their start.
OrderedForUse ==
    ActivatedAfterChange /\ RefreshedBeforeInstall /\ ValidatedBeforeUse /\ LoadedBeforeStart

\* docs/operations-runbook.md: "DebianForm does not start a Compose project
\* after config validation fails."  The service of a project starts it too.
NotStartedUnvalidated ==
    \A d \in Composes(host) :
        Ok(Sub(d, "compose_service")) =>
            ~(Sub(d, "compose_validate") \in DOMAIN outcome /\ outcome[Sub(d, "compose_validate")] = "failed")
=============================================================================
