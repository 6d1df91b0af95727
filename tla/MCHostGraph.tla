---------------------------- MODULE MCHostGraph ----------------------------
(* A pool of declarations: every host of at most three of them (and of the *)
(* declarations they presuppose) is validated and compiled, and a few      *)
(* hosts, each around one mechanism of the graph, are planned and run.     *)
EXTENDS HostGraph

Decl(s, k, n) ==
    [scope |-> s, kind |-> k, name |-> n, path |-> NoPath, from |-> NoPath, ensure |-> "present",
     owner |-> "root", group |-> "root", uses |-> {}, flags |-> {}, hook |-> NoHook, after |-> {}]
On(d, p) == [d EXCEPT !.path = p]
With(d, U) == [d EXCEPT !.uses = U]
Flagged(d, F) == [d EXCEPT !.flags = F]
For(d, u, g) == [d EXCEPT !.owner = u, !.group = g]
Then(d, hk) == [d EXCEPT !.hook = hk]
After(d, refs) == [d EXCEPT !.after = refs]
Absent(d) == [d EXCEPT !.ensure = "absent"]
H == HostScope

Repo(s, n) == On(Flagged(Decl(s, "repository", n), {"signing_key"}), <<"keyrings", n>>)
Pkg(s, n, R) == With(Decl(s, "package", n), {<<"repository", r>> : r \in R})
Unit(s, n) == On(Decl(s, "unit", n), UnitPath(n))
Service(s, n, U) == With(Decl(s, "service", n), U)
Docker(F) == Flagged(Decl(H, "docker", "docker"), F \cup {"enable"})
Compose(F, E) == With(Flagged(Decl(H, "compose", "web"), F \cup {"enable", "file"}), {<<"env", e>> : e \in E})
Nft(n, F) == On(Flagged(Decl(H, "nftables", n), F), <<"nft", n>>)
Net(s, k, n) == On(Decl(s, k, n), <<"network", n>>)
File(s, n) == On(Decl(s, "file", n), <<"fs", n>>)
Artifact(s, n) == On(Decl(s, "artifact", n), <<"fs", n>>)
RootScript(n) == Decl(H, "script", n)

Pool ==
    {Decl(H, "hostname", "box"), Decl(H, "kernel_module", "tcp_bbr"), Flagged(Decl(H, "sysctl", "cc"), {"bbr"}),
     Repo(H, "r"), Repo("c", "r"), Repo(H, OfficialRepository), Pkg(H, "p", {"r"}), Pkg("c", "nftables", {"r"}),
     On(Decl(H, "source_file", "s"), <<"sources.list.d", "r">>), On(Decl("c", "source_file", "s"), <<"fs", "a">>),
     Nft("main", {"validate", "activate"}), Absent(Nft("extra", {"validate"})),
     Flagged(Decl(H, "nftables_enable", "n"), {"enable"}),
     Artifact("c", "a"), Flagged(With(Artifact("e", "a"), {<<"build_package", "gcc">>}), {"build", "ca_certificate"}),
     [Artifact("c", "b") EXCEPT !.from = <<"fs", "a">>],
     On(For(Decl(H, "directory", "a"), "u", "g"), <<"fs", "a">>), On(Decl("c", "directory", "a"), <<"fs", "a">>),
     For(File(H, "a"), "u", "g"), Then(File("c", "a"), <<"root", "s">>), Then(File("e", "b"), <<"component", "s">>),
     On(Decl(H, "secret", "a"), <<"fs", "a">>), On(Decl("e", "secret", "b"), <<"fs", "b">>),
     With(RootScript("s"), {<<"output", "o1">>, <<"output", "o2">>}), With(Decl("e", "script", "s"), {<<"output", "o1">>}),
     Decl(H, "group", "g"), Decl("c", "group", "docker"),
     With(Decl(H, "user", "u"), {<<"primary", "g">>, <<"group", "docker">>, <<"ssh_key", "k">>}), With(Decl("c", "user", "v"), {<<"primary", "v">>}),
     For(Unit(H, "web"), "u", "root"), Flagged(Unit("c", "web"), {"change_action"}), On(Unit(H, "job"), <<"fs", "a">>),
     Flagged(On(Decl(H, "timer", "tick"), UnitPath("tick")), {"enabled"}), Flagged(On(Decl("c", "timer", "tock"), UnitPath("tick")), {"running"}),
     Flagged(On(Decl(H, "resolved", "r"), <<"resolved", "d">>), {"running"}), On(Decl("c", "resolved", "r"), <<"resolved", "e">>),
     Flagged(On(Decl(H, "journald", "j"), <<"journald", "d">>), {"stopped"}), On(Decl("e", "journald", "j"), <<"journald", "d">>),
     Net(H, "netdev", "br0"), Then(With(Net("c", "network", "lan"), {<<"reconfigure", "br0">>, <<"reconfigure", "eth0">>}), <<"root", "s">>),
     Net("e", "network", "lan"), Flagged(Decl(H, "networkd", "n"), {"enable"}), Decl("c", "networkd", "n"),
     Service(H, "web", {<<"unit", "web">>, <<"package", "p">>}), Flagged(Service("c", "app", {<<"unit", "tick">>}), {"restarted"}),
     Docker({"official", "platform", "daemon"}), With(Docker({"none"}), {<<"user", "u">>}),
     Compose({"service"}, {"web.env"}), Compose({}, {}),
     On(Decl(H, "file", "y"), <<"web", "compose.yaml">>), On(Decl(H, "file", "d"), DaemonPath),
     After(File(H, "z"), {<<"file", "a">>}), After(Pkg(H, "q", {}), {<<"artifact", "a">>, <<"service", "web">>})}

\* One docker block, and compose projects inside it; one declaration per key.
WellFormed(h) ==
    /\ \A d, e \in h : Addr(d) = Addr(e) => d = e
    /\ Of(h, {H}, "compose") /= {} => Of(h, {H}, "docker") /= {}
    /\ \A d, e \in h : (d /= e /\ d.scope = e.scope /\ d.kind = e.kind /\ d.kind \in {"file", "secret", "directory", "artifact"}) => d.path /= e.path
    /\ \A d, e \in h : (d.kind = "artifact" /\ e.kind = "artifact" /\ d.scope = e.scope) => d = e

AptHost == {Repo(H, "r"), Repo("c", "q"), Pkg(H, "p", {"r"}), Pkg("c", "t", {"q"}), Pkg(H, "o", {})}
UnitHost ==
    {Flagged(Unit(H, "web"), {"change_action"}), Flagged(On(Decl("c", "timer", "tick"), UnitPath("tick")), {"enabled"}),
     Flagged(Service(H, "web", {<<"unit", "web">>, <<"package", "p">>}), {"restarted"}), Pkg(H, "p", {})}
NftHost == {Pkg(H, "nftables", {}), Nft("main", {"validate", "activate"}), Nft("extra", {}), Flagged(Decl(H, "nftables_enable", "n"), {"enable"})}
NftPlainHost == {Nft("main", {"activate"}), Absent(Nft("extra", {"validate"}))}
NetHost ==
    {Net(H, "netdev", "br0"), Then(With(Net("c", "network", "lan"), {<<"reconfigure", "br0">>, <<"reconfigure", "eth0">>}), <<"root", "s">>),
     Then(File("c", "a"), <<"root", "s">>), With(RootScript("s"), {<<"output", "o1">>}), Flagged(Decl(H, "networkd", "n"), {"enable"})}
DockerHost == {Docker({"official", "platform", "daemon"})}
ComposeHost == {Docker({"none"}), Compose({"service"}, {"web.env"})}
DropInHost ==
    {Flagged(On(Decl(H, "resolved", "r"), <<"resolved", "d">>), {"running"}), On(Decl("c", "journald", "j"), <<"journald", "d">>),
     [Artifact("c", "b") EXCEPT !.from = <<"fs", "a">>], For(File(H, "a"), "u", "root"), With(Decl(H, "user", "u"), {<<"primary", "u">>})}
UserHost ==
    {Decl(H, "group", "g"), With(Decl("c", "user", "u"), {<<"primary", "g">>, <<"ssh_key", "k">>}), With(Docker({"none"}), {<<"user", "u">>}),
     Then(For(File("c", "a"), "u", "g"), <<"component", "s">>), With(Decl("c", "script", "s"), {<<"output", "o1">>, <<"output", "o2">>})}

MCComposeHosts == {ComposeHost}
MCRunHosts == {UserHost, AptHost, UnitHost, NftHost, NftPlainHost, NetHost, DockerHost, ComposeHost, DropInHost}
MCHosts == MCRunHosts \cup {h \in {{a, b, c} : a, b, c \in Pool} : WellFormed(h)}
=============================================================================
