-------------------------- MODULE ProvidersProofs --------------------------
(***************************************************************************)
(* Proofs about module Providers, for every set of kinds and every bound.  *)
(* The argument goes kind by kind: what the hosts of a kind are, what its  *)
(* calls do to them (Call lemmas), what its plan decides (Fact lemmas),    *)
(* and from both what the host and the record are once the step of a plan  *)
(* has been executed (After lemmas).  The theorems put the kinds together. *)
(***************************************************************************)
EXTENDS Providers, TLAPS

\* What can be at a path: a file that fits has a whole content.
PathSpace ==
    {p \in Entry : (p.type = "missing" => p = Missing) /\ (Fits(p, "file") => p.content \in Content)}

PathHost == [path : PathSpace, aside : Entry]

Container ==
    [svc : {"none", "running", "stopped", "mixed", "part"}, orphan : {"none", "running", "stopped"},
     file : {"unread", "read", "late"}]

PackageHost == [pkg : {"none", "installed", "virtual"}]
ConflictHost == [pkgs : SUBSET {"p", "q"}]
KernelHost == [loaded : BOOLEAN, persisted : BOOLEAN]
SysctlHost == [value : {"1", "2", "4_5"}, file : {"none", "1", "2", "4_5"}]
NoGroup == [exists |-> FALSE, gid |-> "unset"]
Groups == [exists : {TRUE}, gid : {"1", "2"}]
GroupHost == {NoGroup} \cup Groups
NoUser == [exists |-> FALSE, shell |-> "unset", primary |-> "unset", groups |-> {}]
Users == [exists : {TRUE}, shell : {"sh", "zsh"}, primary : {"own", "g"}, groups : SUBSET {"g", "w"}]
UserHost == {NoUser} \cup Users
MemberHost == {h \in [user : BOOLEAN, primary : BOOLEAN, member : BOOLEAN] : h.user \/ ~(h.primary \/ h.member)}
KeyHost == {h \in [user : BOOLEAN, keys : SUBSET {"k", "other"}] : h.user \/ h.keys = {}}
ServiceHost == [enabled : {"yes", "no"}, active : BOOLEAN]
ComposeHost == [Project -> Container]
SettingHost == [value : {"unset", "x", "y"}, available : BOOLEAN]

HostSpace(k) ==
    CASE k \in PathKinds -> PathHost
      [] k = "package" -> PackageHost
      [] k = "docker_package_conflicts" -> ConflictHost
      [] k = "kernel_module" -> KernelHost
      [] k = "sysctl" -> SysctlHost
      [] k = "group" -> GroupHost
      [] k = "user" -> UserHost
      [] k = "user_group_membership" -> MemberHost
      [] k = "ssh_authorized_key" -> KeyHost
      [] k = "service" -> ServiceHost
      [] k = "docker_compose_project" -> ComposeHost
      [] k \in {"system_hostname", "system_timezone", "system_locale"} -> SettingHost

RecordSpace(k) ==
    [desired : Nodes(k), owner : {"managed", "adopted"}, original : PathSpace \cup {NoOriginal}, sha : Contents]

-----------------------------------------------------------------------------
(* Sequences of hosts.                                                     *)

\* The last of a host and the hosts that a call goes through.
LEMMA LastOf ==
    /\ \A h : Last(<<h>> \o << >>) = h
    /\ \A h, a : Last(<<h>> \o <<a>>) = a
    /\ \A h, a, b : Last(<<h>> \o <<a, b>>) = b
    /\ \A h, a, b, c : Last(<<h>> \o <<a, b, c>>) = c
    /\ \A h, a, b, c, d : Last(<<h>> \o <<a, b, c, d>>) = d
  BY DEF Last

\* Short sequences over a set.
LEMMA ShortSeq ==
    ASSUME NEW S, NEW a \in S, NEW b \in S, NEW c \in S, NEW d \in S
    PROVE  /\ << >> \in Seq(S) /\ <<a>> \in Seq(S) /\ <<a, b>> \in Seq(S) /\ <<a, b, c>> \in Seq(S)
           /\ <<a, b, c, d>> \in Seq(S)
  OBVIOUS

LEMMA AppendLast ==
    ASSUME NEW S, NEW h, NEW a \in S, NEW b \in S
    PROVE  Append(<<a>>, b) \in Seq(S) /\ Last(<<h>> \o Append(<<a>>, b)) = b /\ Last(<<a>>) = a
  BY DEF Last

LEMMA ThroughSeq ==
    ASSUME NEW S, NEW h \in S, NEW via \in Seq(S)
    PROVE  Last(<<h>> \o via) \in S /\ ToSet(via) \subseteq S
  BY DEF Last, ToSet

-----------------------------------------------------------------------------
(* Paths.                                                                  *)

\* What readPath gives for the entries that the calls make.
LEMMA PathFact ==
    /\ Missing \in PathSpace /\ ~Exists(Missing) /\ Missing.type = "missing"
    /\ File("part", "other") \in PathSpace
    /\ \A c \in Content : File(c, "root") \in PathSpace
    /\ \A c \in Content \cup {"none"}, m \in {"root", "other"} : Dir(c, m) \in PathSpace
    /\ \A c, m : /\ File(c, m).type = "file" /\ File(c, m).content = c /\ File(c, m).meta = m
                 /\ Dir(c, m).type = "dir" /\ Dir(c, m).content = c /\ Dir(c, m).meta = m
<1>1. Missing \in PathSpace /\ ~Exists(Missing) /\ Missing.type = "missing"
  BY DEF PathSpace, Entry, Contents, Content, Missing, Fits, Exists
<1>2. File("part", "other") \in PathSpace
  BY DEF PathSpace, Entry, Contents, Content, Missing, File, Fits
<1>3. ASSUME NEW c \in Content PROVE File(c, "root") \in PathSpace
  BY DEF PathSpace, Entry, Contents, Content, Missing, File, Fits
<1>4. ASSUME NEW c \in Content \cup {"none"}, NEW m \in {"root", "other"} PROVE Dir(c, m) \in PathSpace
  BY DEF PathSpace, Entry, Contents, Content, Missing, Dir, Fits
<1>5. ASSUME NEW c, NEW m
      PROVE  /\ File(c, m).type = "file" /\ File(c, m).content = c /\ File(c, m).meta = m
             /\ Dir(c, m).type = "dir" /\ Dir(c, m).content = c /\ Dir(c, m).meta = m
  BY DEF File, Dir
<1> QED
  BY <1>1, <1>2, <1>3, <1>4, <1>5

\* A host of a path kind and its changes.
LEMMA HostFact ==
    ASSUME NEW h \in PathHost
    PROVE  /\ h.path \in PathSpace /\ h.aside \in Entry /\ h.path \in Entry
           /\ h.path.type \in {"missing", "file", "dir"}
           /\ \A p \in PathSpace : /\ [h EXCEPT !.path = p] \in PathHost
                                   /\ [h EXCEPT !.path = p].path = p /\ [h EXCEPT !.path = p].aside = h.aside
           /\ \A p \in Entry : /\ [h EXCEPT !.aside = p] \in PathHost
                                   /\ [h EXCEPT !.aside = p].aside = p /\ [h EXCEPT !.aside = p].path = h.path
  BY DEF PathHost, PathSpace, Entry

\* install: through a part of the file, unless a directory is in the way.
LEMMA InstallingFact ==
    ASSUME NEW h \in PathHost, NEW file \in PathSpace
    PROVE  /\ Installing(h, file) \in Seq(PathHost)
           /\ Last(<<h>> \o Installing(h, file)) = IF h.path.type = "dir" THEN h ELSE [h EXCEPT !.path = file]
<1>1. [h EXCEPT !.path = File("part", "other")] \in PathHost /\ [h EXCEPT !.path = file] \in PathHost
  BY PathFact, HostFact
<1>2. CASE h.path.type = "dir"
  BY <1>2, LastOf DEF Installing
<1>3. CASE h.path.type # "dir"
  <2>1. Installing(h, file) = <<[h EXCEPT !.path = File("part", "other")], [h EXCEPT !.path = file]>>
    BY <1>3, Zenon DEF Installing
  <2> QED
    BY <1>1, <1>3, <2>1, LastOf, ShortSeq
<1> QED
  BY <1>2, <1>3

\* removePath takes the file away, or fails on a directory.
LEMMA RemovePathFact ==
    ASSUME NEW h \in PathHost, NEW o \in RemovePath(h)
    PROVE  /\ o.via \in Seq(PathHost)
           /\ o.ok => h.path.type # "dir" /\ o.via = <<[h EXCEPT !.path = Missing]>>
           /\ o.ok => Last(<<h>> \o o.via) = [h EXCEPT !.path = Missing]
           /\ ~o.ok => o.via = << >>
<1>1. [h EXCEPT !.path = Missing] \in PathHost
  BY PathFact, HostFact
<1>2. CASE h.path.type = "dir"
  <2>1. o.via = << >> /\ o.ok = FALSE
    BY <1>2 DEF RemovePath, Fails
  <2>2. o.via \in Seq(PathHost)
    BY <2>1
  <2> QED
    BY <2>1, <2>2, Zenon
<1>3. CASE h.path.type # "dir"
  <2>1. o = [via |-> <<[h EXCEPT !.path = Missing]>>, ok |-> TRUE]
    BY <1>3 DEF RemovePath, Done
  <2>2. o.via = <<[h EXCEPT !.path = Missing]>> /\ o.ok = TRUE
    BY <2>1
  <2> QED
    BY <1>1, <1>3, <2>2, LastOf, ShortSeq, Zenon
<1> QED
  BY <1>2, <1>3

\* The host that a call leaves.
Ends(h, o) == Last(<<h>> \o o.via)

\* A file is put at the path, or what is there is taken away.
Puts(h, e, c) == e \in PathHost /\ e.path = IF h.path.type = "dir" THEN h.path ELSE File(c, "root")
Takes(h, e) == e \in PathHost /\ h.path.type # "dir" /\ e.path = Missing

\* A call that only installs.
LEMMA InstallDone ==
    ASSUME NEW h \in PathHost, NEW c \in Content, NEW o \in Done(Installing(h, File(c, "root")))
    PROVE  o.via \in Seq(PathHost) /\ o.ok /\ Puts(h, Ends(h, o), c)
<1>1. o.via = Installing(h, File(c, "root")) /\ o.ok
  BY DEF Done
<1>2. File(c, "root") \in PathSpace
  BY PathFact
<1>3. /\ o.via \in Seq(PathHost)
      /\ Ends(h, o) = IF h.path.type = "dir" THEN h ELSE [h EXCEPT !.path = File(c, "root")]
  BY <1>1, <1>2, InstallingFact DEF Ends
<1> QED
  BY <1>1, <1>2, <1>3, HostFact DEF Puts

\* A call that only removes.
LEMMA RemoveTakes ==
    ASSUME NEW h \in PathHost, NEW o \in RemovePath(h)
    PROVE  o.via \in Seq(PathHost) /\ (o.ok => Takes(h, Ends(h, o)))
<1>1. o.via \in Seq(PathHost)
  BY RemovePathFact
<1>2. ASSUME o.ok PROVE Takes(h, Ends(h, o))
  <2>1. h.path.type # "dir" /\ Ends(h, o) = [h EXCEPT !.path = Missing]
    BY <1>2, RemovePathFact, Zenon DEF Ends
  <2> QED
    BY <2>1, PathFact, HostFact DEF Takes
<1> QED
  BY <1>1, <1>2

\* A call that fails before its first command.
LEMMA FailsEmpty ==
    ASSUME NEW S, NEW o \in Fails(<< >>)
    PROVE  o.via \in Seq(S) /\ ~o.ok
<1>1. o.via = << >>
  BY DEF Fails
<1>2. ~o.ok
  BY DEF Fails
<1> QED
  BY <1>1, <1>2
LEMMA FailsFact == \A S, v, o : v \in Seq(S) /\ o \in Fails(v) => o.via \in Seq(S) /\ ~o.ok
  BY DEF Fails
\* applyFileLike
LEMMA FileLikeCall ==
    ASSUME NEW n, n.content \in Content, NEW s, NEW h \in PathHost, NEW reload \in BOOLEAN,
           NEW o \in ApplyFileLike(n, s, h, reload)
    PROVE  /\ o.via \in Seq(PathHost)
           /\ o.ok /\ Removes(n, s) => Takes(h, Ends(h, o))
           /\ o.ok /\ ~Removes(n, s) => Puts(h, Ends(h, o), n.content)
           /\ o.ok /\ reload => Ends(h, o).aside = Ends(h, o).path
<1>0. \A e \in PathHost : /\ DaemonReload(e) \in PathHost
                          /\ DaemonReload(e).path = e.path /\ DaemonReload(e).aside = e.path
  BY HostFact DEF DaemonReload
<1>1. CASE Removes(n, s)
  <2>1. PICK r \in RemovePath(h) :
          o = IF reload /\ r.ok THEN [r EXCEPT !.via = Append(@, DaemonReload(Last(@)))] ELSE r
    BY <1>1 DEF ApplyFileLike
  <2>2. CASE ~(reload /\ r.ok)
    BY <1>1, <2>1, <2>2, RemoveTakes
  <2>3. CASE reload /\ r.ok
    <3>0. r = [via |-> <<[h EXCEPT !.path = Missing]>>, ok |-> TRUE] /\ h.path.type # "dir"
      BY <2>3 DEF RemovePath, Done, Fails
    <3>1. PICK e : e = [h EXCEPT !.path = Missing]
      OBVIOUS
    <3>2. e \in PathHost /\ e.path = Missing
      BY <3>1, PathFact, HostFact
    <3>3. r.via = <<e>> /\ r.ok = TRUE
      BY <3>0, <3>1
    <3>4. o.via = Append(<<e>>, DaemonReload(e))
      <4>1. o = [r EXCEPT !.via = Append(@, DaemonReload(Last(@)))]
        BY <2>1, <2>3
      <4>2. o.via = Append(r.via, DaemonReload(Last(r.via)))
        BY <3>0, <4>1
      <4>3. Last(<<e>>) = e
        BY <3>2, AppendLast
      <4> QED
        BY <3>3, <4>2, <4>3
    <3>5. Ends(h, o) = DaemonReload(e) /\ o.via \in Seq(PathHost)
      <4>1. /\ Append(<<e>>, DaemonReload(e)) \in Seq(PathHost)
            /\ Last(<<h>> \o Append(<<e>>, DaemonReload(e))) = DaemonReload(e)
        BY <1>0, <3>2, AppendLast
      <4> QED
        BY <3>4, <4>1, Zenon DEF Ends
    <3> QED
      BY <1>0, <1>1, <3>0, <3>2, <3>5 DEF Takes
  <2> QED
    BY <2>2, <2>3
<1>2. CASE ~Removes(n, s)
  <2>1. PICK via : via = Installing(h, File(n.content, "root"))
    OBVIOUS
  <2>2. PICK e : e = Last(<<h>> \o via)
    OBVIOUS
  <2>3. o \in Done(via \o (IF reload THEN <<DaemonReload(e)>> ELSE << >>))
    BY <1>2, <2>1, <2>2 DEF ApplyFileLike
  <2>4. [via |-> via, ok |-> TRUE] \in Done(Installing(h, File(n.content, "root")))
    BY <2>1 DEF Done
  <2>5. via \in Seq(PathHost) /\ e \in PathHost /\ Puts(h, e, n.content)
    BY <2>2, <2>4, InstallDone, ThroughSeq DEF Ends
  <2>6. CASE ~reload
    <3>1. o.via = via
      BY <2>3, <2>5, <2>6 DEF Done
    <3> QED
      BY <1>2, <2>2, <2>5, <2>6, <3>1 DEF Ends
  <2>7. CASE reload
    <3>1. o.via = via \o <<DaemonReload(e)>>
      BY <2>3, <2>7 DEF Done
    <3>2. o.via \in Seq(PathHost) /\ Ends(h, o) = DaemonReload(e)
      BY <1>0, <2>5, <3>1 DEF Ends, Last
    <3> QED
      BY <1>0, <1>2, <2>5, <3>2 DEF Puts
  <2> QED
    BY <2>6, <2>7
<1> QED
  BY <1>1, <1>2

\* A download puts what the server has, the declared content if it is checked.
LEMMA DownloadCall ==
    ASSUME NEW n, n.content \in Content, NEW h \in PathHost, NEW checked \in BOOLEAN,
           NEW o \in Download(n, h, checked)
    PROVE  /\ o.via \in Seq(PathHost)
           /\ o.ok => \E c \in Content : Puts(h, Ends(h, o), c) /\ (checked => c = n.content)
<1>1. PICK c \in Content :
        o \in IF checked /\ c # n.content THEN Fails(<< >>) ELSE Done(Installing(h, File(c, "root")))
  BY DEF Download
<1>2. CASE checked /\ c # n.content
  <2>1. o \in Fails(<< >>) /\ << >> \in Seq(PathHost)
    BY <1>1, <1>2
  <2> QED
    BY <2>1, FailsFact, Zenon
<1>3. CASE ~(checked /\ c # n.content)
  <2>1. o.via \in Seq(PathHost) /\ Puts(h, Ends(h, o), c)
    BY <1>1, <1>3, InstallDone
  <2> QED
    BY <1>3, <2>1
<1> QED
  BY <1>2, <1>3

InstallKinds ==
    {"file", "systemd_unit", "networkd_netdev", "apt_signing_key", "component_download", "component_build",
     "component_binary", "component_file"}

Known(k, n) == ~(k = "component_build" \/ (k = "apt_signing_key" /\ n.from = "url"))

\* The declarations of each kind.
LEMMA NodesOf ==
    /\ Nodes("file") = [ensure : Either, content : Content, write_only : BOOLEAN]
    /\ Nodes("systemd_unit") = [ensure : Either, content : Content, write_only : {FALSE}]
    /\ Nodes("networkd_netdev") = [ensure : Either, content : Content, write_only : {FALSE}]
    /\ Nodes("apt_signing_key") = [ensure : Either, content : Content, from : {"content", "url", "url_sha256"}]
    /\ Nodes("component_download") = [ensure : Either, content : Content]
    /\ Nodes("component_build") = [ensure : Either, content : Content]
    /\ Nodes("component_binary") = [ensure : Either, content : Content]
    /\ Nodes("component_file") = [ensure : Either, content : Content]
    /\ Nodes("component_archive") = [ensure : Either, content : Content]
    /\ Nodes("directory") = [ensure : Either]
    /\ Nodes("component_script_output") = [ensure : Present, script : Content]
    /\ Nodes("apt_source_file") =
           {n \in [ensure : Either, content : Content, on_destroy : {"keep", "restore"}, sensitive : BOOLEAN] :
              ~(n.sensitive /\ n.on_destroy = "restore")}
    /\ Nodes("package") = [ensure : Either, policy : {"unset", "keep", "replace"}]
    /\ Nodes("docker_package_conflicts") = [ensure : Present, remove_conflicts : {"auto", "true", "false"}]
    /\ Nodes("kernel_module") = [ensure : Either]
    /\ Nodes("sysctl") = [ensure : Either, value : {"1", "2", "4_5"}]
    /\ Nodes("group") = [ensure : Either, gid : {"unset", "1", "2"}]
    /\ Nodes("user") = [ensure : Either, shell : {"unset", "sh", "zsh"}, groups : SUBSET {"g", "w"}]
    /\ Nodes("user_group_membership") = [ensure : Either, managed : BOOLEAN]
    /\ Nodes("ssh_authorized_key") = [ensure : Either]
    /\ Nodes("service") =
           [ensure : Present, enabled : {"unset", "yes", "no"},
            state : {"unset", "running", "stopped", "restarted", "reloaded"}]
    /\ Nodes("docker_compose_project") =
           [ensure : Present, project : Project, state : {"running", "stopped", "absent"}, remove_orphans : BOOLEAN]
    /\ Nodes("system_hostname") = [ensure : Present, value : {"x", "y"}]
    /\ Nodes("system_timezone") = [ensure : Present, value : {"x", "y"}]
    /\ Nodes("system_locale") = [ensure : Present, value : {"x", "y"}]
  BY DEF Nodes

\* The declarations of the kinds that install a file.
LEMMA InstallNodes ==
    ASSUME NEW k \in InstallKinds, NEW n \in Nodes(k)
    PROVE  /\ n.content \in Content /\ n.ensure \in Either
           /\ k = "apt_signing_key" => n.from \in {"content", "url", "url_sha256"}
           /\ k \in {"file", "systemd_unit", "networkd_netdev"} => n.write_only \in BOOLEAN
           /\ k \in {"systemd_unit", "networkd_netdev"} => n.write_only = FALSE
<1>1. CASE k = "file"
  <2>1. n \in [ensure : Either, content : Content, write_only : BOOLEAN]
    BY <1>1, NodesOf, Zenon
  <2> QED
    BY <1>1, <2>1
<1>2. CASE k \in {"systemd_unit", "networkd_netdev"}
  <2>1. n \in [ensure : Either, content : Content, write_only : {FALSE}]
    BY <1>2, NodesOf, Zenon
  <2> QED
    BY <1>2, <2>1
<1>3. CASE k = "apt_signing_key"
  <2>1. n \in [ensure : Either, content : Content, from : {"content", "url", "url_sha256"}]
    BY <1>3, NodesOf, Zenon
  <2> QED
    BY <1>3, <2>1
<1>4. CASE k \in {"component_download", "component_build", "component_binary", "component_file"}
  <2>1. n \in [ensure : Either, content : Content]
    BY <1>4, NodesOf, Zenon
  <2> QED
    BY <1>4, <2>1
<1> QED
  BY <1>1, <1>2, <1>3, <1>4 DEF InstallKinds

\* Apply of the kinds that install a file.
LEMMA ApplyDispatch ==
    ASSUME NEW n, NEW s, NEW p, NEW h
    PROVE  /\ \A k \in {"file", "networkd_netdev"} : ProviderApply(k, n, s, p, h) = ApplyFileLike(n, s, h, FALSE)
           /\ ProviderApply("systemd_unit", n, s, p, h) = ApplyFileLike(n, s, h, TRUE)
           /\ ProviderApply("apt_signing_key", n, s, p, h) = ApplyAptSigningKey(n, s, h)
           /\ ProviderApply("component_download", n, s, p, h) = ApplyComponentDownload(n, s, h)
           /\ ProviderApply("component_build", n, s, p, h) = ApplyComponentBuild(n, s, h)
           /\ ProviderApply("component_binary", n, s, p, h) = ApplyComponentBinary(n, s, h)
           /\ ProviderApply("component_file", n, s, p, h) = ApplyComponentFile(n, s, h)
  BY DEF ProviderApply

\* Every kind that installs a file takes the path away or puts a file at it.
LEMMA InstallCall ==
    ASSUME NEW k \in InstallKinds, NEW n \in Nodes(k), NEW s, NEW p, NEW h \in PathHost,
           NEW o \in ProviderApply(k, n, s, p, h)
    PROVE  /\ o.via \in Seq(PathHost)
           /\ o.ok /\ Removes(n, s) => Takes(h, Ends(h, o))
           /\ o.ok /\ ~Removes(n, s) =>
                \E c \in Content : Puts(h, Ends(h, o), c) /\ (Known(k, n) => c = n.content)
           /\ o.ok /\ k = "systemd_unit" => Ends(h, o).aside = Ends(h, o).path
<1>0. n.content \in Content
  BY InstallNodes
<1>1. CASE k \in {"file", "networkd_netdev"}
  <2>1. o \in ApplyFileLike(n, s, h, FALSE)
    BY <1>1, ApplyDispatch, Zenon
  <2> QED
    BY <1>0, <1>1, <2>1, FileLikeCall
<1>2. CASE k = "systemd_unit"
  <2>1. o \in ApplyFileLike(n, s, h, TRUE)
    BY <1>2, ApplyDispatch
  <2> QED
    BY <1>0, <1>2, <2>1, FileLikeCall
<1>3. CASE k \notin {"file", "networkd_netdev", "systemd_unit"} /\ Removes(n, s)
  <2>1. CASE k = "apt_signing_key"
    <3>1. o \in ApplyAptSigningKey(n, s, h)
      BY <2>1, ApplyDispatch, Zenon
    <3>2. o \in RemovePath(h)
      BY <1>3, <3>1 DEF ApplyAptSigningKey
    <3> QED
      BY <1>3, <3>2, RemoveTakes
  <2>2. CASE k = "component_download"
    <3>1. o \in ApplyComponentDownload(n, s, h)
      BY <2>2, ApplyDispatch, Zenon
    <3>2. o \in RemovePath(h)
      BY <1>3, <3>1 DEF ApplyComponentDownload
    <3> QED
      BY <1>3, <3>2, RemoveTakes
  <2>3. CASE k = "component_build"
    <3>1. o \in ApplyComponentBuild(n, s, h)
      BY <2>3, ApplyDispatch, Zenon
    <3>2. o \in RemovePath(h)
      BY <1>3, <3>1 DEF ApplyComponentBuild
    <3> QED
      BY <1>3, <3>2, RemoveTakes
  <2>4. CASE k = "component_binary"
    <3>1. o \in ApplyComponentBinary(n, s, h)
      BY <2>4, ApplyDispatch, Zenon
    <3>2. o \in RemovePath(h)
      BY <1>3, <3>1 DEF ApplyComponentBinary
    <3> QED
      BY <1>3, <3>2, RemoveTakes
  <2>5. CASE k = "component_file"
    <3>1. o \in ApplyComponentFile(n, s, h)
      BY <2>5, ApplyDispatch, Zenon
    <3>2. o \in RemovePath(h)
      BY <1>3, <3>1 DEF ApplyComponentFile
    <3> QED
      BY <1>3, <3>2, RemoveTakes
  <2> QED
    BY <1>3, <2>1, <2>2, <2>3, <2>4, <2>5 DEF InstallKinds
<1>4. CASE ~Removes(n, s) /\ k = "apt_signing_key"
  <2>1. o \in ApplyAptSigningKey(n, s, h)
    BY <1>4, ApplyDispatch, Zenon
  <2>2. CASE n.from = "content"
    <3>1. o \in Done(Installing(h, File(n.content, "root")))
      BY <1>4, <2>1, <2>2 DEF ApplyAptSigningKey
    <3> QED
      BY <1>0, <1>4, <3>1, InstallDone
  <2>3. CASE n.from # "content"
    <3>1. o \in Download(n, h, n.from = "url_sha256")
      BY <1>4, <2>1, <2>3 DEF ApplyAptSigningKey
    <3>2. n.from \in {"url", "url_sha256"}
      BY <1>4, <2>3, InstallNodes
    <3>3. CASE n.from = "url"
      BY <1>0, <1>4, <3>1, <3>3, DownloadCall DEF Known
    <3>4. CASE n.from = "url_sha256"
      <4>1. o \in Download(n, h, TRUE)
        BY <3>1, <3>4
      <4> QED
        BY <1>0, <1>4, <4>1, DownloadCall
    <3> QED
      BY <3>2, <3>3, <3>4
  <2> QED
    BY <2>2, <2>3
<1>5. CASE ~Removes(n, s) /\ k = "component_download"
  <2>0. o \in ApplyComponentDownload(n, s, h)
    BY <1>5, ApplyDispatch, Zenon
  <2>1. o \in Download(n, h, TRUE)
    BY <1>5, <2>0 DEF ApplyComponentDownload
  <2> QED
    BY <1>0, <1>5, <2>1, DownloadCall
<1>6. CASE ~Removes(n, s) /\ k = "component_build"
  <2>0. o \in ApplyComponentBuild(n, s, h)
    BY <1>6, ApplyDispatch, Zenon
  <2>1. o \in BuildScript(h)
    BY <1>6, <2>0 DEF ApplyComponentBuild
  <2>2. CASE o \in Fails(<< >>)
    BY <1>6, <2>2, FailsEmpty, Zenon
  <2>3. CASE o \notin Fails(<< >>)
    <3>1. PICK c \in Content : o \in Done(Installing(h, File(c, "root")))
      BY <2>1, <2>3 DEF BuildScript
    <3> QED
      BY <1>6, <3>1, InstallDone DEF Known
  <2> QED
    BY <2>2, <2>3
<1>7. CASE ~Removes(n, s) /\ k = "component_binary"
  <2>0. o \in ApplyComponentBinary(n, s, h)
    BY <1>7, ApplyDispatch, Zenon
  <2>1. o \in ExtractInstallScript(n, h)
    BY <1>7, <2>0 DEF ApplyComponentBinary
  <2>2. CASE o \in Fails(<< >>)
    BY <1>7, <2>2, FailsEmpty, Zenon
  <2>3. CASE o \in Done(Installing(h, File(n.content, "root")))
    BY <1>0, <1>7, <2>3, InstallDone
  <2> QED
    BY <2>1, <2>2, <2>3 DEF ExtractInstallScript
<1>8. CASE ~Removes(n, s) /\ k = "component_file"
  <2>0. o \in ApplyComponentFile(n, s, h)
    BY <1>8, ApplyDispatch, Zenon
  <2>1. o \in Done(Installing(h, File(n.content, "root")))
    BY <1>8, <2>0 DEF ApplyComponentFile
  <2> QED
    BY <1>0, <1>8, <2>1, InstallDone
<1> QED
  BY <1>1, <1>2, <1>3, <1>4, <1>5, <1>6, <1>7, <1>8 DEF InstallKinds

-----------------------------------------------------------------------------
(* The other paths.                                                        *)

\* A call without commands.
LEMMA DoneEmpty ==
    ASSUME NEW S, NEW h \in S, NEW o \in Done(<< >>)
    PROVE  o.via \in Seq(S) /\ Ends(h, o) = h /\ o.ok
<1>1. o.via = << >>
  BY DEF Done
<1>2. o.ok
  BY DEF Done
<1> QED
  BY <1>1, <1>2, LastOf DEF Ends

\* restoreAPTSourceFile gives back the original, or removes the file.
Restores(p, h, e) ==
    /\ e \in PathHost
    /\ \/ h.path.type = "dir" /\ e.path = h.path
       \/ e.path = IF p.original = NoOriginal THEN Missing ELSE p.original

\* restoreAPTSourceFile.
LEMMA RestoreCall ==
    ASSUME NEW p, p # NoRecord, p.original \in PathSpace \cup {NoOriginal}, NEW h \in PathHost,
           NEW o \in RestoreAptSourceFile(p, h)
    PROVE  o.via \in Seq(PathHost) /\ (o.ok => Restores(p, h, Ends(h, o)))
<1>1. CASE p.original \in {NoOriginal, Missing}
  <2>1. o \in RemovePath(h)
    BY <1>1 DEF RestoreAptSourceFile
  <2> QED
    BY <1>1, <2>1, RemoveTakes DEF Restores, Takes
<1>2. CASE p.original \notin {NoOriginal, Missing}
  <2>1. o.via = Installing(h, p.original) /\ p.original \in PathSpace
    BY <1>2 DEF RestoreAptSourceFile, Done
  <2>2. /\ o.via \in Seq(PathHost)
        /\ Ends(h, o) = IF h.path.type = "dir" THEN h ELSE [h EXCEPT !.path = p.original]
    BY <2>1, InstallingFact DEF Ends
  <2> QED
    BY <1>2, <2>1, <2>2, HostFact DEF Restores
<1> QED
  BY <1>1, <1>2

\* applyAPTSourceFile.
LEMMA AptSourceCall ==
    ASSUME NEW n, n.content \in Content, NEW s, NEW p, p # NoRecord => p.original \in PathSpace \cup {NoOriginal},
           NEW h \in PathHost, NEW o \in ApplyAptSourceFile(n, s, p, h)
    PROVE  /\ o.via \in Seq(PathHost)
           /\ o.ok /\ Removes(n, s) =>
                IF n.on_destroy = "restore" /\ p # NoRecord THEN Restores(p, h, Ends(h, o)) ELSE Ends(h, o) = h
           /\ o.ok /\ ~Removes(n, s) => Puts(h, Ends(h, o), n.content)
<1>1. CASE ~Removes(n, s)
  BY <1>1, InstallDone DEF ApplyAptSourceFile
<1>2. CASE Removes(n, s) /\ n.on_destroy = "restore" /\ p # NoRecord
  <2>1. o \in RestoreAptSourceFile(p, h)
    BY <1>2 DEF ApplyAptSourceFile
  <2> QED
    BY <1>2, <2>1, RestoreCall
<1>3. CASE Removes(n, s) /\ ~(n.on_destroy = "restore" /\ p # NoRecord)
  <2>1. o \in Done(<< >>)
    BY <1>3 DEF ApplyAptSourceFile, RestoreAptSourceFile
  <2> QED
    BY <1>3, <2>1, DoneEmpty
<1> QED
  BY <1>1, <1>2, <1>3

\* destroyAPTSourceFile.
LEMMA AptSourceDestroy ==
    ASSUME NEW p, p # NoRecord, p.original \in PathSpace \cup {NoOriginal}, NEW h \in PathHost,
           NEW o \in DestroyAptSourceFile(p, h)
    PROVE  /\ o.via \in Seq(PathHost)
           /\ o.ok /\ p.desired.on_destroy = "restore" => Restores(p, h, Ends(h, o))
           /\ o.ok /\ p.desired.on_destroy # "restore" => Ends(h, o) = h
<1>1. CASE p.desired.on_destroy # "restore"
  BY <1>1, DoneEmpty DEF DestroyAptSourceFile
<1>2. CASE p.desired.on_destroy = "restore" /\ o \in RestoreAptSourceFile(p, h)
  BY <1>2, RestoreCall
<1>3. CASE p.desired.on_destroy = "restore" /\ o \notin RestoreAptSourceFile(p, h)
  <2>1. PICK r \in RestoreAptSourceFile(p, h) : o = [r EXCEPT !.ok = FALSE]
    BY <1>3 DEF DestroyAptSourceFile
  <2>2. \E v : r \in Done(v) \cup Fails(v)
    BY DEF RestoreAptSourceFile, RemovePath
  <2>3. o.via = r.via
    BY <2>1, <2>2 DEF Done, Fails
  <2>4. ~o.ok
    BY <2>1, <2>2 DEF Done, Fails
  <2> QED
    BY <1>3, <2>3, <2>4, RestoreCall
<1> QED
  BY <1>1, <1>2, <1>3

\* removeDirectory.
LEMMA RemoveDirectoryCall ==
    ASSUME NEW h \in PathHost, NEW o \in RemoveDirectory(h)
    PROVE  /\ o.via \in Seq(PathHost) /\ o.ok
           /\ Ends(h, o) \in PathHost /\ Ends(h, o).path = Missing /\ Ends(h, o).aside = h.aside
<1>1. PICK e : e = [h EXCEPT !.path = Missing]
  OBVIOUS
<1>2. e \in PathHost /\ e.path = Missing /\ e.aside = h.aside
  BY <1>1, PathFact, HostFact
<1>3. o.via = <<e>>
  BY <1>1 DEF RemoveDirectory, Done
<1>4. o.ok
  BY DEF RemoveDirectory, Done
<1> QED
  BY <1>2, <1>3, <1>4, LastOf DEF Ends

\* applyDirectory.
LEMMA DirectoryCall ==
    ASSUME NEW n, NEW s, NEW h \in PathHost, NEW o \in ApplyDirectory(n, s, h)
    PROVE  /\ o.via \in Seq(PathHost)
           /\ Removes(n, s) => Ends(h, o).path = Missing
           /\ o.ok /\ ~Removes(n, s) => Ends(h, o) \in PathHost /\ Fits(Ends(h, o).path, "dir")
<1>1. CASE Removes(n, s)
  <2>1. o \in RemoveDirectory(h)
    BY <1>1 DEF ApplyDirectory
  <2> QED
    BY <1>1, <2>1, RemoveDirectoryCall
<1>2. CASE ~Removes(n, s) /\ h.path.type = "file"
  BY <1>2, FailsEmpty DEF ApplyDirectory
<1>3. CASE ~Removes(n, s) /\ h.path.type # "file"
  <2>1. PICK made : made = IF Exists(h.path) THEN h ELSE [h EXCEPT !.path = Dir("none", "other")]
    OBVIOUS
  <2>2. o \in Done(<<made, [made EXCEPT !.path.meta = "root"]>>)
    BY <1>3, <2>1 DEF ApplyDirectory
  <2>3. made \in PathHost /\ made.path.type = "dir"
    BY <1>3, <2>1, PathFact, HostFact DEF Exists
  <2>4. PICK e : e = [made EXCEPT !.path.meta = "root"]
    OBVIOUS
  <2>5. e = [made EXCEPT !.path = [made.path EXCEPT !.meta = "root"]]
    BY <2>3, <2>4 DEF PathHost
  <2>6. /\ [made.path EXCEPT !.meta = "root"] \in PathSpace
        /\ Fits([made.path EXCEPT !.meta = "root"], "dir")
    BY <2>3, HostFact DEF PathSpace, Entry, Fits
  <2>7. e \in PathHost /\ Fits(e.path, "dir")
    BY <2>3, <2>5, <2>6, HostFact
  <2>8. o.via = <<made, e>>
    BY <2>2, <2>4 DEF Done
  <2> QED
    BY <1>3, <2>3, <2>7, <2>8, LastOf, ShortSeq DEF Ends
<1> QED
  BY <1>1, <1>2, <1>3

\* A failed replacement of an archive leaves the old one or the new one.
LEMMA ArchiveCall ==
    ASSUME NEW n, n.content \in Content, NEW s, NEW h \in PathHost, NEW o \in ApplyComponentArchive(n, s, h)
    PROVE  /\ o.via \in Seq(PathHost)
           /\ Removes(n, s) => o.ok /\ Ends(h, o).path = Missing /\ Ends(h, o).aside = h.aside
           /\ o.ok /\ ~Removes(n, s) =>
                Ends(h, o).path = Dir(n.content, "root") /\ Ends(h, o).aside = Missing
           /\ ~o.ok /\ Exists(h.path) => Ends(h, o).path \in {h.path, Dir(n.content, "root")}
<1>1. CASE Removes(n, s)
  <2>1. o \in RemoveDirectory(h)
    BY <1>1 DEF ApplyComponentArchive
  <2> QED
    BY <1>1, <2>1, RemoveDirectoryCall
<1>2. CASE ~Removes(n, s)
  <2>1. PICK clean1 : clean1 = [h EXCEPT !.aside = Missing]
    OBVIOUS
  <2>2. PICK moved : moved = [path |-> Missing, aside |-> h.path]
    OBVIOUS
  <2>3. PICK new : new = [moved EXCEPT !.path = Dir(n.content, "root")]
    OBVIOUS
  <2>4. PICK end : end = [new EXCEPT !.aside = Missing]
    OBVIOUS
  <2>5. PICK back : back = Rollback(moved)
    OBVIOUS
  <2>6. Missing \in Entry /\ Dir(n.content, "root") \in PathSpace
    BY PathFact DEF PathSpace
  <2>7. clean1 \in PathHost /\ clean1.path = h.path
    BY <2>1, <2>6, HostFact
  <2>8. moved \in PathHost /\ moved.aside = h.path
    BY <2>2, <2>6, HostFact, PathFact DEF PathHost
  <2>9. new \in PathHost /\ new.path = Dir(n.content, "root")
    BY <2>3, <2>6, <2>8, HostFact
  <2>10. end \in PathHost /\ end.path = Dir(n.content, "root") /\ end.aside = Missing
    BY <2>4, <2>6, <2>9, HostFact
  <2>11. back \in PathHost /\ (Exists(h.path) => back.path = h.path)
    <3>1. CASE Exists(h.path)
      <4>1. back = [path |-> h.path, aside |-> Missing]
        BY <2>5, <2>8, <3>1 DEF Rollback
      <4> QED
        BY <4>1, <2>6, HostFact DEF PathHost
    <3>2. CASE ~Exists(h.path)
      <4>1. back = [moved EXCEPT !.aside = Missing]
        BY <2>5, <2>8, <3>2 DEF Rollback
      <4> QED
        BY <4>1, <2>6, <2>8, <3>2, HostFact
    <3> QED
      BY <3>1, <3>2
  <2>12. o \in Fails(<<clean1>>) \cup Fails(<<clean1, moved, back>>) \cup Fails(<<clean1, moved, new>>)
               \cup Done(<<clean1, moved, new, end>>)
    BY <1>2, <2>1, <2>2, <2>3, <2>4, <2>5 DEF ApplyComponentArchive
  <2>13. CASE o \in Fails(<<clean1>>)
    <3>1. o.via = <<clean1>>
      BY <2>13 DEF Fails
    <3>2. ~o.ok
      BY <2>13 DEF Fails
    <3> QED
      BY <1>2, <2>7, <3>1, <3>2, LastOf DEF Ends
  <2>14. CASE o \in Fails(<<clean1, moved, back>>)
    <3>1. o.via = <<clean1, moved, back>>
      BY <2>14 DEF Fails
    <3>2. ~o.ok
      BY <2>14 DEF Fails
    <3> QED
      BY <1>2, <2>7, <2>8, <2>11, <3>1, <3>2, LastOf DEF Ends
  <2>15. CASE o \in Fails(<<clean1, moved, new>>)
    <3>1. o.via = <<clean1, moved, new>>
      BY <2>15 DEF Fails
    <3>2. ~o.ok
      BY <2>15 DEF Fails
    <3> QED
      BY <1>2, <2>7, <2>8, <2>9, <3>1, <3>2, LastOf DEF Ends
  <2>16. CASE o \in Done(<<clean1, moved, new, end>>)
    <3>1. o.via = <<clean1, moved, new, end>>
      BY <2>16 DEF Done
    <3>2. o.ok
      BY <2>16 DEF Done
    <3> QED
      BY <1>2, <2>7, <2>8, <2>9, <2>10, <3>1, <3>2, LastOf DEF Ends
  <2> QED
    BY <2>12, <2>13, <2>14, <2>15, <2>16
<1> QED
  BY <1>1, <1>2

\* runScriptOperation leaves a regular file, or fails.
LEMMA ScriptCall ==
    ASSUME NEW h \in PathHost, NEW o \in RunScript(h)
    PROVE  /\ o.via \in Seq(PathHost)
           /\ o.ok => \E c \in Content : Ends(h, o).path = File(c, "root")
<1>1. CASE o \in Fails(<< >>)
  BY <1>1, FailsEmpty
<1>2. CASE o \notin Fails(<< >>)
  <2>1. PICK c \in Content : o \in Done(<<[h EXCEPT !.path = File(c, "root")]>>)
    BY <1>2 DEF RunScript
  <2>2. PICK e : e = [h EXCEPT !.path = File(c, "root")]
    OBVIOUS
  <2>3. e \in PathHost /\ e.path = File(c, "root")
    BY <2>2, PathFact, HostFact
  <2>4. o.via = <<e>>
    BY <2>1, <2>2 DEF Done
  <2> QED
    BY <2>3, <2>4, LastOf DEF Ends
<1> QED
  BY <1>1, <1>2

\* destroyNetworkdNetDev.
LEMMA NetDevDestroy ==
    ASSUME NEW h \in PathHost, NEW o \in DestroyNetworkdNetDev(h)
    PROVE  o.via \in Seq(PathHost)
<1>1. PICK r \in RemovePath(h) :
        o = IF r.ok THEN [r EXCEPT !.via = Append(@, [Last(@) EXCEPT !.aside = Missing])] ELSE r
  BY DEF DestroyNetworkdNetDev
<1>2. CASE ~r.ok
  BY <1>1, <1>2, RemoveTakes
<1>3. CASE r.ok
  <2>1. r = [via |-> <<[h EXCEPT !.path = Missing]>>, ok |-> TRUE]
    BY <1>3 DEF RemovePath, Done, Fails
  <2>2. PICK e : e = [h EXCEPT !.path = Missing]
    OBVIOUS
  <2>3. e \in PathHost /\ [e EXCEPT !.aside = Missing] \in PathHost
    BY <2>2, PathFact, HostFact DEF PathSpace
  <2>4. r.via = <<e>>
    BY <2>1, <2>2
  <2>5. o.via = Append(r.via, [Last(r.via) EXCEPT !.aside = Missing])
    BY <1>1, <1>3, <2>1
  <2>6. o.via = Append(<<e>>, [e EXCEPT !.aside = Missing])
    BY <2>3, <2>4, <2>5, AppendLast
  <2> QED
    BY <2>3, <2>6, AppendLast
<1> QED
  BY <1>2, <1>3

-----------------------------------------------------------------------------
(* Calls of the other kinds.                                               *)

\* A call of one command.
LEMMA DoneOne ==
    ASSUME NEW S, NEW h, NEW a \in S, NEW o \in Done(<<a>>)
    PROVE  o.via \in Seq(S) /\ Ends(h, o) = a /\ o.ok
<1>1. o.via = <<a>>
  BY DEF Done
<1>2. o.ok
  BY DEF Done
<1> QED
  BY <1>1, <1>2, LastOf DEF Ends

\* A call of two commands.
LEMMA DoneTwo ==
    ASSUME NEW S, NEW h, NEW a \in S, NEW b \in S, NEW o \in Done(<<a, b>>)
    PROVE  o.via \in Seq(S) /\ Ends(h, o) = b /\ o.ok
<1>1. o.via = <<a, b>>
  BY DEF Done
<1>2. o.ok
  BY DEF Done
<1> QED
  BY <1>1, <1>2, LastOf DEF Ends

LEMMA DoneThree ==
    ASSUME NEW S, NEW h, NEW a \in S, NEW b \in S, NEW c \in S, NEW o \in Done(<<a, b, c>>)
    PROVE  o.via \in Seq(S) /\ Ends(h, o) = c /\ o.ok
<1>1. o.via = <<a, b, c>>
  BY DEF Done
<1>2. o.ok
  BY DEF Done
<1> QED
  BY <1>1, <1>2, LastOf DEF Ends

\* applyPackage.
LEMMA PackageCall ==
    ASSUME NEW n, NEW s, NEW h \in PackageHost, NEW o \in ApplyPackage(n, s, h)
    PROVE  /\ o.via \in Seq(PackageHost)
           /\ Removes(n, s) => Ends(h, o).pkg = IF s.seen.installed # {} /\ h.pkg = "installed" THEN "none" ELSE h.pkg
           /\ o.ok /\ ~Removes(n, s) => Ends(h, o).pkg # "none"
<1>1. CASE Removes(n, s) /\ s.seen.installed = {}
  <2>1. o \in Done(<< >>)
    BY <1>1 DEF ApplyPackage
  <2> QED
    BY <1>1, <2>1, DoneEmpty
<1>2. CASE Removes(n, s) /\ s.seen.installed # {}
  <2>1. PICK e : e = [h EXCEPT !.pkg = IF @ = "installed" THEN "none" ELSE @]
    OBVIOUS
  <2>2. e \in PackageHost /\ e.pkg = IF h.pkg = "installed" THEN "none" ELSE h.pkg
    BY <2>1 DEF PackageHost
  <2>3. o \in Done(<<e>>)
    BY <1>2, <2>1 DEF ApplyPackage
  <2> QED
    BY <1>2, <2>2, <2>3, DoneOne
<1>3. CASE ~Removes(n, s)
  <2>1. o \in Fails(<< >>) \/ \E p \in {"installed", "virtual"} : o \in Done(<<[h EXCEPT !.pkg = p]>>)
    BY <1>3 DEF ApplyPackage
  <2>2. CASE o \in Fails(<< >>)
    BY <1>3, <2>2, FailsEmpty
  <2>3. CASE o \notin Fails(<< >>)
    <3>1. PICK p \in {"installed", "virtual"} : o \in Done(<<[h EXCEPT !.pkg = p]>>)
      BY <2>1, <2>3
    <3>2. PICK e : e = [h EXCEPT !.pkg = p]
      OBVIOUS
    <3>3. e \in PackageHost /\ e.pkg # "none"
      BY <3>2 DEF PackageHost
    <3>4. o.via \in Seq(PackageHost) /\ Ends(h, o) = e
      BY <3>1, <3>2, <3>3, DoneOne
    <3> QED
      BY <1>3, <3>3, <3>4
  <2> QED
    BY <2>2, <2>3
<1> QED
  BY <1>1, <1>2, <1>3

\* applyDockerPackageConflicts.
LEMMA ConflictCall ==
    ASSUME NEW s, NEW h \in ConflictHost, NEW o \in ApplyDockerPackageConflicts(s, h)
    PROVE  o.via \in Seq(ConflictHost) /\ Ends(h, o).pkgs = h.pkgs \ s.seen.installed
<1>1. PICK e : e = [h EXCEPT !.pkgs = @ \ s.seen.installed]
  OBVIOUS
<1>2. e \in ConflictHost /\ e.pkgs = h.pkgs \ s.seen.installed
  BY <1>1 DEF ConflictHost
<1>3. o \in Done(<<e>>)
  BY <1>1 DEF ApplyDockerPackageConflicts
<1> QED
  BY <1>2, <1>3, DoneOne

\* applyKernelModule.
LEMMA KernelCall ==
    ASSUME NEW n, NEW s, NEW h \in KernelHost, NEW o \in ApplyKernelModule(n, s, h)
    PROVE  /\ o.via \in Seq(KernelHost) /\ Ends(h, o) \in KernelHost
           /\ Removes(n, s) => ~Ends(h, o).persisted
           /\ ~Removes(n, s) => Ends(h, o).loaded /\ Ends(h, o).persisted
<1>1. CASE Removes(n, s)
  <2>1. PICK gone : gone = [h EXCEPT !.persisted = FALSE]
    OBVIOUS
  <2>2. PICK out : out = [gone EXCEPT !.loaded = FALSE]
    OBVIOUS
  <2>3. gone \in KernelHost /\ out \in KernelHost
    BY <2>1, <2>2 DEF KernelHost
  <2>4. ~gone.persisted
    BY <2>1 DEF KernelHost
  <2>5. ~out.persisted
    BY <2>2, <2>3, <2>4 DEF KernelHost
  <2>6. o \in Done(<<gone>>) \/ o \in Done(<<gone, out>>)
    BY <1>1, <2>1, <2>2 DEF ApplyKernelModule, UnloadKernelModule
  <2>7. CASE o \in Done(<<gone>>)
    BY <1>1, <2>3, <2>4, <2>7, DoneOne
  <2>8. CASE o \in Done(<<gone, out>>)
    BY <1>1, <2>3, <2>5, <2>8, DoneTwo
  <2> QED
    BY <2>6, <2>7, <2>8
<1>2. CASE ~Removes(n, s)
  <2>1. PICK a : a = [h EXCEPT !.loaded = TRUE]
    OBVIOUS
  <2>2. PICK b : b = [loaded |-> TRUE, persisted |-> TRUE]
    OBVIOUS
  <2>3. a \in KernelHost /\ b \in KernelHost
    BY <2>1, <2>2 DEF KernelHost
  <2>4. b.loaded /\ b.persisted
    BY <2>2
  <2>5. o \in Done(<<a, b>>)
    BY <1>2, <2>1, <2>2 DEF ApplyKernelModule
  <2> QED
    BY <1>2, <2>3, <2>4, <2>5, DoneTwo
<1> QED
  BY <1>1, <1>2

\* applySysctl leaves the runtime value when it removes the file.
LEMMA SysctlCall ==
    ASSUME NEW n, n.value \in {"1", "2", "4_5"}, NEW s, NEW h \in SysctlHost, NEW o \in ApplySysctl(n, s, h)
    PROVE  /\ o.via \in Seq(SysctlHost) /\ Ends(h, o) \in SysctlHost
           /\ Removes(n, s) => Ends(h, o).file = "none" /\ Ends(h, o).value = h.value
           /\ ~Removes(n, s) => Ends(h, o).file = n.value /\ Ends(h, o).value = n.value
<1>1. CASE Removes(n, s)
  <2>1. PICK e : e = [h EXCEPT !.file = "none"]
    OBVIOUS
  <2>2. e \in SysctlHost /\ e.file = "none" /\ e.value = h.value
    BY <2>1 DEF SysctlHost
  <2>3. o \in Done(<<e>>)
    BY <1>1, <2>1 DEF ApplySysctl
  <2>4. o.via \in Seq(SysctlHost) /\ Ends(h, o) = e
    <3>1. e \in SysctlHost
      BY <2>2
    <3> QED
      BY <2>3, <3>1, DoneOne
  <2> QED
    BY <1>1, <2>2, <2>4
<1>2. CASE ~Removes(n, s)
  <2>1. PICK a : a = [h EXCEPT !.value = n.value]
    OBVIOUS
  <2>2. PICK b : b = [value |-> n.value, file |-> n.value]
    OBVIOUS
  <2>3. a \in SysctlHost /\ b \in SysctlHost /\ b.file = n.value /\ b.value = n.value
    BY <2>1, <2>2 DEF SysctlHost
  <2>4. o \in Done(<<a, b>>)
    BY <1>2, <2>1, <2>2 DEF ApplySysctl
  <2>5. o.via \in Seq(SysctlHost) /\ Ends(h, o) = b
    <3>1. a \in SysctlHost /\ b \in SysctlHost
      BY <2>3
    <3>2. o.via = <<a, b>>
      BY <2>4 DEF Done
    <3> QED
      BY <3>1, <3>2 DEF Ends, Last
  <2> QED
    BY <1>2, <2>3, <2>5
<1> QED
  BY <1>1, <1>2

\* applyGroup.
LEMMA GroupCall ==
    ASSUME NEW n, n.gid \in {"unset", "1", "2"}, NEW s, NEW h \in GroupHost, NEW o \in ApplyGroup(n, s, h)
    PROVE  /\ o.via \in Seq(GroupHost)
           /\ Removes(n, s) => Ends(h, o) = NoGroup
           /\ ~Removes(n, s) =>
                Ends(h, o).gid = IF n.gid # "unset" THEN n.gid ELSE IF h.exists THEN h.gid ELSE "1"
           /\ ~Removes(n, s) => Ends(h, o) \in Groups
<1>1. CASE Removes(n, s)
  <2>1. o \in Done(<<NoGroup>>) /\ NoGroup \in GroupHost
    BY <1>1 DEF ApplyGroup, NoGroup, GroupHost
  <2>2. o.via \in Seq(GroupHost) /\ Ends(h, o) = NoGroup
    BY <2>1, DoneOne
  <2> QED
    BY <1>1, <2>2
<1>2. CASE ~Removes(n, s)
  <2>1. PICK g : g = IF n.gid # "unset" THEN n.gid ELSE IF h.exists THEN h.gid ELSE "1"
    OBVIOUS
  <2>2. g \in {"1", "2"}
    <3>1. CASE h = NoGroup
      <4>1. h.exists = FALSE
        BY <3>1 DEF NoGroup
      <4> QED
        BY <2>1, <4>1
    <3>2. CASE h \in Groups
      BY <2>1, <3>2 DEF Groups
    <3> QED
      BY <3>1, <3>2 DEF GroupHost
  <2>3. PICK e : e = [exists |-> TRUE, gid |-> g]
    OBVIOUS
  <2>4. e \in Groups /\ e \in GroupHost
    BY <2>2, <2>3 DEF Groups, GroupHost
  <2>5. o \in Done(<<e>>)
    BY <1>2, <2>1, <2>3 DEF ApplyGroup
  <2>6. o.via \in Seq(GroupHost) /\ Ends(h, o) = e
    <3>1. e \in GroupHost
      BY <2>4
    <3> QED
      BY <2>5, <3>1, DoneOne
  <2> QED
    BY <1>2, <2>1, <2>3, <2>4, <2>6
<1> QED
  BY <1>1, <1>2

\* applyUser: what is not declared is kept.
LEMMA UserCall ==
    ASSUME NEW n, n.shell \in {"unset", "sh", "zsh"}, n.groups \in SUBSET {"g", "w"}, NEW s, NEW h \in UserHost,
           NEW o \in ApplyUser(n, s, h)
    PROVE  /\ o.via \in Seq(UserHost)
           /\ Removes(n, s) => Ends(h, o) = NoUser
           /\ ~Removes(n, s) =>
                /\ Ends(h, o) \in Users
                /\ Ends(h, o).shell = IF n.shell # "unset" THEN n.shell ELSE IF h.exists THEN h.shell ELSE "sh"
                /\ Ends(h, o).primary = IF h.exists THEN h.primary ELSE "own"
                /\ Ends(h, o).groups = IF n.groups # {} THEN n.groups ELSE h.groups
<1>1. CASE Removes(n, s)
  <2>1. o \in Done(<<NoUser>>) /\ NoUser \in UserHost
    BY <1>1 DEF ApplyUser, NoUser, UserHost
  <2>2. o.via \in Seq(UserHost) /\ Ends(h, o) = NoUser
    BY <2>1, DoneOne
  <2> QED
    BY <1>1, <2>2
<1>2. CASE ~Removes(n, s)
  <2>0. (h.exists /\ h \in Users) \/ (~h.exists /\ h = NoUser)
    <3>1. CASE h = NoUser
      BY <3>1 DEF NoUser
    <3>2. CASE h \in Users
      BY <3>2 DEF Users
    <3> QED
      BY <3>1, <3>2 DEF UserHost
  <2>1. PICK sh : sh = IF n.shell # "unset" THEN n.shell ELSE IF h.exists THEN h.shell ELSE "sh"
    OBVIOUS
  <2>2. PICK pr : pr = IF h.exists THEN h.primary ELSE "own"
    OBVIOUS
  <2>3. PICK gs : gs = IF n.groups # {} THEN n.groups ELSE h.groups
    OBVIOUS
  <2>4. sh \in {"sh", "zsh"}
    BY <2>0, <2>1 DEF Users
  <2>5. pr \in {"own", "g"}
    BY <2>0, <2>2 DEF Users
  <2>6. gs \in SUBSET {"g", "w"}
    <3>1. h.groups \in SUBSET {"g", "w"}
      <4>1. CASE h \in Users
        BY <4>1 DEF Users
      <4>2. CASE h = NoUser
        BY <4>2 DEF NoUser
      <4> QED
        BY <2>0, <4>1, <4>2
    <3> QED
      BY <2>3, <3>1
  <2>7. PICK e : e = [exists |-> TRUE, shell |-> sh, primary |-> pr, groups |-> gs]
    OBVIOUS
  <2>8. e \in Users /\ e \in UserHost /\ e.shell = sh /\ e.primary = pr /\ e.groups = gs
    BY <2>4, <2>5, <2>6, <2>7 DEF Users, UserHost
  <2>9. o \in Done(<<e>>)
    BY <1>2, <2>1, <2>2, <2>3, <2>7 DEF ApplyUser
  <2>10. o.via \in Seq(UserHost) /\ Ends(h, o) = e
    <3>1. e \in UserHost
      BY <2>8
    <3>2. o.via = <<e>>
      BY <2>9 DEF Done
    <3> QED
      BY <3>1, <3>2 DEF Ends, Last
  <2> QED
    BY <1>2, <2>1, <2>2, <2>3, <2>8, <2>10, Zenon
<1> QED
  BY <1>1, <1>2

\* applyUserGroupMembership.
LEMMA MemberCall ==
    ASSUME NEW n, n.managed \in BOOLEAN, NEW s, NEW h \in MemberHost, NEW o \in ApplyUserGroupMembership(n, s, h)
    PROVE  /\ o.via \in Seq(MemberHost)
           /\ o.ok => Ends(h, o) \in MemberHost /\ Ends(h, o).primary = h.primary
           /\ o.ok /\ Removes(n, s) => Ends(h, o).primary \/ ~Ends(h, o).member
           /\ o.ok /\ ~Removes(n, s) => Ends(h, o).user /\ Ends(h, o).member
<1>1. CASE Removes(n, s) /\ h.user /\ ~h.primary
  <2>1. PICK e : e = [h EXCEPT !.member = FALSE]
    OBVIOUS
  <2>2. e \in MemberHost /\ e.primary = h.primary
    BY <1>1, <2>1 DEF MemberHost
  <2>3. ~e.member
    BY <2>1 DEF MemberHost
  <2>4. o \in Done(<<e>>)
    BY <1>1, <2>1 DEF ApplyUserGroupMembership
  <2>5. o.via \in Seq(MemberHost) /\ Ends(h, o) = e
    BY <2>2, <2>4, DoneOne
  <2> QED
    BY <1>1, <2>2, <2>3, <2>5, Zenon
<1>2. CASE Removes(n, s) /\ ~(h.user /\ ~h.primary)
  <2>1. o \in Done(<< >>)
    BY <1>2 DEF ApplyUserGroupMembership
  <2>2. o.via \in Seq(MemberHost) /\ Ends(h, o) = h
    BY <2>1, DoneEmpty
  <2>3. h.primary \/ ~h.member
    BY <1>2 DEF MemberHost
  <2> QED
    BY <1>2, <2>2, <2>3, Zenon
<1>3. CASE ~Removes(n, s) /\ (h.user \/ n.managed)
  <2>1. PICK e : e = [[h EXCEPT !.user = @ \/ n.managed] EXCEPT !.member = TRUE]
    OBVIOUS
  <2>2. e \in MemberHost /\ e.primary = h.primary
    BY <1>3, <2>1 DEF MemberHost
  <2>3. e.member /\ e.user
    BY <1>3, <2>1 DEF MemberHost
  <2>4. o \in Done(<<e>>)
    BY <1>3, <2>1 DEF ApplyUserGroupMembership, MemberHost
  <2>5. o.via \in Seq(MemberHost) /\ Ends(h, o) = e
    BY <2>2, <2>4, DoneOne
  <2> QED
    BY <1>3, <2>2, <2>3, <2>5, Zenon
<1>4. CASE ~Removes(n, s) /\ ~(h.user \/ n.managed)
  <2>1. o \in Fails(<< >>)
    BY <1>4 DEF ApplyUserGroupMembership, MemberHost
  <2> QED
    BY <2>1, FailsEmpty, Zenon
<1> QED
  BY <1>1, <1>2, <1>3, <1>4

\* applyAuthorizedKey keeps the other keys.
LEMMA KeyCall ==
    ASSUME NEW n, NEW s, NEW h \in KeyHost, NEW o \in ApplyAuthorizedKey(n, s, h)
    PROVE  /\ o.via \in Seq(KeyHost)
           /\ o.ok => Ends(h, o) \in KeyHost
           /\ o.ok => Ends(h, o).keys \ {"k"} = h.keys \ {"k"}
           /\ o.ok /\ Removes(n, s) => "k" \notin Ends(h, o).keys
           /\ o.ok /\ ~Removes(n, s) => Ends(h, o).user /\ "k" \in Ends(h, o).keys
<1>1. CASE Removes(n, s) /\ h.user
  <2>1. PICK a : a = [h EXCEPT !.keys = {}]
    OBVIOUS
  <2>2. PICK e : e = [h EXCEPT !.keys = @ \ {"k"}]
    OBVIOUS
  <2>3. a \in KeyHost /\ e \in KeyHost /\ e.keys = h.keys \ {"k"}
    BY <1>1, <2>1, <2>2 DEF KeyHost
  <2>4. o \in Done(<<a, e>>)
    BY <1>1, <2>1, <2>2 DEF ApplyAuthorizedKey
  <2>5. o.via \in Seq(KeyHost) /\ Ends(h, o) = e
    BY <2>3, <2>4, DoneTwo
  <2> QED
    BY <1>1, <2>3, <2>5
<1>2. CASE Removes(n, s) /\ ~h.user
  <2>1. o \in Done(<< >>)
    BY <1>2 DEF ApplyAuthorizedKey
  <2>2. o.via \in Seq(KeyHost) /\ Ends(h, o) = h
    BY <2>1, DoneEmpty
  <2>3. h.keys = {}
    BY <1>2 DEF KeyHost
  <2> QED
    BY <1>2, <2>2, <2>3
<1>3. CASE ~Removes(n, s) /\ h.user
  <2>1. PICK e : e = [h EXCEPT !.keys = @ \cup {"k"}]
    OBVIOUS
  <2>2. e \in KeyHost /\ e.keys = h.keys \cup {"k"} /\ e.user = h.user
    BY <1>3, <2>1 DEF KeyHost
  <2>3. o \in Done(<<e>>)
    BY <1>3, <2>1 DEF ApplyAuthorizedKey
  <2>4. o.via \in Seq(KeyHost) /\ Ends(h, o) = e
    BY <2>2, <2>3, DoneOne
  <2> QED
    BY <1>3, <2>2, <2>4
<1>4. CASE ~Removes(n, s) /\ ~h.user
  <2>1. o \in Fails(<< >>)
    BY <1>4 DEF ApplyAuthorizedKey
  <2> QED
    BY <2>1, FailsEmpty, Zenon
<1> QED
  BY <1>1, <1>2, <1>3, <1>4

\* applyService.
LEMMA ServiceCall ==
    ASSUME NEW n, n.enabled \in {"unset", "yes", "no"},
           n.state \in {"unset", "running", "stopped", "restarted", "reloaded"},
           NEW h \in ServiceHost, NEW o \in ApplyService(n, h)
    PROVE  /\ o.via \in Seq(ServiceHost)
           /\ o.ok => Ends(h, o) \in ServiceHost
           /\ o.ok => Ends(h, o).enabled = IF n.enabled = "unset" THEN h.enabled ELSE n.enabled
           /\ o.ok /\ n.state = "unset" => Ends(h, o).active = h.active
           /\ o.ok /\ n.state = "stopped" => ~Ends(h, o).active
           /\ o.ok /\ n.state \in {"running", "restarted", "reloaded"} => Ends(h, o).active
<1>1. PICK able : able = IF n.enabled = "unset" THEN h ELSE [h EXCEPT !.enabled = n.enabled]
  OBVIOUS
<1>2. /\ able \in ServiceHost /\ able.active = h.active
      /\ able.enabled = IF n.enabled = "unset" THEN h.enabled ELSE n.enabled
  BY <1>1 DEF ServiceHost
<1>3. PICK up : up = [able EXCEPT !.active = TRUE]
  OBVIOUS
<1>4. PICK down : down = [able EXCEPT !.active = FALSE]
  OBVIOUS
<1>5. up \in ServiceHost /\ down \in ServiceHost /\ up.enabled = able.enabled /\ down.enabled = able.enabled
  BY <1>2, <1>3, <1>4 DEF ServiceHost
<1>6. up.active /\ ~down.active
  BY <1>2, <1>3, <1>4 DEF ServiceHost
<1>7. CASE n.state = "unset"
  <2>1. o \in Done(<<able>>)
    BY <1>1, <1>7 DEF ApplyService
  <2>2. o.via \in Seq(ServiceHost) /\ Ends(h, o) = able
    BY <1>2, <2>1, DoneOne
  <2> QED
    BY <1>2, <1>7, <2>2
<1>8. CASE n.state \in {"running", "restarted"}
  <2>1. o \in Done(<<able, up>>)
    BY <1>1, <1>3, <1>8 DEF ApplyService
  <2>2. o.via \in Seq(ServiceHost) /\ Ends(h, o) = up
    BY <1>2, <1>5, <2>1, DoneTwo
  <2> QED
    BY <1>2, <1>5, <1>6, <1>8, <2>2
<1>9. CASE n.state = "stopped"
  <2>1. o \in Done(<<able, down>>)
    BY <1>1, <1>4, <1>9 DEF ApplyService
  <2>2. o.via \in Seq(ServiceHost) /\ Ends(h, o) = down
    BY <1>2, <1>5, <2>1, DoneTwo
  <2> QED
    BY <1>2, <1>5, <1>6, <1>9, <2>2
<1>10. CASE n.state = "reloaded" /\ h.active
  <2>1. o \in Done(<<able>>)
    BY <1>1, <1>10 DEF ApplyService
  <2>2. o.via \in Seq(ServiceHost) /\ Ends(h, o) = able
    BY <1>2, <2>1, DoneOne
  <2> QED
    BY <1>2, <1>10, <2>2
<1>11. CASE n.state = "reloaded" /\ ~h.active
  <2>1. o \in Fails(<<able>>)
    BY <1>1, <1>11 DEF ApplyService
  <2>2. <<able>> \in Seq(ServiceHost)
    BY <1>2
  <2> QED
    BY <2>1, <2>2, FailsFact, Zenon
<1> QED
  BY <1>7, <1>8, <1>9, <1>10, <1>11

ComposeNodes ==
    [ensure : Present, project : Project, state : {"running", "stopped", "absent"}, remove_orphans : BOOLEAN]

\* dockerComposeProjectCommand.
LEMMA CommandFact ==
    ASSUME NEW n \in ComposeNodes, NEW st \in {"running", "stopped", "absent"}, NEW c \in Container
    PROVE  LET d == ComposeCommand(n, st, c) IN
           /\ d \in Container /\ d.file = "read"
           /\ d.orphan # c.orphan => n.remove_orphans /\ d.orphan = "none"
           /\ n.remove_orphans /\ st # "stopped" => d.orphan = "none"
           /\ st = "running" => d.svc = "running"
           /\ st = "stopped" => d.svc = IF c.svc = "none" THEN "none" ELSE "stopped"
           /\ st = "stopped" => d.orphan = c.orphan
           /\ st = "absent" => d.svc = "none"
<1>1. CASE st = "running"
  BY <1>1 DEF ComposeCommand, Container, ComposeNodes
<1>2. CASE st = "stopped"
  BY <1>2 DEF ComposeCommand, Container, ComposeNodes
<1>3. CASE st = "absent"
  BY <1>3 DEF ComposeCommand, Container, ComposeNodes
<1> QED
  BY <1>1, <1>2, <1>3

\* The step of the compose file touches only the project of the node.
LEMMA FileStepFact ==
    ASSUME NEW n \in ComposeNodes, NEW h \in ComposeHost, NEW e \in AfterFileStep(n, h)
    PROVE  /\ e \in ComposeHost /\ \A q \in Project \ {n.project} : e[q] = h[q]
           /\ e[n.project] \in Container /\ (e = h \/ e[n.project].file = "late")
           /\ e[n.project].orphan # h[n.project].orphan => h[n.project].orphan = "none"
<1>1. n.project \in Project /\ h[n.project] \in Container
  BY DEF ComposeNodes, ComposeHost
<1>2. PICK d \in FileStep(h[n.project]) : e = [h EXCEPT ![n.project] = d]
  BY DEF AfterFileStep
<1>3. /\ d \in Container /\ (d = h[n.project] \/ d.file = "late")
      /\ d.orphan # h[n.project].orphan => h[n.project].orphan = "none"
  BY <1>1, <1>2 DEF FileStep, Container
<1>4. e \in ComposeHost /\ e[n.project] = d /\ \A q \in Project \ {n.project} : e[q] = h[q]
  BY <1>1, <1>2, <1>3 DEF ComposeHost
<1>5. d = h[n.project] => e = h
  BY <1>1, <1>2 DEF ComposeHost
<1> QED
  BY <1>3, <1>4, <1>5

\* applyDockerComposeProject: the project of the record goes, the others stay.
LEMMA ComposeCall ==
    ASSUME NEW n \in ComposeNodes, NEW p, p = NoRecord \/ p.desired \in ComposeNodes,
           NEW h \in ComposeHost, NEW o \in ApplyDockerComposeProject(n, p, h)
    PROVE  /\ o.via \in Seq(ComposeHost)
           /\ o.ok =>
                /\ Ends(h, o) \in ComposeHost /\ Ends(h, o)[n.project] \in Container
                /\ Ends(h, o)[n.project].file = "read"
                /\ n.state = "running" => Ends(h, o)[n.project].svc = "running"
                /\ n.state = "stopped" => Ends(h, o)[n.project].svc \in {"none", "stopped"}
                /\ n.state = "absent" => Ends(h, o)[n.project].svc = "none"
                /\ n.remove_orphans /\ n.state # "stopped" => Ends(h, o)[n.project].orphan = "none"
                /\ \A q \in Project : Ends(h, o)[q].orphan # h[q].orphan =>
                     q = n.project /\ (n.remove_orphans \/ h[q].orphan = "none")
                /\ \A q \in Project \ {n.project} :
                     Ends(h, o)[q].svc = IF p # NoRecord /\ p.desired.project = q THEN "none" ELSE h[q].svc
<1>0. n.project \in Project /\ n.state \in {"running", "stopped", "absent"}
  BY DEF ComposeNodes
<1>g. PICK g \in AfterFileStep(n, h) : o \in ComposeCommands(n, p, g)
  BY DEF ApplyDockerComposeProject
<1>f. /\ g \in ComposeHost /\ \A q \in Project \ {n.project} : g[q] = h[q]
      /\ g[n.project].orphan # h[n.project].orphan => h[n.project].orphan = "none"
  BY <1>g, FileStepFact
<1>u. CASE g[n.project].file = "unread"
  <2>1. o \in Fails(<<g>>) /\ <<g>> \in Seq(ComposeHost)
    BY <1>f, <1>g, <1>u DEF ComposeCommands
  <2> QED
    BY <2>1, FailsFact, Zenon
<1>r. CASE g[n.project].file # "unread"
  <2>1. PICK down : down = IF p # NoRecord /\ p.desired.project # n.project
                             THEN [g EXCEPT ![p.desired.project].svc = "none"] ELSE g
    OBVIOUS
  <2>2. PICK c : c = ComposeCommand(n, n.state, down[n.project])
    OBVIOUS
  <2>3. PICK e : e = [down EXCEPT ![n.project] = c]
    OBVIOUS
  <2>4. /\ down \in ComposeHost /\ \A q \in Project : down[q].orphan = g[q].orphan
        /\ \A q \in Project \ {n.project} :
             down[q].svc = IF p # NoRecord /\ p.desired.project = q THEN "none" ELSE g[q].svc
    <3>1. CASE p # NoRecord /\ p.desired.project # n.project
      <4>1. PICK q0 \in Project : q0 = p.desired.project
        BY <3>1 DEF ComposeNodes
      <4>2. g[q0] \in Container /\ \A q \in Project : g[q] \in Container
        BY <1>f DEF ComposeHost
      <4>3. PICK d : d = [g[q0] EXCEPT !.svc = "none"]
        OBVIOUS
      <4>4. d \in Container /\ d.orphan = g[q0].orphan /\ d.svc = "none"
        BY <4>2, <4>3 DEF Container
      <4>5. down = [g EXCEPT ![q0] = d]
        BY <2>1, <3>1, <4>1, <4>3
      <4> QED
        BY <1>f, <3>1, <4>1, <4>2, <4>4, <4>5 DEF ComposeHost
    <3>2. CASE ~(p # NoRecord /\ p.desired.project # n.project)
      BY <1>f, <2>1, <3>2
    <3> QED
      BY <3>1, <3>2
  <2>5. down[n.project] \in Container
    BY <1>0, <2>4 DEF ComposeHost
  <2>6. /\ c \in Container /\ c.file = "read"
        /\ c.orphan # down[n.project].orphan => n.remove_orphans
        /\ n.remove_orphans /\ n.state # "stopped" => c.orphan = "none"
        /\ n.state = "running" => c.svc = "running"
        /\ n.state = "stopped" => c.svc \in {"none", "stopped"}
        /\ n.state = "absent" => c.svc = "none"
    BY <1>0, <2>2, <2>5, CommandFact
  <2>7. e \in ComposeHost /\ e[n.project] = c /\ \A q \in Project \ {n.project} : e[q] = down[q]
    BY <1>0, <2>3, <2>4, <2>6 DEF ComposeHost
  <2>8. o \in Done(<<g, down, e>>)
    BY <1>g, <1>r, <2>1, <2>2, <2>3 DEF ComposeCommands
  <2>9. o.via \in Seq(ComposeHost) /\ Ends(h, o) = e
    BY <1>f, <2>4, <2>7, <2>8, DoneThree
  <2>10. \A q \in Project : e[q].orphan # h[q].orphan =>
           q = n.project /\ (n.remove_orphans \/ h[q].orphan = "none")
    BY <1>0, <1>f, <2>4, <2>6, <2>7
  <2>11. \A q \in Project \ {n.project} :
           e[q].svc = IF p # NoRecord /\ p.desired.project = q THEN "none" ELSE h[q].svc
    BY <1>f, <2>4, <2>7
  <2> QED
    BY <2>6, <2>7, <2>9, <2>10, <2>11
<1> QED
  BY <1>u, <1>r

\* applySystemHostname, applySystemTimezone, applySystemLocale.
LEMMA SettingCall ==
    ASSUME NEW n, n.value \in {"x", "y"}, NEW h \in SettingHost,
           NEW o \in ApplySystemHostname(n, h) \cup ApplySystemTimezone(n, h) \cup ApplySystemLocale(n, h)
    PROVE  /\ o.via \in Seq(SettingHost)
           /\ o.ok => Ends(h, o) \in SettingHost /\ Ends(h, o).value = n.value
           /\ o.ok /\ o \in ApplySystemTimezone(n, h) \cup ApplySystemLocale(n, h) => Ends(h, o).available
<1>1. PICK set : set = [h EXCEPT !.value = n.value]
  OBVIOUS
<1>2. set \in SettingHost /\ set.value = n.value /\ set.available = h.available
  BY <1>1 DEF SettingHost
<1>3. PICK gen : gen = [h EXCEPT !.available = TRUE]
  OBVIOUS
<1>4. PICK both : both = [gen EXCEPT !.value = n.value]
  OBVIOUS
<1>5. gen \in SettingHost /\ both \in SettingHost /\ both.value = n.value
  BY <1>3, <1>4 DEF SettingHost
<1>6. both.available
  BY <1>3, <1>4 DEF SettingHost
<1>7. CASE o \in Fails(<< >>)
  BY <1>7, FailsEmpty, Zenon
<1>8. ASSUME o \in ApplySystemHostname(n, h) /\ o \notin Fails(<< >>)
      PROVE  o.via \in Seq(SettingHost) /\ Ends(h, o) \in SettingHost /\ Ends(h, o).value = n.value
  <2>1. o \in Done(<<set>>)
    BY <1>1, <1>8 DEF ApplySystemHostname
  <2>2. o.via \in Seq(SettingHost) /\ Ends(h, o) = set
    BY <1>2, <2>1, DoneOne
  <2> QED
    BY <1>2, <1>8, <2>2
<1>9. CASE o \in ApplySystemTimezone(n, h) /\ o \notin Fails(<< >>)
  <2>1. o \in Done(<<set>>)
    BY <1>1, <1>9 DEF ApplySystemTimezone
  <2>2. h.available
    BY <1>9 DEF ApplySystemTimezone
  <2>3. o.via \in Seq(SettingHost) /\ Ends(h, o) = set
    BY <1>2, <2>1, DoneOne
  <2> QED
    BY <1>2, <2>2, <2>3
<1>10. CASE o \in ApplySystemLocale(n, h) /\ o \notin Fails(<< >>)
  <2>1. o \in Done(<<gen, both>>)
    BY <1>3, <1>4, <1>10 DEF ApplySystemLocale
  <2>2. o.via \in Seq(SettingHost) /\ Ends(h, o) = both
    BY <1>5, <2>1, DoneTwo
  <2> QED
    BY <1>5, <1>6, <2>2
<1> QED
  BY <1>7, <1>8, <1>9, <1>10

-----------------------------------------------------------------------------
(* Every kind.                                                             *)

\* The hosts of each kind.
LEMMA HostSpaceOf ==
    /\ \A k \in PathKinds : HostSpace(k) = PathHost
    /\ HostSpace("package") = PackageHost
    /\ HostSpace("docker_package_conflicts") = ConflictHost
    /\ HostSpace("kernel_module") = KernelHost
    /\ HostSpace("sysctl") = SysctlHost
    /\ HostSpace("group") = GroupHost
    /\ HostSpace("user") = UserHost
    /\ HostSpace("user_group_membership") = MemberHost
    /\ HostSpace("ssh_authorized_key") = KeyHost
    /\ HostSpace("service") = ServiceHost
    /\ HostSpace("docker_compose_project") = ComposeHost
    /\ HostSpace("system_hostname") = SettingHost
    /\ HostSpace("system_timezone") = SettingHost
    /\ HostSpace("system_locale") = SettingHost
  BY DEF HostSpace, PathKinds

\* What others make of a host is a host.
LEMMA PathHosts ==
    /\ Hosts("file") = [path : Paths, aside : {Missing}]
    /\ Hosts("directory") = [path : Paths, aside : {Missing}]
    /\ Hosts("apt_source_file") = [path : Paths, aside : {Missing}]
    /\ Hosts("apt_signing_key") = [path : Paths, aside : {Missing}]
    /\ Hosts("component_download") = [path : Paths, aside : {Missing}]
    /\ Hosts("component_build") = [path : Paths, aside : {Missing}]
    /\ Hosts("component_binary") = [path : Paths, aside : {Missing}]
    /\ Hosts("component_file") = [path : Paths, aside : {Missing}]
    /\ Hosts("component_archive") = [path : Paths, aside : {Missing}]
    /\ Hosts("component_script_output") = [path : Paths, aside : {Missing}]
  BY DEF Hosts, PathKinds

\* The hosts that others may leave are hosts of the kind.
LEMMA HostsFit ==
    ASSUME NEW k \in AllKinds, NEW h \in Hosts(k) PROVE h \in HostSpace(k)
<1>1. CASE k \in PathKinds
  <2>1. Missing \in Entry /\ File("link", "root") \in Entry
    BY DEF Missing, File, Entry, Contents, Content
  <2>2. \A p \in Paths : p \in PathSpace /\ p \in Entry
    BY DEF Paths, PathSpace, Entry, Contents, Content, Missing, File, Dir, Fits
  <2>3. CASE k = "networkd_netdev"
    <3>1. h \in [path : Paths, aside : {Missing, File("link", "root")}]
      BY <2>3 DEF Hosts
    <3> QED
      BY <1>1, <2>1, <2>2, <3>1, HostSpaceOf DEF PathHost
  <2>4. CASE k = "systemd_unit"
    <3>1. PICK p \in Paths : h = [path |-> p, aside |-> p]
      BY <2>4 DEF Hosts
    <3> QED
      BY <1>1, <2>1, <2>2, <3>1, HostSpaceOf DEF PathHost
  <2>5. CASE k \notin {"networkd_netdev", "systemd_unit"}
    <3>1. h \in [path : Paths, aside : {Missing}]
      BY <1>1, <2>5, PathHosts DEF PathKinds
    <3> QED
      BY <1>1, <2>1, <2>2, <3>1, HostSpaceOf DEF PathHost
  <2> QED
    BY <2>3, <2>4, <2>5
<1>2. CASE k = "package"
  <2>1. h \in PackageHost
    BY <1>2 DEF Hosts, PathKinds, PackageHost
  <2> QED
    BY <1>2, <2>1, HostSpaceOf
<1>3. CASE k = "docker_package_conflicts"
  <2>1. h \in ConflictHost
    BY <1>3 DEF Hosts, PathKinds, ConflictHost
  <2> QED
    BY <1>3, <2>1, HostSpaceOf
<1>4. CASE k = "kernel_module"
  <2>1. h \in KernelHost
    BY <1>4 DEF Hosts, PathKinds, KernelHost
  <2> QED
    BY <1>4, <2>1, HostSpaceOf
<1>5. CASE k = "sysctl"
  <2>1. h \in SysctlHost
    BY <1>5 DEF Hosts, PathKinds, SysctlHost
  <2> QED
    BY <1>5, <2>1, HostSpaceOf
<1>6. CASE k = "group"
  <2>1. Hosts("group") = GroupHost
    BY DEF Hosts, PathKinds, GroupHost, NoGroup, Groups
  <2> QED
    BY <1>6, <2>1, HostSpaceOf
<1>7. CASE k = "user"
  <2>1. Hosts("user") = UserHost
    BY DEF Hosts, PathKinds, UserHost, NoUser, Users
  <2> QED
    BY <1>7, <2>1, HostSpaceOf
<1>8. CASE k = "user_group_membership"
  <2>1. h \in MemberHost
    BY <1>8 DEF Hosts, PathKinds, MemberHost
  <2> QED
    BY <1>8, <2>1, HostSpaceOf
<1>9. CASE k = "ssh_authorized_key"
  <2>1. h \in KeyHost
    BY <1>9 DEF Hosts, PathKinds, KeyHost
  <2> QED
    BY <1>9, <2>1, HostSpaceOf
<1>10. CASE k = "service"
  <2>1. h \in ServiceHost
    BY <1>10 DEF Hosts, PathKinds, ServiceHost
  <2> QED
    BY <1>10, <2>1, HostSpaceOf
<1>11. CASE k = "system_hostname"
  <2>1. h \in SettingHost
    BY <1>11 DEF Hosts, PathKinds, SettingHost
  <2> QED
    BY <1>11, <2>1, HostSpaceOf
<1>12. CASE k = "system_timezone"
  <2>1. h \in SettingHost
    BY <1>12 DEF Hosts, PathKinds, SettingHost
  <2> QED
    BY <1>12, <2>1, HostSpaceOf
<1>13. CASE k = "system_locale"
  <2>1. h \in SettingHost
    BY <1>13 DEF Hosts, PathKinds, SettingHost
  <2> QED
    BY <1>13, <2>1, HostSpaceOf
<1>14. CASE k = "docker_compose_project"
  <2>1. PICK c \in Container : h = [p1 |-> c, p2 |-> [svc |-> "none", orphan |-> "none", file |-> c.file]]
    BY <1>14 DEF Hosts, PathKinds, Container
  <2>2. PICK none : none = [svc |-> "none", orphan |-> "none", file |-> c.file]
    OBVIOUS
  <2>3. none \in Container /\ h = [p1 |-> c, p2 |-> none]
    BY <2>1, <2>2 DEF Container
  <2>4. h \in ComposeHost
    BY <2>1, <2>3 DEF ComposeHost, Project
  <2> QED
    BY <1>14, <2>4, HostSpaceOf
<1> QED
  BY <1>1, <1>2, <1>3, <1>4, <1>5, <1>6, <1>7, <1>8, <1>9, <1>10, <1>11, <1>12, <1>13, <1>14 DEF AllKinds

\* Apply of the other kinds.
LEMMA ApplyOther ==
    ASSUME NEW n, NEW s, NEW p, NEW h
    PROVE  /\ ProviderApply("directory", n, s, p, h) = ApplyDirectory(n, s, h)
           /\ ProviderApply("apt_source_file", n, s, p, h) = ApplyAptSourceFile(n, s, p, h)
           /\ ProviderApply("component_archive", n, s, p, h) = ApplyComponentArchive(n, s, h)
           /\ ProviderApply("component_script_output", n, s, p, h) = RunScript(h)
           /\ ProviderApply("package", n, s, p, h) = ApplyPackage(n, s, h)
           /\ ProviderApply("docker_package_conflicts", n, s, p, h) = ApplyDockerPackageConflicts(s, h)
           /\ ProviderApply("kernel_module", n, s, p, h) = ApplyKernelModule(n, s, h)
           /\ ProviderApply("sysctl", n, s, p, h) = ApplySysctl(n, s, h)
           /\ ProviderApply("group", n, s, p, h) = ApplyGroup(n, s, h)
           /\ ProviderApply("user", n, s, p, h) = ApplyUser(n, s, h)
           /\ ProviderApply("user_group_membership", n, s, p, h) = ApplyUserGroupMembership(n, s, h)
           /\ ProviderApply("ssh_authorized_key", n, s, p, h) = ApplyAuthorizedKey(n, s, h)
           /\ ProviderApply("service", n, s, p, h) = ApplyService(n, h)
           /\ ProviderApply("docker_compose_project", n, s, p, h) = ApplyDockerComposeProject(n, p, h)
           /\ ProviderApply("system_hostname", n, s, p, h) = ApplySystemHostname(n, h)
           /\ ProviderApply("system_timezone", n, s, p, h) = ApplySystemTimezone(n, h)
           /\ ProviderApply("system_locale", n, s, p, h) = ApplySystemLocale(n, h)
  BY DEF ProviderApply

\* Plan of every kind.
LEMMA PlanDispatch ==
    ASSUME NEW n, NEW p, NEW h
    PROVE  /\ ProviderPlan("file", n, p, h) = PlanFileLike(n, p, h)
           /\ ProviderPlan("systemd_unit", n, p, h) = PlanFileLike(n, p, h)
           /\ ProviderPlan("networkd_netdev", n, p, h) = PlanFileLike(n, p, h)
           /\ ProviderPlan("directory", n, p, h) = PlanDirectory(n, p, h)
           /\ ProviderPlan("apt_source_file", n, p, h) = PlanAptSourceFile(n, p, h)
           /\ ProviderPlan("apt_signing_key", n, p, h) = PlanAptSigningKey(n, p, h)
           /\ ProviderPlan("component_download", n, p, h) = PlanComponentDownload(n, p, h)
           /\ ProviderPlan("component_build", n, p, h) = PlanComponentBuild(n, p, h)
           /\ ProviderPlan("component_binary", n, p, h) = PlanComponentBinary(n, p, h)
           /\ ProviderPlan("component_file", n, p, h) = PlanComponentFile(n, p, h)
           /\ ProviderPlan("component_archive", n, p, h) = PlanComponentArchive(n, p, h)
           /\ ProviderPlan("component_script_output", n, p, h) = PlanComponentScriptOutput(n, p, h)
           /\ ProviderPlan("package", n, p, h) = PlanPackage(n, p, h)
           /\ ProviderPlan("docker_package_conflicts", n, p, h) = PlanDockerPackageConflicts(n, p, h)
           /\ ProviderPlan("kernel_module", n, p, h) = PlanKernelModule(n, p, h)
           /\ ProviderPlan("sysctl", n, p, h) = PlanSysctl(n, p, h)
           /\ ProviderPlan("group", n, p, h) = PlanGroup(n, p, h)
           /\ ProviderPlan("user", n, p, h) = PlanUser(n, p, h)
           /\ ProviderPlan("user_group_membership", n, p, h) = PlanUserGroupMembership(n, p, h)
           /\ ProviderPlan("ssh_authorized_key", n, p, h) = PlanAuthorizedKey(n, p, h)
           /\ ProviderPlan("service", n, p, h) = PlanService(n, p, h)
           /\ ProviderPlan("docker_compose_project", n, p, h) = PlanDockerComposeProject(n, p, h)
           /\ ProviderPlan("system_hostname", n, p, h) = PlanSystemHostname(n, p, h)
           /\ ProviderPlan("system_timezone", n, p, h) = PlanSystemTimezone(n, p, h)
           /\ ProviderPlan("system_locale", n, p, h) = PlanSystemLocale(n, p, h)
  BY DEF ProviderPlan

\* The declarations of the other kinds.
LEMMA OtherNodes ==
    /\ \A k \in {"apt_source_file", "component_archive"} : \A n \in Nodes(k) :
         n.content \in Content /\ n.ensure \in Either
    /\ \A n \in Nodes("apt_source_file") :
         /\ n.on_destroy \in {"keep", "restore"} /\ n.sensitive \in BOOLEAN
         /\ ~(n.sensitive /\ n.on_destroy = "restore")
    /\ \A n \in Nodes("sysctl") : n.value \in {"1", "2", "4_5"} /\ n.ensure \in Either
    /\ \A n \in Nodes("group") : n.gid \in {"unset", "1", "2"} /\ n.ensure \in Either
    /\ \A n \in Nodes("user") :
         n.shell \in {"unset", "sh", "zsh"} /\ n.groups \in SUBSET {"g", "w"} /\ n.ensure \in Either
    /\ \A n \in Nodes("user_group_membership") : n.managed \in BOOLEAN /\ n.ensure \in Either
    /\ \A n \in Nodes("service") :
         /\ n.enabled \in {"unset", "yes", "no"}
         /\ n.state \in {"unset", "running", "stopped", "restarted", "reloaded"}
    /\ Nodes("docker_compose_project") = ComposeNodes
    /\ \A k \in {"system_hostname", "system_timezone", "system_locale"} : \A n \in Nodes(k) : n.value \in {"x", "y"}
    /\ \A k \in {"directory", "package", "kernel_module", "ssh_authorized_key"} : \A n \in Nodes(k) :
         n.ensure \in Either
    /\ \A k \in {"component_script_output", "docker_package_conflicts", "service", "docker_compose_project",
                  "system_hostname", "system_timezone", "system_locale"} : \A n \in Nodes(k) : n.ensure = "present"
<1>1. \A n \in Nodes("apt_source_file") :
        /\ n.content \in Content /\ n.ensure \in Either
        /\ n.on_destroy \in {"keep", "restore"} /\ n.sensitive \in BOOLEAN
        /\ ~(n.sensitive /\ n.on_destroy = "restore")
  BY DEF Nodes
<1>2. \A n \in Nodes("component_archive") : n.content \in Content /\ n.ensure \in Either
  BY DEF Nodes
<1>3. \A n \in Nodes("sysctl") : n.value \in {"1", "2", "4_5"} /\ n.ensure \in Either
  BY DEF Nodes
<1>4. \A n \in Nodes("group") : n.gid \in {"unset", "1", "2"} /\ n.ensure \in Either
  BY DEF Nodes
<1>5. \A n \in Nodes("user") :
        n.shell \in {"unset", "sh", "zsh"} /\ n.groups \in SUBSET {"g", "w"} /\ n.ensure \in Either
  BY DEF Nodes
<1>6. \A n \in Nodes("user_group_membership") : n.managed \in BOOLEAN /\ n.ensure \in Either
  BY DEF Nodes
<1>7. \A n \in Nodes("service") :
        /\ n.enabled \in {"unset", "yes", "no"} /\ n.ensure = "present"
        /\ n.state \in {"unset", "running", "stopped", "restarted", "reloaded"}
  BY DEF Nodes, Present
<1>8. Nodes("docker_compose_project") = ComposeNodes /\ \A n \in ComposeNodes : n.ensure = "present"
  BY NodesOf DEF ComposeNodes, Present
<1>9. \A k \in {"system_hostname", "system_timezone", "system_locale"} : \A n \in Nodes(k) :
        n.value \in {"x", "y"} /\ n.ensure = "present"
  BY DEF Nodes, Present
<1>10. \A k \in {"directory", "package", "kernel_module", "ssh_authorized_key"} : \A n \in Nodes(k) :
         n.ensure \in Either
  <2>1. /\ \A k \in {"directory", "kernel_module", "ssh_authorized_key"} : Nodes(k) = [ensure : Either]
        /\ Nodes("package") = [ensure : Either, policy : {"unset", "keep", "replace"}]
    BY NodesOf, Zenon
  <2>2. /\ \A n \in [ensure : Either] : n.ensure \in Either
        /\ \A n \in [ensure : Either, policy : {"unset", "keep", "replace"}] : n.ensure \in Either
    OBVIOUS
  <2> QED
    BY <2>1, <2>2, Zenon
<1>11. \A k \in {"component_script_output", "docker_package_conflicts"} : \A n \in Nodes(k) : n.ensure = "present"
  <2>1. /\ Nodes("component_script_output") = [ensure : Present, script : Content]
        /\ Nodes("docker_package_conflicts") = [ensure : Present, remove_conflicts : {"auto", "true", "false"}]
    BY NodesOf, Zenon
  <2>2. /\ \A n \in [ensure : Present, script : Content] : n.ensure = "present"
        /\ \A n \in [ensure : Present, remove_conflicts : {"auto", "true", "false"}] : n.ensure = "present"
    BY DEF Present
  <2> QED
    BY <2>1, <2>2, Zenon
<1> QED
  BY <1>1, <1>2, <1>3, <1>4, <1>5, <1>6, <1>7, <1>8, <1>9, <1>10, <1>11

LEMMA RecordFact ==
    ASSUME NEW k \in AllKinds, NEW p \in RecordSpace(k)
    PROVE  /\ p.desired \in Nodes(k) /\ p.owner \in {"managed", "adopted"}
           /\ p.original \in PathSpace \cup {NoOriginal} /\ p.sha \in Contents
  BY DEF RecordSpace

\* Every command of a call leaves a host.
LEMMA ApplyCloses ==
    ASSUME NEW k \in AllKinds, NEW n \in Nodes(k), NEW s, NEW p, p = NoRecord \/ p \in RecordSpace(k),
           NEW h \in HostSpace(k), NEW o \in ProviderApply(k, n, s, p, h)
    PROVE  o.via \in Seq(HostSpace(k))
<1>1. CASE k \in InstallKinds
  <2>1. HostSpace(k) = PathHost
    BY <1>1, HostSpaceOf DEF InstallKinds, PathKinds
  <2> QED
    BY <1>1, <2>1, InstallCall
<1>2. CASE k = "directory"
  <2>1. HostSpace(k) = PathHost
    BY <1>2, HostSpaceOf DEF PathKinds
  <2>2. o \in ApplyDirectory(n, s, h)
    BY <1>2, ApplyOther
  <2> QED
    BY <2>1, <2>2, DirectoryCall
<1>3. CASE k = "apt_source_file"
  <2>1. HostSpace(k) = PathHost
    BY <1>3, HostSpaceOf DEF PathKinds
  <2>2. o \in ApplyAptSourceFile(n, s, p, h)
    BY <1>3, ApplyOther
  <2>3. n.content \in Content /\ (p # NoRecord => p.original \in PathSpace \cup {NoOriginal})
    BY <1>3, OtherNodes, RecordFact
  <2> QED
    BY <2>1, <2>2, <2>3, AptSourceCall
<1>4. CASE k = "component_archive"
  <2>1. HostSpace(k) = PathHost
    BY <1>4, HostSpaceOf DEF PathKinds
  <2>2. o \in ApplyComponentArchive(n, s, h)
    BY <1>4, ApplyOther
  <2>3. n.content \in Content
    BY <1>4, OtherNodes
  <2> QED
    BY <2>1, <2>2, <2>3, ArchiveCall
<1>5. CASE k = "component_script_output"
  <2>1. HostSpace(k) = PathHost
    BY <1>5, HostSpaceOf DEF PathKinds
  <2>2. o \in RunScript(h)
    BY <1>5, ApplyOther
  <2> QED
    BY <2>1, <2>2, ScriptCall
<1>6. CASE k = "package"
  <2>1. HostSpace(k) = PackageHost
    BY <1>6, HostSpaceOf DEF PathKinds
  <2>2. o \in ApplyPackage(n, s, h)
    BY <1>6, ApplyOther
  <2> QED
    BY <2>1, <2>2, PackageCall
<1>7. CASE k = "docker_package_conflicts"
  <2>1. HostSpace(k) = ConflictHost
    BY <1>7, HostSpaceOf DEF PathKinds
  <2>2. o \in ApplyDockerPackageConflicts(s, h)
    BY <1>7, ApplyOther
  <2> QED
    BY <2>1, <2>2, ConflictCall
<1>8. CASE k = "kernel_module"
  <2>1. HostSpace(k) = KernelHost
    BY <1>8, HostSpaceOf DEF PathKinds
  <2>2. o \in ApplyKernelModule(n, s, h)
    BY <1>8, ApplyOther
  <2> QED
    BY <2>1, <2>2, KernelCall
<1>9. CASE k = "sysctl"
  <2>1. HostSpace(k) = SysctlHost
    BY <1>9, HostSpaceOf DEF PathKinds
  <2>2. o \in ApplySysctl(n, s, h)
    BY <1>9, ApplyOther
  <2>3. n.value \in {"1", "2", "4_5"}
    BY <1>9, OtherNodes
  <2> QED
    BY <2>1, <2>2, <2>3, SysctlCall
<1>10. CASE k = "group"
  <2>1. HostSpace(k) = GroupHost
    BY <1>10, HostSpaceOf DEF PathKinds
  <2>2. o \in ApplyGroup(n, s, h)
    BY <1>10, ApplyOther
  <2>3. n.gid \in {"unset", "1", "2"}
    BY <1>10, OtherNodes
  <2>4. h \in GroupHost
    BY <2>1
  <2>5. o.via \in Seq(GroupHost)
    BY <2>2, <2>3, <2>4, GroupCall
  <2> QED
    BY <2>1, <2>5
<1>11. CASE k = "user"
  <2>1. HostSpace(k) = UserHost
    BY <1>11, HostSpaceOf DEF PathKinds
  <2>2. o \in ApplyUser(n, s, h)
    BY <1>11, ApplyOther
  <2>3. n.shell \in {"unset", "sh", "zsh"} /\ n.groups \in SUBSET {"g", "w"}
    BY <1>11, OtherNodes
  <2> QED
    BY <2>1, <2>2, <2>3, UserCall
<1>12. CASE k = "user_group_membership"
  <2>1. HostSpace(k) = MemberHost
    BY <1>12, HostSpaceOf DEF PathKinds
  <2>2. o \in ApplyUserGroupMembership(n, s, h)
    BY <1>12, ApplyOther
  <2>3. n.managed \in BOOLEAN
    BY <1>12, OtherNodes
  <2> QED
    BY <2>1, <2>2, <2>3, MemberCall
<1>13. CASE k = "ssh_authorized_key"
  <2>1. HostSpace(k) = KeyHost
    BY <1>13, HostSpaceOf DEF PathKinds
  <2>2. o \in ApplyAuthorizedKey(n, s, h)
    BY <1>13, ApplyOther
  <2> QED
    BY <2>1, <2>2, KeyCall
<1>14. CASE k = "service"
  <2>1. HostSpace(k) = ServiceHost
    BY <1>14, HostSpaceOf DEF PathKinds
  <2>2. o \in ApplyService(n, h)
    BY <1>14, ApplyOther
  <2>3. /\ n.enabled \in {"unset", "yes", "no"}
        /\ n.state \in {"unset", "running", "stopped", "restarted", "reloaded"}
    BY <1>14, OtherNodes
  <2> QED
    BY <2>1, <2>2, <2>3, ServiceCall
<1>15. CASE k = "docker_compose_project"
  <2>1. HostSpace(k) = ComposeHost
    BY <1>15, HostSpaceOf DEF PathKinds
  <2>2. o \in ApplyDockerComposeProject(n, p, h)
    BY <1>15, ApplyOther
  <2>3. n \in ComposeNodes /\ (p = NoRecord \/ p.desired \in ComposeNodes)
    BY <1>15, OtherNodes, RecordFact
  <2> QED
    BY <2>1, <2>2, <2>3, ComposeCall
<1>16. CASE k = "system_hostname"
  <2>1. HostSpace(k) = SettingHost
    BY <1>16, HostSpaceOf DEF PathKinds
  <2>2. o \in ApplySystemHostname(n, h)
    BY <1>16, ApplyOther
  <2>3. n.value \in {"x", "y"}
    BY <1>16, OtherNodes
  <2> QED
    BY <2>1, <2>2, <2>3, SettingCall
<1>17. CASE k = "system_timezone"
  <2>1. HostSpace(k) = SettingHost
    BY <1>17, HostSpaceOf DEF PathKinds
  <2>2. o \in ApplySystemTimezone(n, h)
    BY <1>17, ApplyOther
  <2>3. n.value \in {"x", "y"}
    BY <1>17, OtherNodes
  <2> QED
    BY <2>1, <2>2, <2>3, SettingCall
<1>18. CASE k = "system_locale"
  <2>1. HostSpace(k) = SettingHost
    BY <1>18, HostSpaceOf DEF PathKinds
  <2>2. o \in ApplySystemLocale(n, h)
    BY <1>18, ApplyOther
  <2>3. n.value \in {"x", "y"}
    BY <1>18, OtherNodes
  <2> QED
    BY <2>1, <2>2, <2>3, SettingCall
<1> QED
  BY <1>1, <1>2, <1>3, <1>4, <1>5, <1>6, <1>7, <1>8, <1>9, <1>10, <1>11, <1>12, <1>13, <1>14, <1>15,
     <1>16, <1>17, <1>18 DEF AllKinds, PathKinds, InstallKinds

\* Destroy of every kind.
LEMMA DestroyDispatch ==
    ASSUME NEW p, NEW h
    PROVE  LET s == Step(p, "delete", [Blank EXCEPT !.installed = {"pkg"}]) IN
           /\ ProviderDestroy("apt_source_file", p, h) = DestroyAptSourceFile(p, h)
           /\ ProviderDestroy("networkd_netdev", p, h) = DestroyNetworkdNetDev(h)
           /\ ProviderDestroy("systemd_unit", p, h) = ApplyFileLike(p.desired, s, h, TRUE)
           /\ \A k \in {"file", "apt_signing_key", "component_download", "component_build", "component_binary",
                        "component_file"} : ProviderDestroy(k, p, h) = RemovePath(h)
           /\ \A k \in {"directory", "component_archive"} : ProviderDestroy(k, p, h) = RemoveDirectory(h)
           /\ \A k \in {"package", "sysctl", "group", "user", "kernel_module", "user_group_membership",
                        "ssh_authorized_key"} : ProviderDestroy(k, p, h) = ProviderApply(k, p.desired, s, p, h)
           /\ ProviderDestroy("service", p, h) = Done(<< >>) \cup Done(<<[enabled |-> "no", active |-> FALSE]>>)
           /\ ProviderDestroy("docker_compose_project", p, h) = DestroyDockerComposeProject(p.desired, h)
           /\ \A k \in {"docker_package_conflicts", "component_script_output", "system_hostname",
                        "system_timezone", "system_locale"} : ProviderDestroy(k, p, h) = Done(<< >>)
  BY DEF ProviderDestroy

\* ProviderDestroy applies a deletion to these kinds.
DestroyStep(p) == Step(p, "delete", [Blank EXCEPT !.installed = {"pkg"}])

LEMMA DestroyStepRemoves == \A n, p : Removes(n, DestroyStep(p)) /\ DestroyStep(p).seen.installed = {"pkg"}
  BY DEF Removes, DestroyStep, Step, Blank

\* Destroy of a Compose project.
LEMMA ComposeDown ==
    ASSUME NEW d \in ComposeNodes, NEW h \in ComposeHost,
           NEW o \in DestroyDockerComposeProject(d, h)
    PROVE  o.via \in Seq(ComposeHost)
<1>1. d.project \in Project /\ h[d.project] \in Container
  BY DEF ComposeNodes, ComposeHost
<1>2. PICK c : c = ComposeCommand(d, "absent", h[d.project])
  OBVIOUS
<1>3. c \in Container
  BY <1>1, <1>2, CommandFact
<1>4. PICK e : e = [h EXCEPT ![d.project] = c]
  OBVIOUS
<1>5. e \in ComposeHost
  BY <1>1, <1>3, <1>4 DEF ComposeHost
<1>6. o \in Done(<<e>>) \/ o \in Fails(<< >>)
  BY <1>2, <1>4 DEF DestroyDockerComposeProject
<1>7. << >> \in Seq(ComposeHost)
  OBVIOUS
<1>8. o \in Fails(<< >>) => o.via \in Seq(ComposeHost)
  BY <1>7, FailsFact, Zenon
<1> QED
  BY <1>5, <1>6, <1>8, DoneOne

\* Destroy goes through hosts of the kind only.
LEMMA DestroyCloses ==
    ASSUME NEW k \in AllKinds, NEW p \in RecordSpace(k), p # NoRecord, NEW h \in HostSpace(k),
           NEW o \in ProviderDestroy(k, p, h)
    PROVE  o.via \in Seq(HostSpace(k))
<1>0. p.desired \in Nodes(k) /\ p.original \in PathSpace \cup {NoOriginal}
  BY RecordFact
<1>1. CASE k = "apt_source_file"
  <2>1. h \in PathHost /\ HostSpace(k) = PathHost
    BY <1>1, HostSpaceOf DEF PathKinds
  <2>2. o \in DestroyAptSourceFile(p, h)
    BY <1>1, DestroyDispatch
  <2> QED
    BY <1>0, <2>1, <2>2, AptSourceDestroy
<1>2. CASE k = "networkd_netdev"
  <2>1. h \in PathHost /\ HostSpace(k) = PathHost
    BY <1>2, HostSpaceOf DEF PathKinds
  <2>2. o \in DestroyNetworkdNetDev(h)
    BY <1>2, DestroyDispatch
  <2> QED
    BY <2>1, <2>2, NetDevDestroy
<1>3. CASE k = "systemd_unit"
  <2>1. h \in PathHost /\ HostSpace(k) = PathHost
    BY <1>3, HostSpaceOf DEF PathKinds
  <2>2. o \in ApplyFileLike(p.desired, DestroyStep(p), h, TRUE)
    BY <1>3, DestroyDispatch DEF DestroyStep
  <2>3. p.desired.content \in Content
    BY <1>0, <1>3, InstallNodes DEF InstallKinds
  <2> QED
    BY <2>1, <2>2, <2>3, FileLikeCall
<1>4. CASE k \in {"file", "apt_signing_key", "component_download", "component_build", "component_binary",
                  "component_file"}
  <2>1. h \in PathHost /\ HostSpace(k) = PathHost
    BY <1>4, HostSpaceOf DEF PathKinds
  <2>2. o \in RemovePath(h)
    BY <1>4, DestroyDispatch, Zenon
  <2> QED
    BY <2>1, <2>2, RemoveTakes
<1>5. CASE k \in {"directory", "component_archive"}
  <2>1. h \in PathHost /\ HostSpace(k) = PathHost
    BY <1>5, HostSpaceOf DEF PathKinds
  <2>2. o \in RemoveDirectory(h)
    BY <1>5, DestroyDispatch, Zenon
  <2> QED
    BY <2>1, <2>2, RemoveDirectoryCall
<1>6. CASE k \in {"package", "sysctl", "group", "user", "kernel_module", "user_group_membership",
                  "ssh_authorized_key"}
  <2>1. o \in ProviderApply(k, p.desired, DestroyStep(p), p, h)
    BY <1>6, DestroyDispatch, Zenon DEF DestroyStep
  <2> QED
    BY <1>0, <2>1, ApplyCloses
<1>7. CASE k = "service"
  <2>1. h \in ServiceHost /\ HostSpace(k) = ServiceHost
    BY <1>7, HostSpaceOf
  <2>2. PICK e : e = [enabled |-> "no", active |-> FALSE]
    OBVIOUS
  <2>3. e \in ServiceHost
    BY <2>2 DEF ServiceHost
  <2>4. o \in Done(<< >>) \/ o \in Done(<<e>>)
    BY <1>7, <2>2, DestroyDispatch
  <2> QED
    BY <2>1, <2>3, <2>4, DoneEmpty, DoneOne
<1>8. CASE k = "docker_compose_project"
  <2>1. h \in ComposeHost /\ HostSpace(k) = ComposeHost
    BY <1>8, HostSpaceOf
  <2>2. PICK d \in ComposeNodes : d = p.desired
    BY <1>0, <1>8, OtherNodes
  <2>3. o \in DestroyDockerComposeProject(d, h)
    BY <1>8, <2>2, DestroyDispatch
  <2> QED
    BY <2>1, <2>3, ComposeDown
<1>9. CASE k \in {"docker_package_conflicts", "component_script_output", "system_hostname",
                  "system_timezone", "system_locale"}
  <2>1. o \in Done(<< >>)
    <3>1. ProviderDestroy(k, p, h) = Done(<< >>)
      BY <1>9 DEF ProviderDestroy
    <3> QED
      BY <3>1
  <2> QED
    BY <2>1, DoneEmpty
<1> QED
  BY <1>1, <1>2, <1>3, <1>4, <1>5, <1>6, <1>7, <1>8, <1>9 DEF AllKinds, PathKinds

-----------------------------------------------------------------------------
(* Plans.                                                                  *)

Seen == [original : PathSpace \cup {NoOriginal}, sha : Contents, installed : SUBSET {"pkg", "p", "q"}]
StepSpace ==
    [action : {"error", "no-op", "create", "update", "delete", "adopt", "forget"}, owner : {"managed", "adopted"},
     seen : Seen]

\* The record that a plan compares with.
Prior(p) == p = NoRecord \/ p.owner \in {"managed", "adopted"}

LEMMA StepFact ==
    ASSUME NEW p, Prior(p), NEW seen \in Seen
    PROVE  /\ \A a : /\ Step(p, a, seen).action = a /\ Step(p, a, seen).seen = seen
                     /\ Step(p, a, seen).owner \in {"managed", "adopted"}
           /\ \A a \in {"no-op", "create", "update", "delete", "adopt", "forget"} : Step(p, a, seen) \in StepSpace
           /\ InSync(p, seen) \in StepSpace
           /\ InSync(p, seen).action = IF p = NoRecord THEN "adopt" ELSE "no-op"
           /\ InSync(p, seen).seen = seen
           /\ AbsentInSync(p, seen) \in StepSpace
           /\ AbsentInSync(p, seen).action = IF p = NoRecord THEN "no-op" ELSE "delete"
           /\ AbsentInSync(p, seen).seen = seen
  BY DEF Step, Ownership, InSync, AbsentInSync, StepSpace, Prior

LEMMA BlankFact ==
    Blank \in Seen /\ PlanError \in StepSpace /\ PlanError.action = "error" /\ Blank.original = NoOriginal
  BY DEF Blank, Seen, PlanError, StepSpace, Contents

IsRecord(k, p) == p = NoRecord \/ p \in RecordSpace(k)

LEMMA PriorFact == \A k, p : IsRecord(k, p) => Prior(p)
  BY DEF IsRecord, Prior, RecordSpace

\* aptSourceOriginal gives an entry.
LEMMA OriginalFact ==
    ASSUME NEW p, NEW q \in PathSpace, p # NoRecord => p.original \in PathSpace \cup {NoOriginal}
    PROVE  OriginalFrom(q) \in PathSpace /\ AptSourceOriginal(p, q) \in PathSpace
  BY PathFact DEF OriginalFrom, AptSourceOriginal

\* What Ensured decides.
EnsuredAction(n, p, exists, same) ==
    IF n.ensure = "absent" THEN (IF exists \/ p # NoRecord THEN "delete" ELSE "no-op")
    ELSE IF ~exists THEN "create" ELSE IF ~same THEN "update" ELSE IF p = NoRecord THEN "adopt" ELSE "no-op"

SameFile(n, p, h) ==
    Fits(h.path, "file") /\ IF n.write_only THEN Recorded(n, p) ELSE h.path.content = n.content

\* planFileLike.
LEMMA PlanFileLikeFact ==
    ASSUME NEW n, n.write_only \in BOOLEAN, NEW p, Prior(p), NEW h \in PathHost
    PROVE  /\ PlanFileLike(n, p, h) \in StepSpace
           /\ PlanFileLike(n, p, h).action =
                EnsuredAction(n, p, Exists(h.path), SameFile(n, p, h))
  BY StepFact, BlankFact DEF PlanFileLike, Ensured, Exists, Fits, Recorded, EnsuredAction, SameFile

\* planDirectory.
LEMMA PlanDirectoryFact ==
    ASSUME NEW n, NEW p, Prior(p), NEW h \in PathHost
    PROVE  /\ PlanDirectory(n, p, h) \in StepSpace
           /\ PlanDirectory(n, p, h).action =
                EnsuredAction(n, p, Exists(h.path),
                  Fits(h.path, "dir"))
  BY StepFact, BlankFact DEF PlanDirectory, Ensured, Exists, Fits, EnsuredAction

\* planAPTSigningKey.
LEMMA PlanAptSigningKeyFact ==
    ASSUME NEW n, NEW p, Prior(p), NEW h \in PathHost
    PROVE  /\ PlanAptSigningKey(n, p, h) \in StepSpace
           /\ PlanAptSigningKey(n, p, h).action =
                EnsuredAction(n, p, Exists(h.path),
                  Fits(h.path, "file")
                  /\ IF n.from = "url" THEN p = NoRecord \/ Recorded(n, p) ELSE h.path.content = n.content)
  BY StepFact, BlankFact DEF PlanAptSigningKey, Ensured, Exists, Fits, Recorded, EnsuredAction

\* planComponentDownload.
LEMMA PlanComponentDownloadFact ==
    ASSUME NEW n, NEW p, Prior(p), NEW h \in PathHost
    PROVE  /\ PlanComponentDownload(n, p, h) \in StepSpace
           /\ PlanComponentDownload(n, p, h).action =
                EnsuredAction(n, p, Exists(h.path),
                  Fits(h.path, "file") /\ h.path.content = n.content)
  BY StepFact, BlankFact DEF PlanComponentDownload, Ensured, Exists, Fits, EnsuredAction

\* planComponentBuild.
LEMMA PlanComponentBuildFact ==
    ASSUME NEW n, NEW p, Prior(p), NEW h \in PathHost
    PROVE  /\ PlanComponentBuild(n, p, h) \in StepSpace
           /\ PlanComponentBuild(n, p, h).action =
                EnsuredAction(n, p, Exists(h.path),
                  Fits(h.path, "file") /\ Recorded(n, p) /\ p.sha # "none" /\ p.sha = Sha(h.path))
  BY StepFact, BlankFact DEF PlanComponentBuild, Ensured, Exists, Fits, Recorded, EnsuredAction

\* planComponentArchive.
LEMMA PlanComponentArchiveFact ==
    ASSUME NEW n, NEW p, Prior(p), NEW h \in PathHost
    PROVE  /\ PlanComponentArchive(n, p, h) \in StepSpace
           /\ PlanComponentArchive(n, p, h).action =
                EnsuredAction(n, p, Exists(h.path),
                  Fits(h.path, "dir") /\ Recorded(n, p))
  BY StepFact, BlankFact DEF PlanComponentArchive, Ensured, Exists, Fits, Recorded, EnsuredAction

\* planAPTSourceFile.
LEMMA PlanAptSourceFact ==
    ASSUME NEW n, n.sensitive \in BOOLEAN, NEW p, Prior(p),
           p # NoRecord => p.original \in PathSpace \cup {NoOriginal}, NEW h \in PathHost
    PROVE  LET s == PlanAptSourceFile(n, p, h)
               same == Fits(h.path, "file") /\ h.path.content = n.content
           IN
           /\ s \in StepSpace
           /\ n.ensure = "absent" =>
                s.action = IF p = NoRecord THEN "no-op" ELSE IF n.on_destroy = "keep" THEN "forget"
                           ELSE IF p.original = NoOriginal THEN "error" ELSE "delete"
           /\ n.ensure # "absent" =>
                /\ s.action = IF ~Exists(h.path) THEN "create" ELSE IF ~same THEN "update"
                              ELSE IF n.sensitive /\ NeedsRefresh(n, p) THEN "adopt"
                              ELSE IF p = NoRecord THEN "adopt" ELSE "no-op"
                /\ s.action = "adopt" /\ ~n.sensitive => s.seen.original = AptSourceOriginal(p, h.path)
                /\ s.action = "adopt" /\ n.sensitive => s.seen.original = NoOriginal
<1>1. PICK saved : saved = [Blank EXCEPT !.original = AptSourceOriginal(p, h.path)]
  OBVIOUS
<1>2. AptSourceOriginal(p, h.path) \in PathSpace
  BY HostFact, OriginalFact
<1>3. saved \in Seen /\ saved.original = AptSourceOriginal(p, h.path)
  BY <1>1, <1>2 DEF Blank, Seen, Contents
<1>4. CASE n.ensure = "absent"
  BY <1>4, StepFact, BlankFact DEF PlanAptSourceFile
<1>5. CASE n.ensure # "absent" /\ ~(Exists(h.path) /\ Fits(h.path, "file") /\ h.path.content = n.content)
  BY <1>5, StepFact, BlankFact DEF PlanAptSourceFile
<1>6. CASE n.ensure # "absent" /\ Exists(h.path) /\ Fits(h.path, "file") /\ h.path.content = n.content
  <2>1. CASE ~n.sensitive
    <3>1. PlanAptSourceFile(n, p, h) = InSync(p, saved)
      BY <1>1, <1>6, <2>1 DEF PlanAptSourceFile
    <3> QED
      BY <1>3, <1>6, <2>1, <3>1, StepFact
  <2>2. CASE n.sensitive /\ NeedsRefresh(n, p)
    <3>1. PlanAptSourceFile(n, p, h) = Step(p, "adopt", Blank)
      BY <1>6, <2>2 DEF PlanAptSourceFile
    <3> QED
      BY <1>6, <2>2, <3>1, StepFact, BlankFact
  <2>3. CASE n.sensitive /\ ~NeedsRefresh(n, p)
    <3>1. PlanAptSourceFile(n, p, h) = InSync(p, Blank)
      BY <1>6, <2>3 DEF PlanAptSourceFile
    <3> QED
      BY <1>6, <2>3, <3>1, StepFact, BlankFact
  <2> QED
    BY <2>1, <2>2, <2>3
<1> QED
  BY <1>4, <1>5, <1>6

\* planComponentScriptOutput.
LEMMA PlanScriptFact ==
    ASSUME NEW n, NEW p, Prior(p), NEW h \in PathHost
    PROVE  LET s == PlanComponentScriptOutput(n, p, h) IN
           /\ s \in StepSpace /\ s.action \in {"create", "update", "no-op"}
           /\ s.action = "no-op" <=>
                Exists(h.path) /\ h.path.type # "dir" /\ Recorded(n, p) /\ p.sha = Sha(h.path)
  BY StepFact, BlankFact DEF PlanComponentScriptOutput, Recorded

\* planPackage.
LEMMA PlanPackageFact ==
    ASSUME NEW n, NEW p, Prior(p), NEW h \in PackageHost
    PROVE  LET s == PlanPackage(n, p, h) IN
           /\ s \in StepSpace
           /\ s.seen.installed = IF h.pkg = "installed" THEN {"pkg"} ELSE {}
           /\ n.ensure = "absent" => s.action = IF h.pkg = "installed" \/ p # NoRecord THEN "delete" ELSE "no-op"
           /\ n.ensure # "absent" =>
                s.action = IF h.pkg = "none" THEN "create"
                           ELSE IF h.pkg = "installed" /\ p # NoRecord /\ n.policy \notin {"unset", p.desired.policy}
                             THEN "update"
                           ELSE IF p = NoRecord THEN "adopt" ELSE "no-op"
<1>1. PICK seen : seen = PackageInstallState(h)
  OBVIOUS
<1>2. seen \in Seen /\ seen.installed = IF h.pkg = "installed" THEN {"pkg"} ELSE {}
  BY <1>1 DEF PackageInstallState, Blank, Seen, Contents
<1> QED
  BY <1>1, <1>2, StepFact DEF PlanPackage

\* planDockerPackageConflicts.
LEMMA PlanConflictFact ==
    ASSUME NEW n, NEW p, Prior(p), NEW h \in ConflictHost
    PROVE  LET s == PlanDockerPackageConflicts(n, p, h) IN
           /\ s \in StepSpace
           /\ s.action \in {"no-op", "error", "delete"}
           /\ s.action = "no-op" <=> h.pkgs = {}
           /\ s.action = "delete" => s.seen.installed = h.pkgs
<1>1. PICK seen : seen = [Blank EXCEPT !.installed = h.pkgs]
  OBVIOUS
<1>2. seen \in Seen /\ seen.installed = h.pkgs
  BY <1>1 DEF ConflictHost, Blank, Seen, Contents
<1>3. CASE h.pkgs = {}
  BY <1>3, StepFact, BlankFact DEF PlanDockerPackageConflicts
<1>4. CASE h.pkgs # {} /\ n.remove_conflicts = "false"
  BY <1>4, BlankFact DEF PlanDockerPackageConflicts
<1>5. CASE h.pkgs # {} /\ n.remove_conflicts # "false"
  <2>1. PlanDockerPackageConflicts(n, p, h) = Step(p, "delete", seen)
    BY <1>1, <1>5 DEF PlanDockerPackageConflicts
  <2> QED
    BY <1>2, <1>5, <2>1, StepFact
<1> QED
  BY <1>3, <1>4, <1>5

\* planKernelModule.
LEMMA PlanKernelFact ==
    ASSUME NEW n, NEW p, Prior(p), NEW h \in KernelHost
    PROVE  LET s == PlanKernelModule(n, p, h) IN
           /\ s \in StepSpace
           /\ n.ensure = "absent" => s.action = IF h.loaded \/ h.persisted \/ p # NoRecord THEN "delete" ELSE "no-op"
           /\ n.ensure # "absent" =>
                s.action = IF ~(h.loaded /\ h.persisted) THEN "update" ELSE IF p = NoRecord THEN "adopt" ELSE "no-op"
  BY StepFact, BlankFact DEF PlanKernelModule, KernelHost

\* planSysctl.
LEMMA PlanSysctlFact ==
    ASSUME NEW n, NEW p, Prior(p), NEW h \in SysctlHost
    PROVE  LET s == PlanSysctl(n, p, h) IN
           /\ s \in StepSpace
           /\ n.ensure = "absent" => s.action = IF h.file = n.value \/ p # NoRecord THEN "delete" ELSE "no-op"
           /\ n.ensure # "absent" =>
                s.action = IF Shown(h.value) # n.value \/ h.file # n.value THEN "update"
                           ELSE IF p = NoRecord THEN "adopt" ELSE "no-op"
  BY StepFact, BlankFact DEF PlanSysctl

LEMMA GroupFact ==
    ASSUME NEW h \in GroupHost
    PROVE  h.exists \in BOOLEAN /\ (h.exists <=> h \in Groups) /\ (~h.exists <=> h = NoGroup)
<1>0. NoGroup.exists = FALSE
  BY DEF NoGroup
<1>1. CASE h = NoGroup
  BY <1>0, <1>1 DEF Groups
<1>2. CASE h \in Groups
  <2>1. h.exists = TRUE
    BY <1>2 DEF Groups
  <2> QED
    BY <1>0, <1>2, <2>1
<1> QED
  BY <1>1, <1>2 DEF GroupHost

SameGroup(n, h) == n.gid \in {"unset", h.gid}

LEMMA PlanGroupFact ==
    ASSUME NEW n, NEW p, Prior(p), NEW h \in GroupHost
    PROVE  /\ PlanGroup(n, p, h) \in StepSpace
           /\ PlanGroup(n, p, h).action = EnsuredAction(n, p, h.exists, SameGroup(n, h))
<1>1. h.exists \in BOOLEAN
  BY GroupFact
<1> QED
  BY <1>1, StepFact, BlankFact DEF PlanGroup, Ensured, EnsuredAction, SameGroup

\* readUser.
LEMMA UserFact ==
    ASSUME NEW h \in UserHost
    PROVE  /\ h.exists \in BOOLEAN /\ (h.exists <=> h \in Users) /\ (~h.exists <=> h = NoUser)
           /\ ReadUser(h).exists = h.exists /\ ReadUser(h).shell = h.shell
           /\ ReadUser(h).groups = h.groups \ {h.primary}
<1>0. NoUser.exists = FALSE
  BY DEF NoUser
<1>1. CASE h = NoUser
  BY <1>1 DEF NoUser, Users, ReadUser
<1>2. CASE h \in Users
  <2>1. h.exists = TRUE
    BY <1>2 DEF Users
  <2>2. /\ ReadUser(h).exists = h.exists /\ ReadUser(h).shell = h.shell
        /\ ReadUser(h).groups = h.groups \ {h.primary}
    BY <1>2 DEF Users, ReadUser
  <2> QED
    BY <1>0, <1>2, <2>1, <2>2
<1> QED
  BY <1>1, <1>2 DEF UserHost

SameUser(n, h) == n.shell \in {"unset", h.shell} /\ n.groups \in {{}, h.groups \ {h.primary}}

LEMMA PlanUserFact ==
    ASSUME NEW n, NEW p, Prior(p), NEW h \in UserHost
    PROVE  /\ PlanUser(n, p, h) \in StepSpace
           /\ PlanUser(n, p, h).action = EnsuredAction(n, p, h.exists, SameUser(n, h))
<1>1. PlanUser(n, p, h) =
        Ensured(n, p, h.exists, n.shell \in {"unset", h.shell} /\ n.groups \in {{}, h.groups \ {h.primary}})
  BY UserFact DEF PlanUser
<1>2. h.exists \in BOOLEAN
  BY UserFact
<1> QED
  BY <1>1, <1>2, StepFact, BlankFact DEF Ensured, EnsuredAction, SameUser

\* planUserGroupMembership.
LEMMA PlanMemberFact ==
    ASSUME NEW n, n.managed \in BOOLEAN, NEW p, Prior(p), NEW h \in MemberHost
    PROVE  LET s == PlanUserGroupMembership(n, p, h) IN
           /\ s \in StepSpace
           /\ n.ensure = "absent" =>
                s.action = IF (h.user /\ h.member /\ ~h.primary) \/ p # NoRecord THEN "delete" ELSE "no-op"
           /\ n.ensure # "absent" =>
                s.action = IF ~h.user THEN (IF n.managed THEN "create" ELSE "error")
                           ELSE IF ~(h.primary \/ h.member) THEN "update"
                           ELSE IF p = NoRecord THEN "adopt" ELSE "no-op"
  BY StepFact, BlankFact DEF PlanUserGroupMembership, MemberHost

HasKey(h) == h.user /\ "k" \in h.keys

LEMMA PlanKeyFact ==
    ASSUME NEW n, NEW p, Prior(p), NEW h \in KeyHost
    PROVE  /\ PlanAuthorizedKey(n, p, h) \in StepSpace
           /\ PlanAuthorizedKey(n, p, h).action = EnsuredAction(n, p, HasKey(h), HasKey(h))
  BY StepFact, BlankFact DEF PlanAuthorizedKey, Ensured, EnsuredAction, KeyHost, HasKey

\* planService.
LEMMA PlanServiceFact ==
    ASSUME NEW n, NEW p, Prior(p), NEW h \in ServiceHost
    PROVE  LET s == PlanService(n, p, h) IN
           /\ s \in StepSpace
           /\ s.action = IF \/ n.enabled \notin {"unset", h.enabled}
                            \/ n.state = "running" /\ ~h.active
                            \/ n.state = "stopped" /\ h.active
                            \/ n.state \in {"restarted", "reloaded"}
                           THEN "update" ELSE IF p = NoRecord THEN "adopt" ELSE "no-op"
  BY StepFact, BlankFact DEF PlanService, ServiceHost

\* dockerComposeProjectObservedState.
LEMMA ObservedFact ==
    ASSUME NEW c \in Container
    PROVE  /\ ObservedState(c) = "absent" <=> c.svc = "none" /\ c.orphan = "none"
           /\ ObservedState(c) = "running" /\ c.orphan = "none" => c.svc \in {"running", "part"}
           /\ ObservedState(c) = "stopped" /\ c.orphan = "none" => c.svc = "stopped"
           /\ c.svc = "running" /\ c.orphan = "none" => ObservedState(c) = "running"
           /\ c.svc = "stopped" /\ c.orphan = "none" => ObservedState(c) = "stopped"
  BY DEF ObservedState, Container

\* readDockerComposeProject.
LEMMA ReadFact ==
    ASSUME NEW c \in Container
    PROVE  /\ ReadDockerComposeProject(c) \in Container
           /\ c.file # "unread" => ReadDockerComposeProject(c) = c
           /\ c.file = "unread" => ObservedState(ReadDockerComposeProject(c)) = "absent"
<1>1. CASE c.file # "unread"
  BY <1>1 DEF ReadDockerComposeProject
<1>2. CASE c.file = "unread"
  <2>1. PICK d : d = ReadDockerComposeProject(c)
    OBVIOUS
  <2>2. d \in Container /\ d.svc = "none" /\ d.orphan = "none"
    BY <1>2, <2>1 DEF ReadDockerComposeProject, Container
  <2> QED
    BY <1>2, <2>1, <2>2, ObservedFact
<1> QED
  BY <1>1, <1>2

\* planDockerComposeProject.
LEMMA PlanComposeFact ==
    ASSUME NEW n, NEW p, Prior(p), NEW h \in ComposeHost
    PROVE  LET s == PlanDockerComposeProject(n, p, h)
               observed == ReadDockerComposeProject(h[n.project])
               actual == ObservedState(observed)
           IN
           /\ s \in StepSpace
           /\ n.state = "absent" => s.action = IF actual # "absent" \/ p # NoRecord THEN "delete" ELSE "no-op"
           /\ n.state # "absent" =>
                s.action = IF \/ actual # n.state
                              \/ observed.orphan # "none"
                              \/ p # NoRecord /\ p.desired # n
                             THEN "update" ELSE IF p = NoRecord THEN "adopt" ELSE "no-op"
  BY StepFact, BlankFact DEF PlanDockerComposeProject

\* planSystemHostname, planSystemTimezone, planSystemLocale.
LEMMA PlanSettingFact ==
    ASSUME NEW n, NEW p, Prior(p), NEW h \in SettingHost
    PROVE  /\ PlanSystemHostname(n, p, h) \in StepSpace
           /\ PlanSystemHostname(n, p, h).action =
                IF h.value # n.value THEN "update" ELSE IF p = NoRecord THEN "adopt" ELSE "no-op"
           /\ PlanSystemTimezone(n, p, h) \in StepSpace
           /\ PlanSystemTimezone(n, p, h).action =
                IF ~h.available THEN "error" ELSE IF h.value # n.value THEN SystemSettingAction(p, h)
                ELSE IF p = NoRecord THEN "adopt" ELSE "no-op"
           /\ PlanSystemLocale(n, p, h) \in StepSpace
           /\ PlanSystemLocale(n, p, h).action =
                IF h.value # n.value \/ ~h.available THEN SystemSettingAction(p, h)
                ELSE IF p = NoRecord THEN "adopt" ELSE "no-op"
           /\ SystemSettingAction(p, h) \in {"create", "update"}
<1>1. SystemSettingAction(p, h) \in {"create", "update"}
  BY DEF SystemSettingAction
<1>2. h.available \in BOOLEAN
  BY DEF SettingHost
<1>3. /\ PlanSystemHostname(n, p, h) \in StepSpace
      /\ PlanSystemHostname(n, p, h).action =
           IF h.value # n.value THEN "update" ELSE IF p = NoRecord THEN "adopt" ELSE "no-op"
  BY StepFact, BlankFact DEF PlanSystemHostname
<1>4. /\ PlanSystemTimezone(n, p, h) \in StepSpace
      /\ PlanSystemTimezone(n, p, h).action =
           IF ~h.available THEN "error" ELSE IF h.value # n.value THEN SystemSettingAction(p, h)
           ELSE IF p = NoRecord THEN "adopt" ELSE "no-op"
  BY <1>1, <1>2, StepFact, BlankFact DEF PlanSystemTimezone
<1>5. /\ PlanSystemLocale(n, p, h) \in StepSpace
      /\ PlanSystemLocale(n, p, h).action =
           IF h.value # n.value \/ ~h.available THEN SystemSettingAction(p, h)
           ELSE IF p = NoRecord THEN "adopt" ELSE "no-op"
  BY <1>1, <1>2, StepFact, BlankFact DEF PlanSystemLocale
<1> QED
  BY <1>1, <1>3, <1>4, <1>5

\* A system setting is never deleted.
LEMMA NoSettingDeletion ==
    ASSUME NEW n, NEW p, Prior(p), NEW h \in SettingHost
    PROVE  /\ PlanSystemHostname(n, p, h).action # "delete"
           /\ PlanSystemTimezone(n, p, h).action # "delete"
           /\ PlanSystemLocale(n, p, h).action # "delete"
<1>1. SystemSettingAction(p, h) \in {"create", "update"}
  BY DEF SystemSettingAction
<1> QED
  BY <1>1, StepFact, BlankFact DEF PlanSystemHostname, PlanSystemTimezone, PlanSystemLocale

\* Plan gives a step, for every kind.
LEMMA PlanTyped ==
    ASSUME NEW k \in AllKinds, NEW n \in Nodes(k), NEW p, IsRecord(k, p), NEW h \in HostSpace(k)
    PROVE  ProviderPlan(k, n, p, h) \in StepSpace
<1>0. Prior(p)
  BY PriorFact
<1>1. CASE k \in {"file", "systemd_unit", "networkd_netdev"}
  <2>1. h \in PathHost
    BY <1>1, HostSpaceOf DEF PathKinds
  <2>2. ProviderPlan(k, n, p, h) = PlanFileLike(n, p, h)
    BY <1>1, PlanDispatch
  <2>3. n.write_only \in BOOLEAN
    BY <1>1, InstallNodes DEF InstallKinds
  <2> QED
    BY <1>0, <2>1, <2>2, <2>3, PlanFileLikeFact DEF EnsuredAction
<1>2. CASE k = "directory"
  <2>1. h \in PathHost
    BY <1>2, HostSpaceOf DEF PathKinds
  <2>2. ProviderPlan(k, n, p, h) = PlanDirectory(n, p, h)
    BY <1>2, PlanDispatch
  <2> QED
    BY <1>0, <2>1, <2>2, PlanDirectoryFact DEF EnsuredAction
<1>3. CASE k = "apt_signing_key"
  <2>1. h \in PathHost
    BY <1>3, HostSpaceOf DEF PathKinds
  <2>2. ProviderPlan(k, n, p, h) = PlanAptSigningKey(n, p, h)
    BY <1>3, PlanDispatch
  <2> QED
    BY <1>0, <2>1, <2>2, PlanAptSigningKeyFact DEF EnsuredAction
<1>4. CASE k = "component_download"
  <2>1. h \in PathHost
    BY <1>4, HostSpaceOf DEF PathKinds
  <2>2. ProviderPlan(k, n, p, h) = PlanComponentDownload(n, p, h)
    BY <1>4, PlanDispatch
  <2> QED
    BY <1>0, <2>1, <2>2, PlanComponentDownloadFact DEF EnsuredAction
<1>5. CASE k = "component_file"
  <2>1. h \in PathHost
    BY <1>5, HostSpaceOf DEF PathKinds
  <2>2. ProviderPlan(k, n, p, h) = PlanComponentDownload(n, p, h)
    BY <1>5, PlanDispatch DEF PlanComponentFile
  <2> QED
    BY <1>0, <2>1, <2>2, PlanComponentDownloadFact DEF EnsuredAction
<1>6. CASE k = "component_build"
  <2>1. h \in PathHost
    BY <1>6, HostSpaceOf DEF PathKinds
  <2>2. ProviderPlan(k, n, p, h) = PlanComponentBuild(n, p, h)
    BY <1>6, PlanDispatch
  <2> QED
    BY <1>0, <2>1, <2>2, PlanComponentBuildFact DEF EnsuredAction
<1>7. CASE k = "component_binary"
  <2>1. h \in PathHost
    BY <1>7, HostSpaceOf DEF PathKinds
  <2>2. ProviderPlan(k, n, p, h) = PlanComponentBuild(n, p, h)
    BY <1>7, PlanDispatch DEF PlanComponentBinary
  <2> QED
    BY <1>0, <2>1, <2>2, PlanComponentBuildFact DEF EnsuredAction
<1>8. CASE k = "component_archive"
  <2>1. h \in PathHost
    BY <1>8, HostSpaceOf DEF PathKinds
  <2>2. ProviderPlan(k, n, p, h) = PlanComponentArchive(n, p, h)
    BY <1>8, PlanDispatch
  <2> QED
    BY <1>0, <2>1, <2>2, PlanComponentArchiveFact DEF EnsuredAction
<1>9. CASE k = "component_script_output"
  <2>1. h \in PathHost
    BY <1>9, HostSpaceOf DEF PathKinds
  <2>2. ProviderPlan(k, n, p, h) = PlanComponentScriptOutput(n, p, h)
    BY <1>9, PlanDispatch
  <2> QED
    BY <1>0, <2>1, <2>2, PlanScriptFact
<1>10. CASE k = "apt_source_file"
  <2>1. h \in PathHost
    BY <1>10, HostSpaceOf DEF PathKinds
  <2>2. ProviderPlan(k, n, p, h) = PlanAptSourceFile(n, p, h)
    BY <1>10, PlanDispatch
  <2>3. n.sensitive \in BOOLEAN /\ (p # NoRecord => p.original \in PathSpace \cup {NoOriginal})
    BY <1>10, OtherNodes, RecordFact DEF IsRecord
  <2> QED
    BY <1>0, <2>1, <2>2, <2>3, PlanAptSourceFact
<1>11. CASE k = "package"
  <2>1. h \in PackageHost
    BY <1>11, HostSpaceOf
  <2>2. ProviderPlan(k, n, p, h) = PlanPackage(n, p, h)
    BY <1>11, PlanDispatch
  <2> QED
    BY <1>0, <2>1, <2>2, PlanPackageFact
<1>12. CASE k = "docker_package_conflicts"
  <2>1. h \in ConflictHost
    BY <1>12, HostSpaceOf
  <2>2. ProviderPlan(k, n, p, h) = PlanDockerPackageConflicts(n, p, h)
    BY <1>12, PlanDispatch
  <2> QED
    BY <1>0, <2>1, <2>2, PlanConflictFact
<1>13. CASE k = "kernel_module"
  <2>1. h \in KernelHost
    BY <1>13, HostSpaceOf
  <2>2. ProviderPlan(k, n, p, h) = PlanKernelModule(n, p, h)
    BY <1>13, PlanDispatch
  <2> QED
    BY <1>0, <2>1, <2>2, PlanKernelFact
<1>14. CASE k = "sysctl"
  <2>1. h \in SysctlHost
    BY <1>14, HostSpaceOf
  <2>2. ProviderPlan(k, n, p, h) = PlanSysctl(n, p, h)
    BY <1>14, PlanDispatch
  <2> QED
    BY <1>0, <2>1, <2>2, PlanSysctlFact
<1>15. CASE k = "group"
  <2>1. h \in GroupHost
    BY <1>15, HostSpaceOf
  <2>2. ProviderPlan(k, n, p, h) = PlanGroup(n, p, h)
    BY <1>15, PlanDispatch
  <2> QED
    BY <1>0, <2>1, <2>2, PlanGroupFact
<1>16. CASE k = "user"
  <2>1. h \in UserHost
    BY <1>16, HostSpaceOf
  <2>2. ProviderPlan(k, n, p, h) = PlanUser(n, p, h)
    BY <1>16, PlanDispatch
  <2> QED
    BY <1>0, <2>1, <2>2, PlanUserFact
<1>17. CASE k = "user_group_membership"
  <2>1. h \in MemberHost
    BY <1>17, HostSpaceOf
  <2>2. ProviderPlan(k, n, p, h) = PlanUserGroupMembership(n, p, h)
    BY <1>17, PlanDispatch
  <2>3. n.managed \in BOOLEAN
    BY <1>17, OtherNodes
  <2> QED
    BY <1>0, <2>1, <2>2, <2>3, PlanMemberFact
<1>18. CASE k = "ssh_authorized_key"
  <2>1. h \in KeyHost
    BY <1>18, HostSpaceOf
  <2>2. ProviderPlan(k, n, p, h) = PlanAuthorizedKey(n, p, h)
    BY <1>18, PlanDispatch
  <2> QED
    BY <1>0, <2>1, <2>2, PlanKeyFact
<1>19. CASE k = "service"
  <2>1. h \in ServiceHost
    BY <1>19, HostSpaceOf
  <2>2. ProviderPlan(k, n, p, h) = PlanService(n, p, h)
    BY <1>19, PlanDispatch
  <2> QED
    BY <1>0, <2>1, <2>2, PlanServiceFact
<1>20. CASE k = "docker_compose_project"
  <2>1. h \in ComposeHost
    BY <1>20, HostSpaceOf
  <2>2. ProviderPlan(k, n, p, h) = PlanDockerComposeProject(n, p, h)
    BY <1>20, PlanDispatch
  <2> QED
    BY <1>0, <2>1, <2>2, PlanComposeFact
<1>21. CASE k = "system_hostname"
  <2>1. h \in SettingHost
    BY <1>21, HostSpaceOf
  <2>2. ProviderPlan(k, n, p, h) = PlanSystemHostname(n, p, h)
    BY <1>21, PlanDispatch
  <2> QED
    BY <1>0, <2>1, <2>2, PlanSettingFact, Zenon
<1>22. CASE k = "system_timezone"
  <2>1. h \in SettingHost
    BY <1>22, HostSpaceOf
  <2>2. ProviderPlan(k, n, p, h) = PlanSystemTimezone(n, p, h)
    BY <1>22, PlanDispatch
  <2> QED
    BY <1>0, <2>1, <2>2, PlanSettingFact, Zenon
<1>23. CASE k = "system_locale"
  <2>1. h \in SettingHost
    BY <1>23, HostSpaceOf
  <2>2. ProviderPlan(k, n, p, h) = PlanSystemLocale(n, p, h)
    BY <1>23, PlanDispatch
  <2> QED
    BY <1>0, <2>1, <2>2, PlanSettingFact, Zenon
<1> QED
  BY <1>1, <1>2, <1>3, <1>4, <1>5, <1>6, <1>7, <1>8, <1>9, <1>10, <1>11, <1>12, <1>13, <1>14,
     <1>15, <1>16, <1>17, <1>18, <1>19, <1>20, <1>21, <1>22, <1>23 DEF AllKinds, PathKinds

\* What is observed after a call is what a record may keep.
LEMMA ObservedTyped ==
    ASSUME NEW k \in AllKinds, NEW n, NEW p, IsRecord(k, p), NEW h \in HostSpace(k), NEW e \in HostSpace(k)
    PROVE  /\ Observed(k, n, p, h, e) \in Seen
           /\ Observed(k, n, p, h, e).sha =
                IF k \in {"component_build", "component_binary", "component_file", "component_script_output"}
                  THEN Sha(e.path) ELSE "none"
           /\ Observed(k, n, p, h, e).original =
                IF k = "apt_source_file" /\ ~n.sensitive THEN AptSourceOriginal(p, h.path) ELSE NoOriginal
<1>1. PICK sha : sha = IF k \in {"component_build", "component_binary", "component_file", "component_script_output"}
                         THEN Sha(e.path) ELSE "none"
  OBVIOUS
<1>2. PICK original : original = IF k = "apt_source_file" /\ ~n.sensitive
                                   THEN AptSourceOriginal(p, h.path) ELSE NoOriginal
  OBVIOUS
<1>3. sha \in Contents
  <2>1. CASE k \in {"component_build", "component_binary", "component_file", "component_script_output"}
    <3>1. e.path \in Entry
      BY <2>1, HostSpaceOf, HostFact DEF PathKinds
    <3> QED
      BY <1>1, <2>1, <3>1 DEF Entry, Sha, Contents
  <2>2. CASE k \notin {"component_build", "component_binary", "component_file", "component_script_output"}
    BY <1>1, <2>2 DEF Contents
  <2> QED
    BY <2>1, <2>2
<1>4. original \in PathSpace \cup {NoOriginal}
  <2>1. CASE k = "apt_source_file" /\ ~n.sensitive
    <3>1. h.path \in PathSpace
      BY <2>1, HostSpaceOf, HostFact DEF PathKinds
    <3>2. p # NoRecord => p.original \in PathSpace \cup {NoOriginal}
      BY RecordFact DEF IsRecord
    <3> QED
      BY <1>2, <2>1, <3>1, <3>2, OriginalFact
  <2>2. CASE ~(k = "apt_source_file" /\ ~n.sensitive)
    BY <1>2, <2>2
  <2> QED
    BY <2>1, <2>2
<1>5. Observed(k, n, p, h, e) = [Blank EXCEPT !.sha = sha, !.original = original]
  BY <1>1, <1>2 DEF Observed
<1>6. Observed(k, n, p, h, e) = [original |-> original, sha |-> sha, installed |-> {}]
  BY <1>5 DEF Blank
<1> QED
  BY <1>1, <1>2, <1>3, <1>4, <1>6 DEF Seen

-----------------------------------------------------------------------------
(* The run.                                                                *)

ActionNames == {"error", "no-op", "create", "update", "delete", "adopt", "forget", "destroy"}

TypeInv ==
    /\ kind \in Kinds
    /\ want \in Nodes(kind) \cup {Undeclared}
    /\ host \in HostSpace(kind) /\ origin \in HostSpace(kind)
    /\ IsRecord(kind, rec)
    /\ pc = "called" => IsRecord(kind, RecordAfter) /\ step.action \in ActionNames \ {"error"}
    /\ pc \in {"idle", "refused", "planned", "called", "done", "failed", "cut"}
    /\ clean \in BOOLEAN
    /\ left \in [edits : Int, drift : Int, faults : Int] /\ left.drift <= MaxDrift

\* The plan that is executed is of this declaration, record and host, and the
\* first write comes after what was there was seen.
PlannedInv ==
    pc = "planned" => /\ step = PlannedStep /\ step.action # "error"
                      /\ clean /\ rec = NoRecord => origin = host

LEMMA KindFact ==
    ASSUME TypeInv
    PROVE  kind \in AllKinds /\ NoRecord \notin RecordSpace(kind) /\ (want # Undeclared => want \in Nodes(kind))
<1>1. kind \in AllKinds /\ NoRecord \notin Records(kind)
  BY KindsAssumption DEF TypeInv
<1>2. RecordSpace(kind) \subseteq Records(kind)
  BY DEF RecordSpace, Records, PathSpace
<1> QED
  BY <1>1, <1>2 DEF TypeInv

\* orphanSteps.
LEMMA OrphanFact ==
    ASSUME TypeInv
    PROVE  /\ OrphanStep.action = IF rec = NoRecord THEN "no-op"
                                  ELSE IF rec.owner = "adopted" \/ ForgetOrphan THEN "forget" ELSE "destroy"
           /\ OrphanStep.seen = Blank
<1>1. Prior(rec)
  BY PriorFact DEF TypeInv
<1> QED
  BY <1>1, StepFact, BlankFact DEF OrphanStep

\* What the plan holds.
LEMMA PlannedFact ==
    ASSUME TypeInv, PlannedInv, pc = "planned"
    PROVE  /\ step.action \in ActionNames
           /\ step.seen \in Seen /\ step.owner \in {"managed", "adopted"}
           /\ want = Undeclared => step.action \in {"no-op", "forget", "destroy"}
           /\ want = Undeclared /\ step.action = "destroy" => rec # NoRecord
           /\ want # Undeclared => /\ want \in Nodes(kind) /\ step = ProviderPlan(kind, want, rec, host)
                                   /\ step \in StepSpace /\ step.action \notin {"error", "destroy"}
<1>1. CASE want = Undeclared
  <2>1. Prior(rec)
    BY PriorFact DEF TypeInv
  <2>2. step = OrphanStep
    BY <1>1 DEF PlannedInv, PlannedStep
  <2>3. OrphanStep.owner \in {"managed", "adopted"}
    BY <2>1, StepFact, BlankFact DEF OrphanStep
  <2> QED
    BY <1>1, <2>2, <2>3, OrphanFact, BlankFact DEF ActionNames
<1>2. CASE want # Undeclared
  <2>1. step = ProviderPlan(kind, want, rec, host) /\ want \in Nodes(kind) /\ step.action # "error"
    BY <1>2, KindFact DEF PlannedInv, PlannedStep
  <2>2. step \in StepSpace
    BY <2>1, KindFact, PlanTyped DEF TypeInv
  <2> QED
    BY <1>2, <2>1, <2>2 DEF StepSpace, ActionNames
<1> QED
  BY <1>1, <1>2

\* Every host that a call goes through is one.
LEMMA OutcomesClose ==
    ASSUME TypeInv, PlannedInv, pc = "planned", Calls, NEW o \in Outcomes
    PROVE  /\ o.via \in Seq(HostSpace(kind)) /\ Ends(host, o) \in HostSpace(kind)
           /\ ToSet(o.via) \subseteq HostSpace(kind)
           /\ step.action = "destroy" => rec # NoRecord /\ want = Undeclared /\ o \in ProviderDestroy(kind, rec, host)
           /\ step.action # "destroy" => /\ want # Undeclared /\ want \in Nodes(kind)
                                         /\ o \in ProviderApply(kind, want, step, rec, host)
<1>0. host \in HostSpace(kind) /\ kind \in AllKinds /\ IsRecord(kind, rec)
  BY KindFact DEF TypeInv
<1>1. CASE step.action = "destroy"
  <2>1. o \in ProviderDestroy(kind, rec, host)
    BY <1>1 DEF Outcomes
  <2>2. want = Undeclared /\ rec # NoRecord /\ rec \in RecordSpace(kind)
    BY <1>0, <1>1, PlannedFact DEF IsRecord
  <2>3. o.via \in Seq(HostSpace(kind))
    BY <1>0, <2>1, <2>2, DestroyCloses
  <2> QED
    BY <1>0, <1>1, <2>1, <2>2, <2>3, ThroughSeq DEF Ends
<1>2. CASE step.action # "destroy"
  <2>1. o \in ProviderApply(kind, want, step, rec, host)
    BY <1>2 DEF Outcomes
  <2>2. want # Undeclared /\ want \in Nodes(kind)
    BY <1>2, PlannedFact DEF Calls
  <2>3. o.via \in Seq(HostSpace(kind))
    BY <1>0, <2>1, <2>2, ApplyCloses DEF IsRecord
  <2> QED
    BY <1>0, <1>2, <2>1, <2>2, <2>3, ThroughSeq DEF Ends
<1> QED
  BY <1>1, <1>2

Frame == UNCHANGED <<kind, want, rec, applied, origin, clean, left>>
Applies == \E o \in ProviderApply(kind, want, step, rec, host) : o.ok /\ host' = Ends(host, o)
Destroys == \E o \in ProviderDestroy(kind, rec, host) : o.ok /\ host' = Ends(host, o)
Stays(k, n, h, e) == e \in IF k = "docker_compose_project" /\ n # Undeclared THEN AfterFileStep(n, h) ELSE {h}
NewRecord(seen) == [desired |-> want, owner |-> step.owner, original |-> seen.original, sha |-> seen.sha]

\* A step that is executed, by what it is.
LEMMA Execution ==
    ASSUME TypeInv, PlannedInv, Call \/ NoCall
    PROVE  /\ pc = "planned" /\ pc' = "called" /\ Frame
           /\ step.action \in ActionNames \ {"error"} /\ step'.action = step.action
           /\ host' \in HostSpace(kind)
           /\ step.action \in {"create", "update"} =>
                /\ want # Undeclared /\ Applies
                /\ RecordAfter' = NewRecord(Observed(kind, want, rec, host, host'))
           /\ step.action = "delete" => want # Undeclared /\ Applies /\ RecordAfter' = NoRecord
           /\ step.action = "destroy" => want = Undeclared /\ rec # NoRecord /\ Destroys /\ RecordAfter' = NoRecord
           /\ step.action = "adopt" =>
                want # Undeclared /\ Stays(kind, want, host, host') /\ RecordAfter' = NewRecord(step.seen)
           /\ step.action = "no-op" => Stays(kind, want, host, host') /\ RecordAfter' = rec
           /\ step.action = "forget" => host' = host /\ RecordAfter' = NoRecord
<1>1. CASE Call
  <2>1. /\ pc = "planned" /\ Calls /\ pc' = "called" /\ Frame
    BY <1>1 DEF Call, Frame
  <2>2. PICK o \in Outcomes :
          /\ o.ok
          /\ host' = Last(<<host>> \o o.via)
          /\ step' = IF step.action \in {"create", "update"}
                       THEN [step EXCEPT !.seen = Observed(kind, want, rec, host, host')] ELSE step
    BY <1>1 DEF Call
  <2>3. host' = Ends(host, o)
    BY <2>2 DEF Ends
  <2>4. host' \in HostSpace(kind)
    BY <2>1, <2>3, OutcomesClose
  <2>5. CASE step.action \in {"create", "update"}
    <3>1. step \in StepSpace
      BY <2>1, <2>5, PlannedFact
    <3>2. step' = [step EXCEPT !.seen = Observed(kind, want, rec, host, host')]
      BY <2>2, <2>5
    <3>3. /\ step'.action = step.action /\ step'.owner = step.owner
          /\ step'.seen = Observed(kind, want, rec, host, host')
      BY <3>1, <3>2 DEF StepSpace
    <3>4. want # Undeclared /\ Applies
      BY <2>1, <2>2, <2>3, <2>5, OutcomesClose DEF Applies
    <3>5. RecordAfter' = NewRecord(Observed(kind, want, rec, host, host'))
      BY <2>1, <2>5, <3>3 DEF RecordAfter, NewRecord, Frame
    <3> QED
      BY <2>1, <2>4, <2>5, <3>3, <3>4, <3>5 DEF ActionNames
  <2>6. CASE step.action = "delete"
    <3>1. want # Undeclared /\ Applies
      BY <2>1, <2>2, <2>3, <2>6, OutcomesClose DEF Applies
    <3>2. step' = step /\ RecordAfter' = NoRecord
      BY <2>2, <2>6 DEF RecordAfter
    <3> QED
      BY <2>1, <2>4, <2>6, <3>1, <3>2 DEF ActionNames
  <2>7. CASE step.action = "destroy"
    <3>1. want = Undeclared /\ rec # NoRecord /\ Destroys
      BY <2>1, <2>2, <2>3, <2>7, OutcomesClose DEF Destroys
    <3>2. step' = step /\ RecordAfter' = NoRecord
      BY <2>2, <2>7 DEF RecordAfter
    <3> QED
      BY <2>1, <2>4, <2>7, <3>1, <3>2 DEF ActionNames
  <2> QED
    BY <2>1, <2>5, <2>6, <2>7 DEF Calls
<1>2. CASE NoCall
  <2>1. /\ pc = "planned" /\ ~Calls /\ pc' = "called" /\ Frame /\ step' = step /\ Stays(kind, want, host, host')
    BY <1>2 DEF NoCall, Frame, Stays
  <2>2. step.action \in {"no-op", "adopt", "forget"} /\ (step.action = "adopt" => want # Undeclared)
    BY <2>1, PlannedFact DEF Calls, ActionNames, PlannedInv
  <2>3. host' \in HostSpace(kind) /\ (step.action = "forget" => host' = host)
    <3>1. CASE kind = "docker_compose_project" /\ want # Undeclared
      <4>1. host \in ComposeHost /\ HostSpace(kind) = ComposeHost /\ want \in Nodes(kind) /\ want \in ComposeNodes
        BY <2>1, <3>1, KindFact, HostSpaceOf, OtherNodes, PlannedFact DEF TypeInv
      <4>2. host' \in AfterFileStep(want, host)
        BY <2>1, <3>1 DEF Stays
      <4>3. step = PlanDockerComposeProject(want, rec, host) /\ Prior(rec)
        BY <2>1, <3>1, <4>1, PlannedFact, PlanDispatch, PriorFact DEF TypeInv
      <4>4. step.action # "forget"
        BY <4>1, <4>3, PlanComposeFact
      <4> QED
        BY <4>1, <4>2, <4>4, FileStepFact
    <3>2. CASE ~(kind = "docker_compose_project" /\ want # Undeclared)
      BY <2>1, <3>2 DEF TypeInv, Stays
    <3> QED
      BY <3>1, <3>2
  <2>4. CASE step.action = "no-op"
    <3>1. RecordAfter' = rec
      BY <2>1, <2>4 DEF RecordAfter, Frame
    <3> QED
      BY <2>1, <2>3, <2>4, <3>1 DEF ActionNames
  <2>5. CASE step.action = "adopt"
    <3>1. RecordAfter' = NewRecord(step.seen)
      BY <2>1, <2>5 DEF RecordAfter, NewRecord, Frame
    <3> QED
      BY <2>1, <2>2, <2>3, <2>5, <3>1 DEF ActionNames
  <2>6. CASE step.action = "forget"
    <3>1. RecordAfter' = NoRecord
      BY <2>1, <2>6 DEF RecordAfter
    <3> QED
      BY <2>1, <2>3, <2>6, <3>1 DEF ActionNames
  <2> QED
    BY <2>2, <2>4, <2>5, <2>6
<1> QED
  BY <1>1, <1>2

LEMMA NewRecordFact ==
    ASSUME TypeInv, want \in Nodes(kind), step.owner \in {"managed", "adopted"}, NEW seen \in Seen
    PROVE  /\ NewRecord(seen) \in RecordSpace(kind) /\ NewRecord(seen) # NoRecord
           /\ NewRecord(seen).desired = want /\ NewRecord(seen).original = seen.original
           /\ NewRecord(seen).sha = seen.sha
<1>1. /\ NewRecord(seen) \in RecordSpace(kind)
      /\ NewRecord(seen).desired = want /\ NewRecord(seen).original = seen.original
      /\ NewRecord(seen).sha = seen.sha
  BY DEF NewRecord, Seen, RecordSpace
<1> QED
  BY <1>1, KindFact

\* executeResourceStep keeps the types.
LEMMA ExecutionTyped ==
    ASSUME TypeInv, PlannedInv, Call \/ NoCall
    PROVE  TypeInv' /\ PlannedInv'
<1>1. kind \in AllKinds /\ IsRecord(kind, rec) /\ host \in HostSpace(kind)
  BY KindFact DEF TypeInv
<1>2. IsRecord(kind, RecordAfter')
  <2>1. pc = "planned" /\ step.action \in ActionNames \ {"error"} /\ host' \in HostSpace(kind)
    BY Execution
  <2>2. CASE step.action \in {"create", "update"}
    <3>1. want \in Nodes(kind) /\ step.owner \in {"managed", "adopted"}
      BY <2>1, <2>2, Execution, PlannedFact
    <3>2. Observed(kind, want, rec, host, host') \in Seen
      BY <1>1, <2>1, ObservedTyped
    <3>3. RecordAfter' = NewRecord(Observed(kind, want, rec, host, host'))
      BY <2>2, Execution
    <3> QED
      BY <3>1, <3>2, <3>3, NewRecordFact DEF IsRecord
  <2>3. CASE step.action = "adopt"
    <3>1. want \in Nodes(kind) /\ step.owner \in {"managed", "adopted"} /\ step.seen \in Seen
      BY <2>1, <2>3, Execution, PlannedFact
    <3>2. RecordAfter' = NewRecord(step.seen)
      BY <2>3, Execution
    <3> QED
      BY <3>1, <3>2, NewRecordFact DEF IsRecord
  <2>4. CASE step.action \in {"delete", "destroy", "forget"}
    BY <2>4, Execution DEF IsRecord
  <2>5. CASE step.action = "no-op"
    BY <1>1, <2>5, Execution
  <2> QED
    BY <2>1, <2>2, <2>3, <2>4, <2>5 DEF ActionNames
<1>3. /\ pc' = "called" /\ Frame /\ step'.action \in ActionNames \ {"error"} /\ host' \in HostSpace(kind)
  BY Execution
<1> QED
  BY <1>2, <1>3 DEF TypeInv, PlannedInv, Frame

LEMMA InitTyped == Init => TypeInv /\ PlannedInv
<1> SUFFICES ASSUME Init PROVE TypeInv /\ PlannedInv
  OBVIOUS
<1>1. kind \in Kinds /\ kind \in AllKinds /\ host \in Hosts(kind)
  BY KindsAssumption DEF Init
<1>2. host \in HostSpace(kind)
  BY <1>1, HostsFit
<1>3. left \in [edits : Int, drift : Int, faults : Int] /\ left.drift <= MaxDrift
  BY BoundsAssumption DEF Init
<1> QED
  BY <1>1, <1>2, <1>3 DEF Init, TypeInv, PlannedInv, IsRecord

LEMMA NextTyped ==
    ASSUME TypeInv, PlannedInv, [Next]_vars
    PROVE  TypeInv' /\ PlannedInv'
<1>1. CASE Plan
  <2>1. TypeInv'
    BY <1>1 DEF Plan, TypeInv
  <2>2. /\ step' = PlannedStep /\ PlannedStep.action # "error" /\ UNCHANGED <<kind, want, host, rec, clean>>
        /\ origin' = IF rec = NoRecord /\ clean THEN host ELSE origin
    BY <1>1 DEF Plan
  <2>3. PlannedStep' = PlannedStep
    BY <2>2 DEF PlannedStep, OrphanStep, ForgetOrphan
  <2> QED
    BY <2>1, <2>2, <2>3 DEF PlannedInv
<1>2. CASE PlanRefused
  BY <1>2 DEF PlanRefused, TypeInv, PlannedInv
<1>3. CASE Call \/ NoCall
  BY <1>3, ExecutionTyped
<1>4. CASE CallFails
  <2>1. host' \in HostSpace(kind)
    BY <1>4, OutcomesClose DEF CallFails, Ends
  <2> QED
    BY <1>4, <2>1 DEF CallFails, TypeInv, PlannedInv
<1>5. CASE CallCut
  <2>1. PICK o \in Outcomes : host' \in {host} \cup ToSet(o.via)
    BY <1>5 DEF CallCut
  <2>2. host' \in HostSpace(kind)
    BY <1>5, <2>1, OutcomesClose DEF CallCut, TypeInv
  <2>3. left' \in [edits : Int, drift : Int, faults : Int] /\ left'.drift <= MaxDrift
    BY <1>5 DEF CallCut, TypeInv
  <2> QED
    BY <1>5, <2>2, <2>3 DEF CallCut, TypeInv, PlannedInv
<1>6. CASE WriteRecord
  <2>1. rec' = RecordAfter /\ IsRecord(kind, RecordAfter)
    BY <1>6 DEF WriteRecord, TypeInv
  <2>2. clean' \in BOOLEAN
    BY <1>6 DEF WriteRecord
  <2> QED
    BY <1>6, <2>1, <2>2 DEF WriteRecord, TypeInv, PlannedInv
<1>7. CASE WriteRecordFails
  <2>1. IsRecord(kind, rec')
    BY <1>7 DEF WriteRecordFails, TypeInv
  <2>2. left' \in [edits : Int, drift : Int, faults : Int] /\ left'.drift <= MaxDrift
    BY <1>7 DEF WriteRecordFails, TypeInv
  <2> QED
    BY <1>7, <2>1, <2>2 DEF WriteRecordFails, TypeInv, PlannedInv
<1>8. CASE Edit
  <2>1. clean' \in BOOLEAN
    BY <1>8 DEF Edit
  <2>2. left' \in [edits : Int, drift : Int, faults : Int] /\ left'.drift <= MaxDrift
    BY <1>8 DEF Edit, TypeInv
  <2> QED
    BY <1>8, <2>1, <2>2 DEF Edit, TypeInv, PlannedInv
<1>9. CASE Drift
  <2>1. host' \in HostSpace(kind)
    BY <1>9, KindFact, HostsFit DEF Drift
  <2>2. left' \in [edits : Int, drift : Int, faults : Int] /\ left'.drift <= MaxDrift
    BY <1>9, BoundsAssumption DEF Drift, TypeInv
  <2> QED
    BY <1>9, <2>1, <2>2 DEF Drift, TypeInv, PlannedInv
<1>10. CASE UNCHANGED vars
  <2>1. PlannedStep' = PlannedStep /\ RecordAfter' = RecordAfter
    BY <1>10 DEF vars, PlannedStep, OrphanStep, ForgetOrphan, RecordAfter
  <2> QED
    BY <1>10, <2>1 DEF vars, TypeInv, PlannedInv
<1> QED
  BY <1>1, <1>2, <1>3, <1>4, <1>5, <1>6, <1>7, <1>8, <1>9, <1>10 DEF Next

\* The type invariant, and that the step which is executed is the plan of this
\* declaration, record and host (Engine.Plan before executeResourceStep).
THEOREM Typed == Spec => [](TypeInv /\ PlannedInv)
<1>1. TypeInv /\ PlannedInv /\ [Next]_vars => (TypeInv /\ PlannedInv)'
  BY NextTyped
<1> QED
  BY InitTyped, <1>1, PTL DEF Spec

\* A replacement of an archive that fails leaves the old archive or the new one
\* (applyComponentArchive and its rollback).
THEOREM ArchivesReplacedWhole == Spec => ArchiveReplacedWhole
<1>1. ASSUME TypeInv, PlannedInv, [Next]_vars, pc = "planned", pc' = "failed", kind = "component_archive",
             Exists(host.path)
      PROVE  host'.path = host.path \/ host'.path = Dir(want.content, "root")
  <2>1. CallFails
    BY <1>1 DEF Next, vars, Plan, PlanRefused, Call, CallCut, NoCall, WriteRecord, WriteRecordFails, Edit, Drift,
                Ended
  <2>2. PICK o \in Outcomes : ~o.ok /\ host' = Ends(host, o)
    BY <2>1 DEF CallFails, Ends
  <2>3. Calls /\ host \in PathHost
    BY <1>1, <2>1, HostSpaceOf DEF CallFails, TypeInv, PathKinds
  <2>4. CASE step.action = "destroy"
    <3>1. o \in RemoveDirectory(host)
      BY <1>1, <2>3, <2>4, OutcomesClose, DestroyDispatch
    <3> QED
      BY <2>2, <2>3, <3>1, RemoveDirectoryCall
  <2>5. CASE step.action # "destroy"
    <3>1. want \in Nodes("component_archive") /\ o \in ApplyComponentArchive(want, step, host)
      BY <1>1, <2>3, <2>5, OutcomesClose, ApplyOther
    <3>2. want.content \in Content
      BY <3>1, OtherNodes
    <3> QED
      BY <1>1, <2>2, <2>3, <3>1, <3>2, ArchiveCall
  <2> QED
    BY <2>4, <2>5
<1>2. TypeInv /\ PlannedInv /\ [Next]_vars =>
        [pc = "planned" /\ pc' = "failed" /\ kind = "component_archive" /\ Exists(host.path) =>
           host'.path = host.path \/ host'.path = Dir(want.content, "root")]_vars
  BY <1>1
<1> QED
  BY Typed, <1>2, PTL DEF Spec, ArchiveReplacedWhole

LEMMA ExecutedFact ==
    ASSUME [Next]_vars, Executed PROVE Call \/ NoCall
  BY DEF Executed, Next, vars, Plan, PlanRefused, CallFails, CallCut, WriteRecord, WriteRecordFails, Edit, Drift

\* Which kinds a deletion can be of.
LEMMA DeletionKinds ==
    ASSUME TypeInv, PlannedInv, Call \/ NoCall, step.action \in {"delete", "destroy"}
    PROVE  /\ kind \notin {"component_script_output", "system_hostname", "system_timezone", "system_locale"}
           /\ kind = "apt_source_file" => rec # NoRecord
<1>0. pc = "planned" /\ kind \in AllKinds /\ host \in HostSpace(kind) /\ IsRecord(kind, rec)
  BY Execution, KindFact DEF TypeInv
<1>1. CASE step.action = "destroy"
  <2>1. want = Undeclared /\ rec # NoRecord
    BY <1>1, Execution
  <2>2. step = OrphanStep
    BY <1>0, <2>1 DEF PlannedInv, PlannedStep
  <2>3. ~ForgetOrphan
    BY <1>1, <2>1, <2>2, OrphanFact
  <2> QED
    BY <2>1, <2>3 DEF ForgetOrphan
<1>2. CASE step.action = "delete"
  <2>1. step = ProviderPlan(kind, want, rec, host) /\ want \in Nodes(kind)
    BY <1>0, <1>2, Execution, PlannedFact
  <2>2. Prior(rec)
    BY <1>0, PriorFact
  <2>3. ASSUME kind = "component_script_output" PROVE FALSE
    <3>1. host \in PathHost /\ step = PlanComponentScriptOutput(want, rec, host)
      BY <1>0, <2>1, <2>3, HostSpaceOf, PlanDispatch DEF PathKinds
    <3>2. step.action \in {"create", "update", "no-op"}
      BY <2>2, <3>1, PlanScriptFact
    <3> QED
      BY <1>2, <3>2
  <2>4. ASSUME kind \in {"system_hostname", "system_timezone", "system_locale"} PROVE FALSE
    <3>1. host \in SettingHost
      BY <1>0, <2>4, HostSpaceOf
    <3>2. step \in {PlanSystemHostname(want, rec, host), PlanSystemTimezone(want, rec, host),
                    PlanSystemLocale(want, rec, host)}
      BY <2>1, <2>4, PlanDispatch
    <3> QED
      BY <1>2, <2>2, <3>1, <3>2, NoSettingDeletion
  <2>5. ASSUME kind = "apt_source_file" PROVE rec # NoRecord
    <3>1. host \in PathHost /\ want \in Nodes("apt_source_file") /\ step = PlanAptSourceFile(want, rec, host)
      BY <1>0, <2>1, <2>5, HostSpaceOf, PlanDispatch DEF PathKinds
    <3>2. want.sensitive \in BOOLEAN /\ (rec # NoRecord => rec.original \in PathSpace \cup {NoOriginal})
      BY <1>0, <3>1, OtherNodes, RecordFact DEF IsRecord
    <3> QED
      BY <1>2, <2>2, <3>1, <3>2, PlanAptSourceFact
  <2> QED
    BY <2>3, <2>4, <2>5
<1> QED
  BY <1>1, <1>2

Honest ==
    step.action \in {"delete", "destroy", "forget"} =>
      LET d == IF step.action = "delete" THEN want ELSE rec.desired
          b == DeleteBehavior(kind, step.action, d)
      IN  /\ b # "unknown"
          /\ b = "forget" => host' = host
          /\ b = "restore-original" /\ rec.original # NoOriginal /\ ~Obstructed => host'.path = rec.original
          /\ b = "remove-managed-artifact" =>
               IF kind = "sysctl" THEN host'.value = host.value ELSE ~Exists(host'.path)

\* A deletion that is executed, by kind.
LEMMA DeletionsHonest ==
    ASSUME TypeInv, PlannedInv, Call \/ NoCall
    PROVE  Honest
<1>0. pc = "planned" /\ kind \in AllKinds /\ host \in HostSpace(kind) /\ IsRecord(kind, rec)
  BY Execution, KindFact DEF TypeInv
<1>1. CASE step.action = "forget"
  BY <1>1, Execution DEF Honest, DeleteBehavior
<1>2. CASE step.action \in {"delete", "destroy"}
  <2>1. PICK d : d = IF step.action = "delete" THEN want ELSE rec.desired
    OBVIOUS
  <2>2. d \in Nodes(kind)
    BY <1>0, <1>2, <2>1, Execution, PlannedFact, RecordFact DEF IsRecord
  <2>3. PICK b : b = DeleteBehavior(kind, step.action, d)
    OBVIOUS
  <2>4. SUFFICES /\ b # "unknown"
                 /\ b = "forget" => host' = host
                 /\ b = "restore-original" /\ rec.original # NoOriginal /\ ~Obstructed => host'.path = rec.original
                 /\ b = "remove-managed-artifact" =>
                      IF kind = "sysctl" THEN host'.value = host.value ELSE ~Exists(host'.path)
    BY <2>1, <2>3 DEF Honest
  <2>5. CASE kind = "apt_source_file"
    <3>1. host \in PathHost /\ rec # NoRecord /\ rec.original \in PathSpace \cup {NoOriginal}
          /\ rec \in RecordSpace(kind)
      BY <1>0, <1>2, <2>5, HostSpaceOf, DeletionKinds, RecordFact DEF PathKinds, IsRecord
    <3>2. b = IF d.on_destroy = "restore" THEN "restore-original" ELSE "forget"
      BY <1>2, <2>3, <2>5 DEF DeleteBehavior
    <3>3. IF d.on_destroy = "restore" THEN Restores(rec, host, host') ELSE host' = host
      <4>1. CASE step.action = "destroy"
        <5>1. PICK o \in DestroyAptSourceFile(rec, host) : o.ok /\ host' = Ends(host, o)
          BY <2>5, <4>1, Execution, DestroyDispatch, Zenon DEF Destroys
        <5> QED
          BY <2>1, <3>1, <4>1, <5>1, AptSourceDestroy
      <4>2. CASE step.action = "delete"
        <5>1. PICK o \in ApplyAptSourceFile(want, step, rec, host) : o.ok /\ host' = Ends(host, o)
          BY <2>5, <4>2, Execution, ApplyOther DEF Applies
        <5>2. want.content \in Content /\ Removes(want, step) /\ d = want
          BY <2>1, <2>2, <2>5, <4>2, OtherNodes DEF Removes
        <5> QED
          BY <3>1, <5>1, <5>2, AptSourceCall
      <4> QED
        BY <1>2, <4>1, <4>2
    <3> QED
      BY <2>5, <3>2, <3>3 DEF Restores, Obstructed, PathKinds
  <2>6. CASE kind = "sysctl"
    <3>1. b = "remove-managed-artifact"
      BY <1>2, <2>3, <2>6 DEF DeleteBehavior
    <3>2. host \in SysctlHost /\ d.value \in {"1", "2", "4_5"}
      BY <1>0, <2>2, <2>6, HostSpaceOf, OtherNodes
    <3>3. \E s : Removes(d, s) /\ \E o \in ApplySysctl(d, s, host) : host' = Ends(host, o)
      <4>1. CASE step.action = "destroy"
        <5>1. PICK o \in ProviderDestroy("sysctl", rec, host) : host' = Ends(host, o)
          BY <2>6, <4>1, Execution DEF Destroys
        <5>2. ProviderDestroy("sysctl", rec, host) = ProviderApply("sysctl", rec.desired, DestroyStep(rec), rec, host)
          BY DestroyDispatch DEF DestroyStep
        <5>3. o \in ApplySysctl(d, DestroyStep(rec), host)
          BY <2>1, <4>1, <5>1, <5>2, ApplyOther
        <5> QED
          BY <5>1, <5>3, DestroyStepRemoves
      <4>2. CASE step.action = "delete"
        BY <2>1, <2>6, <4>2, Execution, ApplyOther DEF Applies, Removes
      <4> QED
        BY <1>2, <4>1, <4>2
    <3> QED
      BY <2>6, <3>1, <3>2, <3>3, SysctlCall
  <2>7. CASE kind \in {"apt_signing_key", "component_download", "component_build"}
    <3>1. b = "remove-managed-artifact"
      BY <1>2, <2>3, <2>7 DEF DeleteBehavior
    <3>2. host \in PathHost
      BY <1>0, <2>7, HostSpaceOf DEF PathKinds
    <3>3. Takes(host, host')
      <4>1. CASE step.action = "destroy"
        <5>0. ProviderDestroy(kind, rec, host) = RemovePath(host)
          BY <2>7 DEF ProviderDestroy
        <5>1. PICK o \in RemovePath(host) : o.ok /\ host' = Ends(host, o)
          BY <4>1, <5>0, Execution DEF Destroys
        <5> QED
          BY <3>2, <5>1, RemoveTakes
      <4>2. CASE step.action = "delete"
        <5>1. PICK o \in ProviderApply(kind, want, step, rec, host) : o.ok /\ host' = Ends(host, o)
          BY <4>2, Execution DEF Applies
        <5>2. Removes(want, step) /\ want \in Nodes(kind) /\ kind \in InstallKinds
          BY <2>1, <2>2, <2>7, <4>2 DEF Removes, InstallKinds
        <5> QED
          BY <3>2, <5>1, <5>2, InstallCall
      <4> QED
        BY <1>2, <4>1, <4>2
    <3> QED
      BY <2>7, <3>1, <3>3, PathFact DEF Takes
  <2>8. CASE kind \notin {"apt_source_file", "sysctl", "apt_signing_key", "component_download", "component_build"}
    <3>1. b \in {"external-side-effect", "destructive"}
      BY <1>0, <1>2, <2>3, <2>8, DeletionKinds DEF DeleteBehavior, AllKinds, PathKinds
    <3> QED
      BY <3>1
  <2> QED
    BY <2>5, <2>6, <2>7, <2>8
<1>3. CASE step.action \notin {"delete", "destroy", "forget"}
  BY <1>3 DEF Honest
<1> QED
  BY <1>1, <1>2, <1>3

\* A deletion does what deleteDiagnosticForStep said of it beforehand, whatever
\* Apply and Destroy of the kind run.
THEOREM DiagnosticsHonest == Spec => DiagnosticHonest
<1>1. TypeInv /\ PlannedInv /\ [Next]_vars => (Executed => Honest)
  BY ExecutedFact, DeletionsHonest
<1>2. TypeInv /\ PlannedInv /\ [Next]_vars =>
       [Executed /\ step.action \in {"delete", "destroy", "forget"} =>
         LET d == IF step.action = "delete" THEN want ELSE rec.desired
             b == DeleteBehavior(kind, step.action, d)
         IN  /\ b # "unknown"
             /\ b = "forget" => host' = host
             /\ b = "restore-original" /\ rec.original # NoOriginal /\ ~Obstructed => host'.path = rec.original
             /\ b = "remove-managed-artifact" =>
                  IF kind = "sysctl" THEN host'.value = host.value ELSE ~Exists(host'.path)]_vars
  BY <1>1 DEF Honest
<1> QED
  BY Typed, <1>2, PTL DEF Spec, DiagnosticHonest

\* The conclusion of LeavesTheRest, by kind.
RestLeft ==
    /\ kind = "ssh_authorized_key" => host'.keys \ {"k"} = host.keys \ {"k"}
    /\ kind = "user" /\ want.ensure = "present" /\ host.exists =>
         /\ host'.primary = host.primary
         /\ want.groups = {} => host'.groups = host.groups
         /\ want.shell = "unset" => host'.shell = host.shell
    /\ kind = "group" /\ want.ensure = "present" /\ host.exists /\ want.gid = "unset" => host' = host
    /\ kind = "service" =>
         /\ want.enabled = "unset" => host'.enabled = host.enabled
         /\ want.state = "unset" => host'.active = host.active
    /\ kind = "user_group_membership" => host'.primary = host.primary
    /\ kind = "docker_compose_project" =>
         \A p \in Project : host'[p].orphan # host[p].orphan =>
             p = want.project /\ (want.remove_orphans \/ host[p].orphan = "none")
    /\ kind = "component_archive" => ~Exists(host'.aside) \/ host'.aside = host.aside

\* A call that is executed, by kind.
LEMMA CallsLeaveTheRest ==
    ASSUME TypeInv, PlannedInv, Call \/ NoCall, step.action \in {"create", "update", "delete"}
    PROVE  RestLeft
<1>0. pc = "planned" /\ kind \in AllKinds /\ host \in HostSpace(kind) /\ IsRecord(kind, rec) /\ want \in Nodes(kind)
  BY Execution, KindFact DEF TypeInv
<1>1. PICK o \in ProviderApply(kind, want, step, rec, host) : o.ok /\ host' = Ends(host, o)
  BY Execution DEF Applies
<1>2. ASSUME kind = "ssh_authorized_key" PROVE host'.keys \ {"k"} = host.keys \ {"k"}
  <2>1. host \in KeyHost /\ o \in ApplyAuthorizedKey(want, step, host)
    BY <1>0, <1>1, <1>2, HostSpaceOf, ApplyOther
  <2> QED
    BY <1>1, <2>1, KeyCall
<1>3. ASSUME kind = "user", want.ensure = "present", host.exists
      PROVE  /\ host'.primary = host.primary
             /\ want.groups = {} => host'.groups = host.groups
             /\ want.shell = "unset" => host'.shell = host.shell
  <2>1. host \in UserHost /\ o \in ApplyUser(want, step, host)
    BY <1>0, <1>1, <1>3, HostSpaceOf, ApplyOther
  <2>2. want.shell \in {"unset", "sh", "zsh"} /\ want.groups \in SUBSET {"g", "w"}
    BY <1>0, <1>3, OtherNodes
  <2>3. step.action # "delete"
    <3>1. step = PlanUser(want, rec, host)
      BY <1>0, <1>3, Execution, PlannedFact, PlanDispatch
    <3>2. Prior(rec)
      BY <1>0, PriorFact
    <3> QED
      BY <1>3, <2>1, <3>1, <3>2, PlanUserFact DEF EnsuredAction
  <2>4. ~Removes(want, step)
    BY <1>3, <2>3 DEF Removes
  <2> QED
    BY <1>1, <1>3, <2>1, <2>2, <2>4, UserCall
<1>4. ASSUME kind = "group", want.ensure = "present", host.exists, want.gid = "unset" PROVE host' = host
  <2>1. host \in GroupHost /\ o \in ApplyGroup(want, step, host) /\ want.gid \in {"unset", "1", "2"}
    BY <1>0, <1>1, <1>4, HostSpaceOf, ApplyOther, OtherNodes
  <2>2. step.action # "delete"
    <3>1. step = PlanGroup(want, rec, host)
      BY <1>0, <1>4, Execution, PlannedFact, PlanDispatch
    <3>2. Prior(rec)
      BY <1>0, PriorFact
    <3> QED
      BY <1>4, <2>1, <3>1, <3>2, PlanGroupFact DEF EnsuredAction
  <2>3. ~Removes(want, step)
    BY <1>4, <2>2 DEF Removes
  <2>4. host' \in Groups /\ host'.gid = host.gid /\ host \in Groups
    BY <1>1, <1>4, <2>1, <2>3, GroupCall, GroupFact
  <2>5. PICK a \in Groups : a = host
    BY <2>4
  <2>6. PICK b \in Groups : b = host'
    BY <2>4
  <2>7. a = [exists |-> TRUE, gid |-> a.gid] /\ b = [exists |-> TRUE, gid |-> b.gid]
    BY DEF Groups
  <2> QED
    BY <2>4, <2>5, <2>6, <2>7
<1>5. ASSUME kind = "service"
      PROVE  /\ want.enabled = "unset" => host'.enabled = host.enabled
             /\ want.state = "unset" => host'.active = host.active
  <2>1. host \in ServiceHost /\ o \in ApplyService(want, host)
    BY <1>0, <1>1, <1>5, HostSpaceOf, ApplyOther
  <2>2. /\ want.enabled \in {"unset", "yes", "no"}
        /\ want.state \in {"unset", "running", "stopped", "restarted", "reloaded"}
    BY <1>0, <1>5, OtherNodes
  <2> QED
    BY <1>1, <2>1, <2>2, ServiceCall
<1>6. ASSUME kind = "user_group_membership" PROVE host'.primary = host.primary
  <2>1. host \in MemberHost /\ o \in ApplyUserGroupMembership(want, step, host) /\ want.managed \in BOOLEAN
    BY <1>0, <1>1, <1>6, HostSpaceOf, ApplyOther, OtherNodes
  <2> QED
    BY <1>1, <2>1, MemberCall
<1>7. ASSUME kind = "docker_compose_project", NEW p \in Project, host'[p].orphan # host[p].orphan
      PROVE  p = want.project /\ (want.remove_orphans \/ host[p].orphan = "none")
  <2>1. host \in ComposeHost /\ o \in ApplyDockerComposeProject(want, rec, host)
    BY <1>0, <1>1, <1>7, HostSpaceOf, ApplyOther
  <2>2. want \in ComposeNodes /\ (rec = NoRecord \/ rec.desired \in ComposeNodes)
    BY <1>0, <1>7, OtherNodes, RecordFact DEF IsRecord
  <2> QED
    BY <1>1, <1>7, <2>1, <2>2, ComposeCall
<1>8. ASSUME kind = "component_archive" PROVE ~Exists(host'.aside) \/ host'.aside = host.aside
  <2>1. host \in PathHost /\ o \in ApplyComponentArchive(want, step, host) /\ want.content \in Content
    BY <1>0, <1>1, <1>8, HostSpaceOf, ApplyOther, OtherNodes DEF PathKinds
  <2>2. CASE Removes(want, step)
    BY <1>1, <2>1, <2>2, ArchiveCall
  <2>3. CASE ~Removes(want, step)
    BY <1>1, <2>1, <2>3, ArchiveCall, PathFact
  <2> QED
    BY <2>2, <2>3
<1> QED
  BY <1>2, <1>3, <1>4, <1>5, <1>6, <1>7, <1>8 DEF RestLeft

\* What Apply of a kind runs changes nothing that the declaration does not speak
\* of (userFlags, applyService, applyAuthorizedKey, dockerComposeProjectCommand).
THEOREM StepsLeaveTheRest == Spec => LeavesTheRest
<1>1. TypeInv /\ PlannedInv /\ [Next]_vars =>
        (Executed /\ step.action \in {"create", "update", "delete"} => RestLeft)
  BY ExecutedFact, CallsLeaveTheRest
<1>2. TypeInv /\ PlannedInv /\ [Next]_vars =>
      [Executed /\ step.action \in {"create", "update", "delete"} =>
         CASE kind = "ssh_authorized_key" -> host'.keys \ {"k"} = host.keys \ {"k"}
           [] kind = "user" -> want.ensure = "present" /\ host.exists =>
                /\ host'.primary = host.primary
                /\ want.groups = {} => host'.groups = host.groups
                /\ want.shell = "unset" => host'.shell = host.shell
           [] kind = "group" -> want.ensure = "present" /\ host.exists /\ want.gid = "unset" => host' = host
           [] kind = "service" ->
                /\ want.enabled = "unset" => host'.enabled = host.enabled
                /\ want.state = "unset" => host'.active = host.active
           [] kind = "user_group_membership" -> host'.primary = host.primary
           [] kind = "docker_compose_project" ->
                \A p \in Project : host'[p].orphan # host[p].orphan =>
                    p = want.project /\ (want.remove_orphans \/ host[p].orphan = "none")
           [] kind = "component_archive" -> ~Exists(host'.aside) \/ host'.aside = host.aside
           [] OTHER -> TRUE]_vars
  BY <1>1 DEF RestLeft
<1> QED
  BY Typed, <1>2, PTL DEF Spec, LeavesTheRest

-----------------------------------------------------------------------------
(* The original of a source file.                                          *)

\* The record keeps the original that it has saved, and it is what was there first
\* where every write is in the record.
OriginalInv ==
    kind = "apt_source_file" =>
      /\ clean /\ rec # NoRecord => rec.original = OriginalFrom(origin.path)
      /\ pc = "called" /\ step.action \in {"create", "update", "adopt"} /\ ~want.sensitive =>
           /\ clean => step.seen.original = OriginalFrom(origin.path)
           /\ rec # NoRecord /\ rec.original # NoOriginal => step.seen.original = rec.original

\* What an executed step has seen of the original.
LEMMA OriginalSeen ==
    ASSUME TypeInv, PlannedInv, Call \/ NoCall, kind = "apt_source_file",
           step.action \in {"create", "update", "adopt"}
    PROVE  ~want.sensitive => step'.seen.original = AptSourceOriginal(rec, host.path)
<1>0. pc = "planned" /\ host' \in HostSpace(kind)
  BY Execution
<1>1. host \in PathHost /\ IsRecord(kind, rec) /\ kind \in AllKinds
  BY HostSpaceOf, KindFact DEF TypeInv, PathKinds
<1>2. CASE step.action \in {"create", "update"}
  <2>1. Call /\ step \in StepSpace
    BY <1>0, <1>2, Execution, PlannedFact DEF NoCall, Calls
  <2>2. step' = [step EXCEPT !.seen = Observed(kind, want, rec, host, host')]
    BY <1>2, <2>1 DEF Call
  <2>3. step'.seen = Observed(kind, want, rec, host, host')
    BY <2>1, <2>2 DEF StepSpace
  <2>4. host \in HostSpace(kind)
    BY DEF TypeInv
  <2>5. Observed(kind, want, rec, host, host').original =
          IF kind = "apt_source_file" /\ ~want.sensitive THEN AptSourceOriginal(rec, host.path) ELSE NoOriginal
    BY <1>0, <1>1, <2>4, ObservedTyped
  <2> QED
    BY <2>3, <2>5, Zenon
<1>3. CASE step.action = "adopt"
  <2>1. step' = step /\ want # Undeclared
    BY <1>3, Execution DEF Call, NoCall, Calls
  <2>2. want \in Nodes("apt_source_file") /\ step = PlanAptSourceFile(want, rec, host)
    BY <1>0, <2>1, PlannedFact, PlanDispatch
  <2>3. want.sensitive \in BOOLEAN /\ (rec # NoRecord => rec.original \in PathSpace \cup {NoOriginal})
    BY <1>1, <2>2, OtherNodes, RecordFact DEF IsRecord
  <2>4. Prior(rec)
    BY <1>1, PriorFact
  <2>5. want.ensure # "absent"
    BY <1>1, <1>3, <2>2, <2>3, <2>4, PlanAptSourceFact
  <2>6. ~want.sensitive => step.seen.original = AptSourceOriginal(rec, host.path)
    BY <1>1, <1>3, <2>2, <2>3, <2>4, <2>5, PlanAptSourceFact
  <2> QED
    BY <2>1, <2>6
<1> QED
  BY <1>2, <1>3

\* A call keeps the original.
LEMMA OriginalExecution ==
    ASSUME TypeInv, PlannedInv, OriginalInv, Call \/ NoCall PROVE OriginalInv'
<1> SUFFICES ASSUME kind = "apt_source_file" PROVE OriginalInv'
  BY Execution DEF Frame, OriginalInv
<1>0. pc = "planned" /\ pc' = "called" /\ Frame /\ step'.action = step.action
  BY Execution
<1>1. host \in PathHost /\ origin \in PathHost
  BY HostSpaceOf, KindFact DEF TypeInv, PathKinds
<1>2. clean /\ rec # NoRecord => rec.original = OriginalFrom(origin.path)
  BY DEF OriginalInv
<1>3. OriginalFrom(origin.path) # NoOriginal
  BY <1>1, HostFact, OriginalFact, KindsAssumption DEF PathSpace
<1>4. /\ clean => AptSourceOriginal(rec, host.path) = OriginalFrom(origin.path)
      /\ rec # NoRecord /\ rec.original # NoOriginal => AptSourceOriginal(rec, host.path) = rec.original
  <2>1. CASE rec = NoRecord
    BY <1>0, <2>1 DEF PlannedInv, AptSourceOriginal
  <2>2. CASE rec # NoRecord
    BY <1>2, <1>3, <2>2 DEF AptSourceOriginal
  <2> QED
    BY <2>1, <2>2
<1>5. step.action \in {"create", "update", "adopt"} /\ ~want.sensitive =>
        step'.seen.original = AptSourceOriginal(rec, host.path)
  BY OriginalSeen
<1> QED
  BY <1>0, <1>2, <1>4, <1>5 DEF OriginalInv, Frame

\* A source file that is given up gets what the record has saved of it, or is
\* left alone.
LEMMA OriginalGivenUp ==
    ASSUME TypeInv, PlannedInv, OriginalInv, Call \/ NoCall, kind = "apt_source_file",
           step.action \in {"delete", "destroy", "forget"}
    PROVE  IF GivenBack
             THEN /\ Obstructed \/ host'.path = IF rec.original = NoOriginal THEN Missing ELSE rec.original
                  /\ clean => rec.original = OriginalFrom(origin.path)
             ELSE host' = host
<1>0. pc = "planned" /\ host' \in HostSpace(kind)
  BY Execution
<1>1. host \in PathHost /\ IsRecord(kind, rec) /\ kind \in AllKinds /\ Prior(rec)
  BY HostSpaceOf, KindFact, PriorFact DEF TypeInv, PathKinds
<1>2. rec # NoRecord
  <2>1. CASE want = Undeclared
    BY <1>0, <2>1, OrphanFact DEF PlannedInv, PlannedStep
  <2>2. CASE want # Undeclared
    <3>1. want \in Nodes("apt_source_file") /\ step = PlanAptSourceFile(want, rec, host)
      BY <1>0, <2>2, PlannedFact, PlanDispatch
    <3>2. want.sensitive \in BOOLEAN /\ (rec # NoRecord => rec.original \in PathSpace \cup {NoOriginal})
      BY <1>1, <3>1, OtherNodes, RecordFact DEF IsRecord
    <3> QED
      BY <1>1, <3>1, <3>2, PlanAptSourceFact
  <2> QED
    BY <2>1, <2>2
<1>3. /\ rec \in RecordSpace(kind) /\ rec.original \in PathSpace \cup {NoOriginal}
      /\ rec.desired.on_destroy \in {"keep", "restore"} /\ rec.owner \in {"managed", "adopted"}
  BY <1>1, <1>2, RecordFact, OtherNodes DEF IsRecord, Prior
<1>4. clean => rec.original = OriginalFrom(origin.path)
  BY <1>2 DEF OriginalInv
<1>5. CASE want = Undeclared
  <2>1. step.action = IF rec.owner = "adopted" \/ rec.desired.on_destroy = "keep" THEN "forget" ELSE "destroy"
    BY <1>0, <1>2, <1>5, OrphanFact DEF PlannedInv, PlannedStep, ForgetOrphan
  <2>2. CASE GivenBack
    <3>1. rec.desired.on_destroy = "restore" /\ step.action = "destroy"
      BY <1>5, <2>1, <2>2 DEF GivenBack
    <3>2. PICK o \in DestroyAptSourceFile(rec, host) : o.ok /\ host' = Ends(host, o)
      BY <3>1, Execution, DestroyDispatch, Zenon DEF Destroys
    <3>3. Restores(rec, host, host')
      BY <1>1, <1>2, <1>3, <3>1, <3>2, AptSourceDestroy
    <3> QED
      BY <1>4, <2>2, <3>3 DEF Restores, Obstructed, PathKinds
  <2>3. CASE ~GivenBack
    <3>1. step.action = "forget"
      BY <1>3, <1>5, <2>1, <2>3 DEF GivenBack
    <3> QED
      BY <2>3, <3>1, Execution
  <2> QED
    BY <2>2, <2>3
<1>6. CASE want # Undeclared
  <2>1. want \in Nodes("apt_source_file") /\ step = PlanAptSourceFile(want, rec, host) /\ step.action # "destroy"
    BY <1>0, <1>6, PlannedFact, PlanDispatch
  <2>2. /\ want.sensitive \in BOOLEAN /\ want.content \in Content /\ want.on_destroy \in {"keep", "restore"}
    BY <2>1, OtherNodes
  <2>3. step.action = IF want.on_destroy = "keep" THEN "forget" ELSE "delete"
    BY <1>1, <1>2, <1>3, <2>1, <2>2, PlanAptSourceFact
  <2>4. CASE GivenBack
    <3>1. want.on_destroy = "restore" /\ step.action = "delete" /\ Removes(want, step)
      BY <1>6, <2>3, <2>4 DEF GivenBack, Removes
    <3>2. PICK o \in ApplyAptSourceFile(want, step, rec, host) : o.ok /\ host' = Ends(host, o)
      BY <2>1, <3>1, Execution, ApplyOther DEF Applies
    <3>3. Restores(rec, host, host')
      BY <1>1, <1>2, <1>3, <2>2, <3>1, <3>2, AptSourceCall
    <3> QED
      BY <1>4, <2>4, <3>3 DEF Restores, Obstructed, PathKinds
  <2>5. CASE ~GivenBack
    <3>1. step.action = "forget"
      BY <1>6, <2>2, <2>3, <2>5 DEF GivenBack
    <3> QED
      BY <2>5, <3>1, Execution
  <2> QED
    BY <2>4, <2>5
<1> QED
  BY <1>5, <1>6

\* The record that a run writes has the original that the record had.
LEMMA OriginalKept ==
    ASSUME TypeInv, PlannedInv, OriginalInv, [Next]_vars, kind = "apt_source_file",
           rec # NoRecord, rec' # NoRecord, rec.original # NoOriginal, ~rec'.desired.sensitive
    PROVE  rec'.original = rec.original
<1>1. CASE WriteRecord \/ WriteRecordFails
  <2>1. pc = "called" /\ rec' \in {rec, RecordAfter}
    BY <1>1 DEF WriteRecord, WriteRecordFails
  <2>2. CASE rec' # rec /\ step.action \in {"create", "update", "adopt"}
    <3>1. rec' = [desired |-> want, owner |-> step.owner, original |-> step.seen.original, sha |-> step.seen.sha]
      BY <2>1, <2>2 DEF RecordAfter
    <3>2. rec'.desired = want /\ rec'.original = step.seen.original
      BY <3>1
    <3> QED
      BY <2>1, <2>2, <3>2 DEF OriginalInv
  <2>3. CASE rec' # rec /\ step.action \in {"no-op", "delete", "destroy", "forget"}
    BY <2>1, <2>3 DEF RecordAfter
  <2> QED
    BY <2>1, <2>2, <2>3 DEF TypeInv, ActionNames
<1>2. CASE ~(WriteRecord \/ WriteRecordFails)
  <2>1. rec' = rec
    BY <1>2 DEF Next, vars, Plan, PlanRefused, Call, CallFails, CallCut, NoCall, Edit, Drift
  <2> QED
    BY <2>1
<1> QED
  BY <1>1, <1>2

LEMMA OriginalNext ==
    ASSUME TypeInv, PlannedInv, OriginalInv, [Next]_vars PROVE OriginalInv'
<1>1. CASE Plan
  BY <1>1 DEF Plan, OriginalInv
<1>2. CASE PlanRefused
  BY <1>2 DEF PlanRefused, OriginalInv
<1>3. CASE Call \/ NoCall
  BY <1>3, OriginalExecution
<1>4. CASE CallFails \/ CallCut \/ WriteRecordFails
  BY <1>4 DEF CallFails, CallCut, WriteRecordFails, OriginalInv
<1>5. CASE WriteRecord
  <2> SUFFICES ASSUME kind = "apt_source_file", clean, ~Unsaved PROVE OriginalInv'
    BY <1>5 DEF WriteRecord, OriginalInv
  <2>1. rec' = RecordAfter /\ UNCHANGED <<kind, want, host, step, origin>> /\ pc = "called" /\ pc' = "done"
    BY <1>5 DEF WriteRecord
  <2>2. ASSUME rec' # NoRecord PROVE rec'.original = OriginalFrom(origin.path)
    <3>1. CASE step.action = "no-op"
      <4>1. RecordAfter = rec
        BY <3>1 DEF RecordAfter
      <4> QED
        BY <2>1, <2>2, <4>1 DEF OriginalInv
    <3>2. CASE step.action \in {"create", "update", "adopt"}
      <4>1. rec' = [desired |-> want, owner |-> step.owner, original |-> step.seen.original, sha |-> step.seen.sha]
        BY <2>1, <3>2 DEF RecordAfter
      <4>2. rec'.desired = want /\ rec'.original = step.seen.original
        BY <4>1
      <4>3. ~want.sensitive
        BY <2>2, <4>2 DEF Unsaved
      <4> QED
        BY <2>1, <3>2, <4>2, <4>3 DEF OriginalInv
    <3>3. CASE step.action \in {"delete", "destroy", "forget"}
      BY <2>1, <2>2, <3>3 DEF RecordAfter
    <3>4. step.action # "error"
      BY <2>1 DEF TypeInv
    <3> QED
      BY <2>1, <3>1, <3>2, <3>3, <3>4 DEF TypeInv, ActionNames
  <2> QED
    BY <2>1, <2>2 DEF OriginalInv
<1>6. CASE Edit
  BY <1>6 DEF Edit, OriginalInv, Ended
<1>7. CASE Drift
  BY <1>7 DEF Drift, OriginalInv
<1>8. CASE UNCHANGED vars
  BY <1>8 DEF vars, OriginalInv
<1> QED
  BY <1>1, <1>2, <1>3, <1>4, <1>5, <1>6, <1>7, <1>8 DEF Next

\* A source file that is given up gets the original that the record has saved, or
\* is left alone; a saved original is never replaced, and it is what was there
\* before dbf wrote if every write is in the record (restoreAPTSourceFile,
\* aptSourceOriginal).
THEOREM OriginalsRestored == Spec => RestoresOriginal
<1>1. Init => OriginalInv
  BY DEF Init, OriginalInv
<1>2. TypeInv /\ PlannedInv /\ OriginalInv /\ [Next]_vars => OriginalInv'
  BY OriginalNext
<1>3. TypeInv /\ PlannedInv /\ OriginalInv /\ [Next]_vars =>
      [kind = "apt_source_file" =>
         /\ Executed /\ step.action \in {"delete", "destroy", "forget"} =>
              IF GivenBack
                THEN /\ Obstructed \/ host'.path = IF rec.original = NoOriginal THEN Missing ELSE rec.original
                     /\ clean => rec.original = OriginalFrom(origin.path)
                ELSE host' = host
         /\ rec # NoRecord /\ rec' # NoRecord /\ rec.original # NoOriginal /\ ~rec'.desired.sensitive =>
              rec'.original = rec.original]_vars
  <2> SUFFICES ASSUME TypeInv, PlannedInv, OriginalInv, [Next]_vars, kind = "apt_source_file"
               PROVE  /\ Executed /\ step.action \in {"delete", "destroy", "forget"} =>
                           IF GivenBack
                             THEN /\ \/ Obstructed
                                     \/ host'.path = IF rec.original = NoOriginal THEN Missing ELSE rec.original
                                  /\ clean => rec.original = OriginalFrom(origin.path)
                             ELSE host' = host
                      /\ rec # NoRecord /\ rec' # NoRecord /\ rec.original # NoOriginal /\ ~rec'.desired.sensitive =>
                           rec'.original = rec.original
    OBVIOUS
  <2>1. ASSUME Executed, step.action \in {"delete", "destroy", "forget"}
        PROVE  IF GivenBack
                 THEN /\ Obstructed \/ host'.path = IF rec.original = NoOriginal THEN Missing ELSE rec.original
                      /\ clean => rec.original = OriginalFrom(origin.path)
                 ELSE host' = host
    <3>1. Call \/ NoCall
      BY <2>1, ExecutedFact
    <3> QED
      BY <2>1, <3>1, OriginalGivenUp
  <2>2. ASSUME rec # NoRecord, rec' # NoRecord, rec.original # NoOriginal, ~rec'.desired.sensitive
        PROVE  rec'.original = rec.original
    BY <2>2, OriginalKept
  <2> QED
    BY <2>1, <2>2
<1> QED
  BY Typed, <1>1, <1>2, <1>3, PTL DEF Spec, RestoresOriginal

-----------------------------------------------------------------------------
(* What a run leaves, by kind: e is the host after the step s that was     *)
(* planned for the declaration n, the record p and the host h, and r is    *)
(* the record that is written.                                             *)

Ran(k, n, p, s, h, e) == \E o \in ProviderApply(k, n, s, p, h) : o.ok /\ e = Ends(h, o)
Writes(k, n, r, seen) ==
    /\ r \in RecordSpace(k) /\ r # NoRecord /\ r.desired = n
    /\ r.original = seen.original /\ r.sha = seen.sha

After(k, n, p, s, h, e, r) ==
    \/ s.action \in {"create", "update"} /\ Ran(k, n, p, s, h, e) /\ Writes(k, n, r, Observed(k, n, p, h, e))
    \/ s.action = "delete" /\ Ran(k, n, p, s, h, e) /\ r = NoRecord
    \/ s.action = "adopt" /\ Stays(k, n, h, e) /\ Writes(k, n, r, s.seen)
    \/ s.action = "no-op" /\ Stays(k, n, h, e) /\ r = p
    \/ s.action = "forget" /\ e = h /\ r = NoRecord

\* executeResourceStep, in these terms.
LEMMA AfterExecution ==
    ASSUME TypeInv, PlannedInv, Call \/ NoCall, want # Undeclared
    PROVE  After(kind, want, rec, step, host, host', RecordAfter')
<1>0. pc = "planned" /\ step.action \in ActionNames \ {"error"} /\ host' \in HostSpace(kind)
  BY Execution
<1>1. /\ kind \in AllKinds /\ IsRecord(kind, rec) /\ host \in HostSpace(kind) /\ want \in Nodes(kind)
      /\ step.owner \in {"managed", "adopted"} /\ step.seen \in Seen /\ step.action # "destroy"
  BY <1>0, KindFact, PlannedFact DEF TypeInv
<1>2. CASE step.action \in {"create", "update"}
  <2>1. Observed(kind, want, rec, host, host') \in Seen
    BY <1>0, <1>1, ObservedTyped
  <2>2. Writes(kind, want, RecordAfter', Observed(kind, want, rec, host, host'))
    BY <1>1, <1>2, <2>1, Execution, NewRecordFact DEF Writes
  <2> QED
    BY <1>2, <2>2, Execution DEF After, Ran, Applies
<1>3. CASE step.action = "adopt"
  <2>1. Writes(kind, want, RecordAfter', step.seen)
    BY <1>1, <1>3, Execution, NewRecordFact DEF Writes
  <2> QED
    BY <1>3, <2>1, Execution DEF After
<1>4. CASE step.action = "delete"
  BY <1>4, Execution DEF After, Ran, Applies
<1>5. CASE step.action = "no-op"
  BY <1>5, Execution DEF After
<1>6. CASE step.action = "forget"
  BY <1>6, Execution DEF After
<1> QED
  BY <1>0, <1>1, <1>2, <1>3, <1>4, <1>5, <1>6 DEF ActionNames

\* A step that runs on a declared path takes away what is there or puts the
\* file.
LEMMA InstallAfter ==
    ASSUME NEW k \in InstallKinds, NEW n \in Nodes(k), NEW p, IsRecord(k, p), NEW h \in PathHost, NEW s, NEW e, NEW r,
           s.action \in {"create", "update", "delete"}, Ran(k, n, p, s, h, e)
    PROVE  /\ e \in PathHost
           /\ Removes(n, s) => e.path = Missing
           /\ ~Removes(n, s) /\ e.path.type # "dir" =>
                \E c \in Content : e.path = File(c, "root") /\ (Known(k, n) => c = n.content)
           /\ k = "systemd_unit" => e.aside = e.path
<1>1. PICK o \in ProviderApply(k, n, s, p, h) : o.ok /\ e = Ends(h, o)
  BY DEF Ran
<1>2. CASE Removes(n, s)
  <2>1. Takes(h, e) /\ (k = "systemd_unit" => e.aside = e.path)
    BY <1>1, <1>2, InstallCall
  <2> QED
    BY <1>2, <2>1 DEF Takes
<1>3. CASE ~Removes(n, s)
  <2>1. PICK c \in Content : Puts(h, e, c) /\ (Known(k, n) => c = n.content)
    BY <1>1, <1>3, InstallCall
  <2>2. k = "systemd_unit" => e.aside = e.path
    BY <1>1, InstallCall
  <2> QED
    BY <1>3, <2>1, <2>2, HostFact DEF Puts
<1> QED
  BY <1>2, <1>3

LEMMA AfterPrior ==
    ASSUME NEW k, NEW n, NEW p, IsRecord(k, p), NEW s, NEW h, NEW e, NEW r, After(k, n, p, s, h, e, r)
    PROVE  Prior(p) /\ Prior(r)
  BY PriorFact DEF After, Writes, IsRecord, Prior

\* A file, once it is put, is a whole file that fits.
LEMMA PutFact ==
    ASSUME NEW e \in PathHost
    PROVE  /\ e.path = Missing => ~Exists(e.path) /\ e.path.type # "dir"
           /\ \A c \in Content : e.path = File(c, "root") =>
                Exists(e.path) /\ Fits(e.path, "file") /\ e.path.content = c /\ Sha(e.path) = c /\ e.path.type = "file"
           /\ Fits(e.path, "file") => e.path.content \in Content /\ Sha(e.path) = e.path.content /\ e.path.type = "file"
           /\ Fits(e.path, "dir") => e.path.type = "dir"
           /\ ~Exists(e.path) => e.path = Missing
  BY PathFact DEF Fits, Sha, Exists, PathHost, PathSpace

\* A file, a unit or a netdev after its step.
LEMMA FileLikeAfter ==
    ASSUME NEW k \in {"file", "systemd_unit", "networkd_netdev"}, NEW n \in Nodes(k), NEW p, IsRecord(k, p),
           NEW h \in PathHost, NEW s, s = ProviderPlan(k, n, p, h), NEW e, NEW r, After(k, n, p, s, h, e, r)
    PROVE  /\ n.ensure = "absent" => ~Exists(e.path) /\ ProviderPlan(k, n, r, e).action = "no-op"
           /\ n.ensure = "present" /\ e.path.type # "dir" =>
                /\ Fits(e.path, "file") /\ e.path.content \in Content
                /\ ~n.write_only \/ s.action \in {"create", "update"} => e.path.content = n.content
                /\ n.write_only /\ s.action = "no-op" => Recorded(n, p) /\ e = h
                /\ s.action \in {"create", "update", "adopt", "no-op"}
                /\ k = "systemd_unit" /\ s.action \in {"create", "update"} => e.aside = e.path
                /\ ProviderPlan(k, n, r, e).action = "no-op"
           /\ n.ensure = "present" /\ s.action = "adopt" => ~n.write_only
<1>0. /\ n.ensure \in Either /\ n.write_only \in BOOLEAN /\ n.content \in Content /\ k \in InstallKinds /\ Known(k, n)
      /\ Prior(p) /\ Prior(r)
  BY InstallNodes, AfterPrior DEF InstallKinds, Known
<1>1. s.action = EnsuredAction(n, p, Exists(h.path), SameFile(n, p, h))
  <2>1. s = PlanFileLike(n, p, h)
    BY PlanDispatch
  <2> QED
    BY <1>0, <2>1, PlanFileLikeFact
<1>2. ASSUME e \in PathHost
      PROVE ProviderPlan(k, n, r, e).action = EnsuredAction(n, r, Exists(e.path), SameFile(n, r, e))
  <2>1. ProviderPlan(k, n, r, e) = PlanFileLike(n, r, e)
    BY PlanDispatch
  <2> QED
    BY <1>0, <1>2, <2>1, PlanFileLikeFact
<1>3. CASE n.ensure = "absent"
  <2>1. \/ s.action = "delete" /\ Ran(k, n, p, s, h, e) /\ r = NoRecord
        \/ s.action = "no-op" /\ e = h /\ r = p /\ ~Exists(h.path) /\ p = NoRecord
    BY <1>1, <1>3 DEF EnsuredAction, After, Stays
  <2>2. e \in PathHost /\ ~Exists(e.path) /\ r = NoRecord
    <3>1. CASE s.action = "delete"
      <4>1. Removes(n, s)
        BY <1>3 DEF Removes
      <4> QED
        BY <1>0, <2>1, <3>1, <4>1, InstallAfter, PutFact
    <3> QED
      BY <2>1, <3>1
  <2> QED
    BY <1>2, <1>3, <2>2 DEF EnsuredAction
<1>4. CASE n.ensure = "present"
  <2>1. s.action \in {"create", "update", "adopt", "no-op"}
    BY <1>1, <1>4 DEF EnsuredAction
  <2>2. CASE s.action \in {"create", "update"}
    <3>1. Ran(k, n, p, s, h, e) /\ ~Removes(n, s) /\ r # NoRecord /\ r.desired = n
      BY <1>4, <2>2 DEF After, Removes, Writes
    <3>2. /\ e \in PathHost /\ (e.path.type # "dir" => e.path = File(n.content, "root"))
          /\ k = "systemd_unit" => e.aside = e.path
      BY <1>0, <2>2, <3>1, InstallAfter
    <3>3. ASSUME e.path.type # "dir"
          PROVE  Exists(e.path) /\ Fits(e.path, "file") /\ e.path.content = n.content
      BY <1>0, <3>2, <3>3, PutFact
    <3> QED
      BY <1>0, <1>2, <1>4, <2>2, <3>1, <3>2, <3>3 DEF EnsuredAction, SameFile, Recorded
  <2>3. CASE s.action = "adopt"
    <3>1. /\ e = h /\ r # NoRecord /\ Exists(h.path) /\ Fits(h.path, "file") /\ ~n.write_only
          /\ h.path.content = n.content
      BY <1>0, <1>1, <1>4, <2>3 DEF After, Writes, EnsuredAction, SameFile, Recorded, Stays
    <3> QED
      BY <1>0, <1>2, <1>4, <2>3, <3>1 DEF EnsuredAction, SameFile
  <2>4. CASE s.action = "no-op"
    <3>1. /\ e = h /\ r = p /\ Exists(h.path) /\ Fits(h.path, "file")
          /\ IF n.write_only THEN Recorded(n, p) ELSE h.path.content = n.content
      BY <1>0, <1>1, <1>4, <2>4 DEF After, EnsuredAction, SameFile, Stays
    <3>2. ProviderPlan(k, n, r, e).action = "no-op"
      BY <2>4, <3>1
    <3>3. e.path.content \in Content
      BY <3>1, PutFact
    <3> QED
      BY <1>0, <1>4, <2>4, <3>1, <3>2, <3>3
  <2> QED
    BY <2>1, <2>2, <2>3, <2>4
<1> QED
  BY <1>0, <1>3, <1>4 DEF Either

ArtifactKinds ==
    {"apt_signing_key", "component_download", "component_build", "component_binary", "component_file"}

SameArtifact(k, n, p, h) ==
    /\ Fits(h.path, "file")
    /\ k = "apt_signing_key" /\ n.from = "url" => p = NoRecord \/ Recorded(n, p)
    /\ k \in {"component_download", "component_file"} \/ (k = "apt_signing_key" /\ n.from # "url") =>
         h.path.content = n.content
    /\ k \in {"component_build", "component_binary"} => Recorded(n, p) /\ p.sha # "none" /\ p.sha = Sha(h.path)

\* Plan of keys, downloads and components.
LEMMA PlanArtifact ==
    ASSUME NEW k \in ArtifactKinds, NEW n, NEW p, Prior(p), NEW h \in PathHost
    PROVE  ProviderPlan(k, n, p, h).action = EnsuredAction(n, p, Exists(h.path), SameArtifact(k, n, p, h))
<1>1. CASE k = "apt_signing_key"
  <2>1. ProviderPlan(k, n, p, h) = PlanAptSigningKey(n, p, h)
    BY <1>1, PlanDispatch
  <2> QED
    BY <1>1, <2>1, StepFact, BlankFact DEF PlanAptSigningKey, Ensured, EnsuredAction, SameArtifact
<1>2. CASE k \in {"component_download", "component_file"}
  <2>1. ProviderPlan(k, n, p, h) = PlanComponentDownload(n, p, h)
    BY <1>2, PlanDispatch DEF PlanComponentFile
  <2> QED
    BY <1>2, <2>1, StepFact, BlankFact DEF PlanComponentDownload, Ensured, EnsuredAction, SameArtifact
<1>3. CASE k \in {"component_build", "component_binary"}
  <2>1. ProviderPlan(k, n, p, h) = PlanComponentBuild(n, p, h)
    BY <1>3, PlanDispatch DEF PlanComponentBinary
  <2> QED
    BY <1>3, <2>1, StepFact, BlankFact DEF PlanComponentBuild, Ensured, EnsuredAction, SameArtifact
<1> QED
  BY <1>1, <1>2, <1>3 DEF ArtifactKinds

\* The digest that the record of a binary keeps is that of its content.
ShaKept(k, p) == k = "component_binary" /\ p # NoRecord => p.sha \in {"none", p.desired.content}

\* A key, a download, a build, a binary or a component file after its step.
LEMMA ArtifactAfter ==
    ASSUME NEW k \in ArtifactKinds, NEW n \in Nodes(k), NEW p, IsRecord(k, p), ShaKept(k, p), NEW h \in PathHost,
           NEW s, s = ProviderPlan(k, n, p, h), NEW e, NEW r, After(k, n, p, s, h, e, r)
    PROVE  /\ n.ensure = "absent" => ~Exists(e.path) /\ ProviderPlan(k, n, r, e).action = "no-op"
           /\ n.ensure = "present" /\ e.path.type # "dir" =>
                /\ Fits(e.path, "file") /\ e.path.content \in Content
                /\ Known(k, n) => e.path.content = n.content
                /\ ProviderPlan(k, n, r, e).action = "no-op"
           /\ ShaKept(k, r)
<1>0. /\ n.ensure \in Either /\ n.content \in Content /\ k \in InstallKinds /\ Prior(p) /\ Prior(r) /\ k \in AllKinds
      /\ HostSpace(k) = PathHost
  BY InstallNodes, AfterPrior, HostSpaceOf DEF InstallKinds, ArtifactKinds, AllKinds, PathKinds
<1>1. s.action = EnsuredAction(n, p, Exists(h.path), SameArtifact(k, n, p, h))
  BY <1>0, PlanArtifact
<1>2. ASSUME e \in PathHost
      PROVE  ProviderPlan(k, n, r, e).action = EnsuredAction(n, r, Exists(e.path), SameArtifact(k, n, r, e))
  BY <1>0, <1>2, PlanArtifact
<1>3. CASE n.ensure = "absent"
  <2>1. \/ s.action = "delete" /\ Ran(k, n, p, s, h, e) /\ r = NoRecord
        \/ s.action = "no-op" /\ e = h /\ r = p /\ ~Exists(h.path) /\ p = NoRecord
    BY <1>1, <1>3 DEF EnsuredAction, After, Stays, ArtifactKinds
  <2>2. e \in PathHost /\ ~Exists(e.path) /\ r = NoRecord
    <3>1. CASE s.action = "delete"
      <4>1. Removes(n, s)
        BY <1>3 DEF Removes
      <4> QED
        BY <1>0, <2>1, <3>1, <4>1, InstallAfter, PutFact
    <3> QED
      BY <2>1, <3>1
  <2> QED
    BY <1>2, <1>3, <2>2 DEF EnsuredAction, ShaKept
<1>4. CASE n.ensure = "present"
  <2>1. s.action \in {"create", "update", "adopt", "no-op"}
    BY <1>1, <1>4 DEF EnsuredAction
  <2>2. CASE s.action \in {"create", "update"}
    <3>1. /\ Ran(k, n, p, s, h, e) /\ ~Removes(n, s) /\ r # NoRecord /\ r.desired = n
          /\ r.sha = Observed(k, n, p, h, e).sha
      BY <1>4, <2>2 DEF After, Removes, Writes
    <3>2. /\ e \in PathHost
          /\ e.path.type # "dir" =>
               \E c \in Content : e.path = File(c, "root") /\ (Known(k, n) => c = n.content)
      BY <1>0, <2>2, <3>1, InstallAfter
    <3>3. Observed(k, n, p, h, e).sha =
            IF k \in {"component_build", "component_binary", "component_file", "component_script_output"}
              THEN Sha(e.path) ELSE "none"
      BY <1>0, <3>2, ObservedTyped
    <3>4. CASE e.path.type = "dir"
      <4>1. Sha(e.path) = "none"
        BY <3>4 DEF Sha
      <4> QED
        BY <1>4, <3>1, <3>3, <3>4, <4>1 DEF ShaKept
    <3>5. CASE e.path.type # "dir"
      <4>1. PICK c \in Content : e.path = File(c, "root") /\ (Known(k, n) => c = n.content)
        BY <3>2, <3>5
      <4>2. Exists(e.path) /\ Fits(e.path, "file") /\ e.path.content = c /\ Sha(e.path) = c
        BY <3>2, <4>1, PutFact
      <4>3. c # "none"
        BY DEF Content
      <4>4. k \in {"component_build", "component_binary"} => r.sha = c
        BY <3>1, <3>3, <4>2
      <4>5. SameArtifact(k, n, r, e)
        BY <3>1, <4>1, <4>2, <4>3, <4>4 DEF SameArtifact, Recorded, Known
      <4>6. ProviderPlan(k, n, r, e).action = "no-op"
        BY <1>2, <1>4, <3>1, <3>2, <4>2, <4>5 DEF EnsuredAction
      <4>7. ShaKept(k, r)
        BY <3>1, <4>1, <4>4 DEF ShaKept, Known
      <4> QED
        BY <1>4, <4>1, <4>2, <4>6, <4>7
    <3> QED
      BY <3>4, <3>5
  <2>3. CASE s.action = "adopt"
    <3>1. e = h /\ r # NoRecord /\ r.desired = n /\ p = NoRecord /\ Exists(h.path) /\ SameArtifact(k, n, p, h)
      BY <1>1, <1>4, <2>3 DEF After, Writes, EnsuredAction, Stays, ArtifactKinds
    <3>2. k \notin {"component_build", "component_binary"}
      BY <3>1 DEF SameArtifact, Recorded
    <3>3. SameArtifact(k, n, r, h) /\ Fits(h.path, "file") /\ (Known(k, n) => h.path.content = n.content)
      BY <3>1, <3>2 DEF SameArtifact, Recorded, Known, ArtifactKinds
    <3>4. ProviderPlan(k, n, r, e).action = "no-op"
      BY <1>2, <1>4, <3>1, <3>3 DEF EnsuredAction
    <3> QED
      BY <1>4, <3>1, <3>2, <3>3, <3>4, PutFact DEF ShaKept
  <2>4. CASE s.action = "no-op"
    <3>1. e = h /\ r = p /\ p # NoRecord /\ SameArtifact(k, n, p, h)
      BY <1>1, <1>4, <2>4 DEF After, EnsuredAction, Stays, ArtifactKinds
    <3>2. ProviderPlan(k, n, r, e).action = "no-op"
      BY <2>4, <3>1
    <3>3. Fits(h.path, "file") /\ h.path.content \in Content /\ Sha(h.path) = h.path.content
      BY <3>1, PutFact DEF SameArtifact
    <3>4. Known(k, n) => h.path.content = n.content
      BY <3>1, <3>3 DEF SameArtifact, Recorded, Known, ShaKept, ArtifactKinds
    <3> QED
      BY <1>4, <3>1, <3>2, <3>3, <3>4
  <2> QED
    BY <2>1, <2>2, <2>3, <2>4
<1> QED
  BY <1>0, <1>3, <1>4 DEF Either

\* What After says of the host and of the record, by the step.
LEMMA AfterFact ==
    ASSUME NEW k, NEW n, NEW p, IsRecord(k, p), NEW s, NEW h, NEW e, NEW r, After(k, n, p, s, h, e, r)
    PROVE  /\ s.action \in {"create", "update", "delete", "adopt", "no-op", "forget"}
           /\ s.action \in {"create", "update", "delete"} => Ran(k, n, p, s, h, e)
           /\ s.action \in {"adopt", "no-op"} => Stays(k, n, h, e)
           /\ s.action \in {"adopt", "no-op", "forget"} /\ k # "docker_compose_project" => e = h
           /\ s.action \in {"create", "update", "adopt"} => r # NoRecord /\ r.desired = n
           /\ s.action \in {"delete", "forget"} => r = NoRecord
           /\ s.action = "no-op" => r = p
           /\ Prior(p) /\ Prior(r)
<1>1. Prior(p) /\ Prior(r)
  BY AfterPrior
<1> QED
  BY <1>1 DEF After, Writes, Stays

\* A directory after its step.
LEMMA DirectoryAfter ==
    ASSUME NEW n \in Nodes("directory"), NEW p, IsRecord("directory", p), NEW h \in PathHost, NEW e \in PathHost,
           NEW s, s = ProviderPlan("directory", n, p, h), NEW r, After("directory", n, p, s, h, e, r)
    PROVE  /\ IF n.ensure = "absent" THEN ~Exists(e.path) ELSE Fits(e.path, "dir")
           /\ ProviderPlan("directory", n, r, e).action = "no-op"
<1>0. n.ensure \in Either /\ Prior(p) /\ Prior(r)
  BY OtherNodes, AfterFact
<1>1. /\ s.action = EnsuredAction(n, p, Exists(h.path), Fits(h.path, "dir"))
      /\ ProviderPlan("directory", n, r, e).action = EnsuredAction(n, r, Exists(e.path), Fits(e.path, "dir"))
  BY <1>0, PlanDispatch, PlanDirectoryFact
<1>2. Fits(e.path, "dir") => Exists(e.path)
  BY DEF Fits, Exists
<1>3. CASE s.action \in {"create", "update", "delete"}
  <2>1. PICK o \in ApplyDirectory(n, s, h) : o.ok /\ e = Ends(h, o)
    BY <1>3, AfterFact, ApplyOther DEF Ran
  <2>2. IF Removes(n, s) THEN ~Exists(e.path) ELSE Fits(e.path, "dir")
    BY <2>1, DirectoryCall, PutFact
  <2>3. (Removes(n, s) <=> n.ensure = "absent") /\ (s.action = "delete" <=> n.ensure = "absent")
    BY <1>1, <1>3 DEF Removes, EnsuredAction
  <2> QED
    BY <1>1, <1>2, <1>3, <2>2, <2>3, AfterFact DEF EnsuredAction
<1>4. CASE s.action \in {"adopt", "no-op"}
  BY <1>1, <1>4, AfterFact DEF EnsuredAction
<1> QED
  BY <1>1, <1>3, <1>4 DEF EnsuredAction

\* A source file after its step.
LEMMA AptSourceAfter ==
    ASSUME NEW n \in Nodes("apt_source_file"), NEW p, IsRecord("apt_source_file", p), NEW h \in PathHost,
           NEW e \in PathHost, NEW s, s = ProviderPlan("apt_source_file", n, p, h), NEW r,
           After("apt_source_file", n, p, s, h, e, r)
    PROVE  /\ n.ensure = "present" /\ e.path.type # "dir" => Fits(e.path, "file") /\ e.path.content = n.content
           /\ n.ensure = "absent" \/ e.path.type # "dir" =>
                ProviderPlan("apt_source_file", n, r, e).action = "no-op"
<1> DEFINE k == "apt_source_file"
<1>0. /\ n.ensure \in Either /\ n.content \in Content /\ n.sensitive \in BOOLEAN /\ Prior(p) /\ Prior(r)
      /\ k \in AllKinds /\ HostSpace(k) = PathHost
  BY OtherNodes, AfterFact, HostSpaceOf DEF AllKinds, PathKinds
<1>1. /\ p # NoRecord => p.original \in PathSpace \cup {NoOriginal}
      /\ r # NoRecord => r.original \in PathSpace \cup {NoOriginal}
  BY <1>0, RecordFact DEF IsRecord, After, Writes
<1>2. s = PlanAptSourceFile(n, p, h) /\ ProviderPlan(k, n, r, e) = PlanAptSourceFile(n, r, e)
  BY PlanDispatch
<1>3. CASE n.ensure = "absent"
  <2>1. r = NoRecord
    BY <1>0, <1>1, <1>2, <1>3, PlanAptSourceFact, AfterFact
  <2> QED
    BY <1>0, <1>1, <1>2, <1>3, <2>1, PlanAptSourceFact
<1>4. CASE n.ensure = "present"
  <2>1. s.action = IF ~Exists(h.path) THEN "create"
                   ELSE IF ~(Fits(h.path, "file") /\ h.path.content = n.content) THEN "update"
                   ELSE IF n.sensitive /\ NeedsRefresh(n, p) THEN "adopt"
                   ELSE IF p = NoRecord THEN "adopt" ELSE "no-op"
    BY <1>0, <1>1, <1>2, <1>4, PlanAptSourceFact
  <2>2. ProviderPlan(k, n, r, e).action =
          IF ~Exists(e.path) THEN "create"
          ELSE IF ~(Fits(e.path, "file") /\ e.path.content = n.content) THEN "update"
          ELSE IF n.sensitive /\ NeedsRefresh(n, r) THEN "adopt"
          ELSE IF r = NoRecord THEN "adopt" ELSE "no-op"
    BY <1>0, <1>1, <1>2, <1>4, PlanAptSourceFact
  <2>3. Fits(e.path, "file") => Exists(e.path)
    BY DEF Fits, Exists
  <2>4. CASE s.action \in {"create", "update"}
    <3>1. PICK o \in ApplyAptSourceFile(n, s, p, h) : o.ok /\ e = Ends(h, o)
      BY <2>4, AfterFact, ApplyOther DEF Ran
    <3>2. ~Removes(n, s)
      BY <1>4, <2>4 DEF Removes
    <3>3. Puts(h, e, n.content)
      BY <1>0, <1>1, <3>1, <3>2, AptSourceCall
    <3>4. e.path.type # "dir" => Fits(e.path, "file") /\ e.path.content = n.content
      BY <1>0, <3>3, PutFact DEF Puts
    <3>5. r # NoRecord /\ r.desired = n /\ r.original = Observed(k, n, p, h, e).original
      BY <2>4 DEF After, Writes
    <3>6. n.sensitive => ~NeedsRefresh(n, r)
      BY <1>0, <3>5, ObservedTyped DEF NeedsRefresh
    <3> QED
      BY <1>0, <1>4, <2>2, <2>3, <3>4, <3>5, <3>6
  <2>5. CASE s.action = "adopt"
    <3>1. e = h /\ r # NoRecord /\ r.desired = n /\ r.original = s.seen.original
      BY <2>5 DEF After, Writes, Stays
    <3>2. ASSUME n.sensitive PROVE s.seen.original = NoOriginal
      <4>1. n.ensure # "absent" /\ PlanAptSourceFile(n, p, h).action = "adopt"
        BY <1>2, <1>4, <2>5
      <4>2. Prior(p) /\ n.sensitive \in BOOLEAN /\ (p # NoRecord => p.original \in PathSpace \cup {NoOriginal})
        BY <1>0, <1>1
      <4>3. n.sensitive = TRUE
        BY <3>2, <4>2
      <4>4. PlanAptSourceFile(n, p, h).seen.original = NoOriginal
        BY <4>1, <4>2, <4>3, PlanAptSourceFact
      <4> QED
        BY <1>2, <4>4
    <3>3. n.sensitive => ~NeedsRefresh(n, r)
      BY <3>1, <3>2 DEF NeedsRefresh
    <3> QED
      BY <1>0, <1>4, <2>1, <2>2, <2>3, <2>5, <3>1, <3>3
  <2>6. CASE s.action = "no-op"
    BY <1>4, <2>1, <2>6, AfterFact
  <2> QED
    BY <2>1, <2>4, <2>5, <2>6
<1> QED
  BY <1>0, <1>3, <1>4 DEF Either

SameArchive(n, p, h) == Fits(h.path, "dir") /\ Recorded(n, p)

\* An archive after its step.
LEMMA ArchiveAfter ==
    ASSUME NEW n \in Nodes("component_archive"), NEW p, IsRecord("component_archive", p), NEW h \in PathHost,
           NEW e \in PathHost, NEW s, s = ProviderPlan("component_archive", n, p, h), NEW r,
           After("component_archive", n, p, s, h, e, r)
    PROVE  /\ n.ensure = "absent" => ~Exists(e.path)
           /\ n.ensure = "present" =>
                /\ Fits(e.path, "dir") /\ s.action \in {"create", "update", "no-op"}
                /\ s.action \in {"create", "update"} => e.path.content = n.content
                /\ s.action = "no-op" => e = h /\ Recorded(n, p)
           /\ ProviderPlan("component_archive", n, r, e).action = "no-op"
<1>0. n.ensure \in Either /\ n.content \in Content /\ Prior(p) /\ Prior(r)
  BY OtherNodes, AfterFact
<1>1. /\ s.action = EnsuredAction(n, p, Exists(h.path), SameArchive(n, p, h))
      /\ ProviderPlan("component_archive", n, r, e).action =
           EnsuredAction(n, r, Exists(e.path), SameArchive(n, r, e))
  BY <1>0, PlanDispatch, PlanComponentArchiveFact DEF SameArchive
<1>2. Fits(e.path, "dir") => Exists(e.path)
  BY DEF Fits, Exists
<1>3. CASE s.action \in {"create", "update", "delete"}
  <2>1. PICK o \in ApplyComponentArchive(n, s, h) : o.ok /\ e = Ends(h, o)
    BY <1>3, AfterFact, ApplyOther DEF Ran
  <2>2. IF Removes(n, s) THEN e.path = Missing ELSE e.path = Dir(n.content, "root")
    BY <1>0, <2>1, ArchiveCall
  <2>3. IF Removes(n, s) THEN ~Exists(e.path) ELSE Fits(e.path, "dir") /\ e.path.content = n.content
    BY <2>2, PathFact DEF Fits
  <2>4. (Removes(n, s) <=> n.ensure = "absent") /\ (s.action = "delete" <=> n.ensure = "absent")
    BY <1>1, <1>3 DEF Removes, EnsuredAction
  <2> QED
    BY <1>1, <1>2, <1>3, <2>3, <2>4, AfterFact DEF EnsuredAction, SameArchive, Recorded
<1>4. CASE s.action \in {"adopt", "no-op"}
  BY <1>1, <1>4, AfterFact DEF EnsuredAction, SameArchive, Recorded
<1> QED
  BY <1>1, <1>3, <1>4 DEF EnsuredAction

\* The output of a script after its step.
LEMMA ScriptAfter ==
    ASSUME NEW n \in Nodes("component_script_output"), NEW p, IsRecord("component_script_output", p),
           NEW h \in PathHost, NEW e \in PathHost, NEW s, s = ProviderPlan("component_script_output", n, p, h), NEW r,
           After("component_script_output", n, p, s, h, e, r)
    PROVE  e.path.type = "file" /\ ProviderPlan("component_script_output", n, r, e).action = "no-op"
<1> DEFINE k == "component_script_output"
<1>0. Prior(p) /\ Prior(r) /\ k \in AllKinds /\ HostSpace(k) = PathHost
  BY AfterFact, HostSpaceOf DEF AllKinds, PathKinds
<1>1. /\ s.action \in {"create", "update", "no-op"}
      /\ s.action = "no-op" <=> (Exists(h.path) /\ h.path.type # "dir" /\ Recorded(n, p) /\ p.sha = Sha(h.path))
  <2>1. s = PlanComponentScriptOutput(n, p, h)
    BY PlanDispatch
  <2>2. PICK t : t = PlanComponentScriptOutput(n, p, h)
    OBVIOUS
  <2>3. /\ t.action \in {"create", "update", "no-op"}
        /\ t.action = "no-op" <=> (Exists(h.path) /\ h.path.type # "dir" /\ Recorded(n, p) /\ p.sha = Sha(h.path))
    BY <1>0, <2>2, PlanScriptFact
  <2> QED
    BY <2>1, <2>2, <2>3, Zenon
<1>2. ProviderPlan(k, n, r, e).action = "no-op" <=>
        (Exists(e.path) /\ e.path.type # "dir" /\ Recorded(n, r) /\ r.sha = Sha(e.path))
  BY <1>0, PlanDispatch, PlanScriptFact
<1>3. CASE s.action \in {"create", "update"}
  <2>1. PICK o \in RunScript(h) : o.ok /\ e = Ends(h, o)
    BY <1>3, AfterFact, ApplyOther DEF Ran
  <2>2. PICK c \in Content : e.path = File(c, "root")
    BY <2>1, ScriptCall
  <2>3. Exists(e.path) /\ e.path.type = "file"
    BY <2>2, PutFact
  <2>4. r # NoRecord /\ r.desired = n /\ r.sha = Observed(k, n, p, h, e).sha
    BY <1>3 DEF After, Writes
  <2>5. r.sha = Sha(e.path)
    <3>1. Observed(k, n, p, h, e).sha =
            IF k \in {"component_build", "component_binary", "component_file", "component_script_output"}
              THEN Sha(e.path) ELSE "none"
      BY <1>0, ObservedTyped
    <3> QED
      BY <2>4, <3>1
  <2> QED
    BY <1>2, <2>3, <2>4, <2>5 DEF Recorded
<1>4. CASE s.action = "no-op"
  <2>1. e = h /\ r = p
    BY <1>4, AfterFact
  <2>2. e.path.type = "file"
    BY <1>1, <1>4, <2>1, HostFact DEF Exists
  <2> QED
    BY <1>4, <2>1, <2>2
<1> QED
  BY <1>1, <1>3, <1>4

\* A package after its step.
LEMMA PackageAfter ==
    ASSUME NEW n \in Nodes("package"), NEW p, IsRecord("package", p), NEW h \in PackageHost, NEW e \in PackageHost,
           NEW s, s = ProviderPlan("package", n, p, h), NEW r, After("package", n, p, s, h, e, r)
    PROVE  /\ IF n.ensure = "absent" THEN e.pkg # "installed" ELSE e.pkg # "none"
           /\ ProviderPlan("package", n, r, e).action = "no-op"
<1>0. n.ensure \in Either /\ Prior(p) /\ Prior(r) /\ s = PlanPackage(n, p, h)
      /\ ProviderPlan("package", n, r, e) = PlanPackage(n, r, e)
  BY OtherNodes, AfterFact, PlanDispatch
<1>1. CASE n.ensure = "absent"
  <2>1. PlanPackage(n, p, h).action = IF h.pkg = "installed" \/ p # NoRecord THEN "delete" ELSE "no-op"
    BY <1>0, <1>1, PlanPackageFact, Zenon
  <2>2. PlanPackage(n, p, h).seen.installed = IF h.pkg = "installed" THEN {"pkg"} ELSE {}
    BY <1>0, PlanPackageFact, Zenon
  <2>3. e.pkg # "installed" /\ r = NoRecord
    <3>1. CASE s.action = "delete"
      <4>1. PICK o \in ApplyPackage(n, s, h) : o.ok /\ e = Ends(h, o)
        BY <3>1, AfterFact, ApplyOther DEF Ran
      <4>2. Removes(n, s)
        BY <1>1 DEF Removes
      <4>3. e.pkg = IF s.seen.installed # {} /\ h.pkg = "installed" THEN "none" ELSE h.pkg
        BY <4>1, <4>2, PackageCall
      <4> QED
        BY <1>0, <2>2, <3>1, <4>3, AfterFact
    <3>2. CASE s.action = "no-op"
      BY <1>0, <2>1, <3>2, AfterFact
    <3> QED
      BY <1>0, <2>1, <3>1, <3>2
  <2>4. PlanPackage(n, r, e).action = IF e.pkg = "installed" \/ r # NoRecord THEN "delete" ELSE "no-op"
    BY <1>0, <1>1, PlanPackageFact, Zenon
  <2> QED
    BY <1>0, <1>1, <2>3, <2>4
<1>2. CASE n.ensure = "present"
  <2>0. n.ensure # "absent"
    BY <1>2
  <2>1. PlanPackage(n, p, h).action =
          IF h.pkg = "none" THEN "create"
          ELSE IF h.pkg = "installed" /\ p # NoRecord /\ n.policy \notin {"unset", p.desired.policy} THEN "update"
          ELSE IF p = NoRecord THEN "adopt" ELSE "no-op"
    BY <1>0, <2>0, PlanPackageFact, Zenon
  <2>2. ASSUME e.pkg # "none", r # NoRecord, r.desired = n PROVE ProviderPlan("package", n, r, e).action = "no-op"
    <3>1. PlanPackage(n, r, e).action =
            IF e.pkg = "none" THEN "create"
            ELSE IF e.pkg = "installed" /\ r # NoRecord /\ n.policy \notin {"unset", r.desired.policy} THEN "update"
            ELSE IF r = NoRecord THEN "adopt" ELSE "no-op"
      BY <1>0, <2>0, PlanPackageFact, Zenon
    <3> QED
      BY <1>0, <2>2, <3>1
  <2>3. CASE s.action \in {"create", "update"}
    <3>1. PICK o \in ApplyPackage(n, s, h) : o.ok /\ e = Ends(h, o)
      BY <2>3, AfterFact, ApplyOther DEF Ran
    <3>2. ~Removes(n, s)
      BY <1>2, <2>3 DEF Removes
    <3>3. e.pkg # "none"
      BY <3>1, <3>2, PackageCall
    <3> QED
      BY <1>2, <2>2, <2>3, <3>3, AfterFact
  <2>4. CASE s.action = "adopt"
    BY <1>0, <1>2, <2>1, <2>2, <2>4, AfterFact
  <2>5. CASE s.action = "no-op"
    BY <1>0, <1>2, <2>1, <2>5, AfterFact
  <2> QED
    BY <1>0, <2>1, <2>3, <2>4, <2>5
<1> QED
  BY <1>0, <1>1, <1>2 DEF Either

\* Conflicting packages after their step.
LEMMA ConflictAfter ==
    ASSUME NEW n \in Nodes("docker_package_conflicts"), NEW p, IsRecord("docker_package_conflicts", p),
           NEW h \in ConflictHost, NEW e \in ConflictHost,
           NEW s, s = ProviderPlan("docker_package_conflicts", n, p, h), NEW r,
           After("docker_package_conflicts", n, p, s, h, e, r)
    PROVE  e.pkgs = {} /\ ProviderPlan("docker_package_conflicts", n, r, e).action = "no-op"
<1>0. /\ Prior(p) /\ Prior(r) /\ s = PlanDockerPackageConflicts(n, p, h)
      /\ ProviderPlan("docker_package_conflicts", n, r, e) = PlanDockerPackageConflicts(n, r, e)
  BY AfterFact, PlanDispatch
<1>1. /\ s.action \in {"no-op", "error", "delete"} /\ (s.action = "no-op" => h.pkgs = {})
      /\ s.action = "delete" => s.seen.installed = h.pkgs
  BY <1>0, PlanConflictFact
<1>2. CASE s.action = "delete"
  <2>1. PICK o \in ApplyDockerPackageConflicts(s, h) : o.ok /\ e = Ends(h, o)
    BY <1>2, AfterFact, ApplyOther DEF Ran
  <2>2. e.pkgs = h.pkgs \ s.seen.installed
    BY <2>1, ConflictCall
  <2>3. e.pkgs = {}
    BY <1>1, <1>2, <2>2
  <2> QED
    BY <1>0, <2>3, PlanConflictFact
<1>3. CASE s.action = "no-op"
  BY <1>1, <1>3, AfterFact
<1>4. s.action # "error"
  BY AfterFact
<1> QED
  BY <1>1, <1>2, <1>3, <1>4

\* A kernel module after its step; one in use stays loaded.
LEMMA KernelAfter ==
    ASSUME NEW n \in Nodes("kernel_module"), NEW p, IsRecord("kernel_module", p), NEW h \in KernelHost,
           NEW e \in KernelHost, NEW s, s = ProviderPlan("kernel_module", n, p, h), NEW r,
           After("kernel_module", n, p, s, h, e, r)
    PROVE  /\ IF n.ensure = "absent" THEN ~e.persisted ELSE e.loaded /\ e.persisted
           /\ ~(n.ensure = "absent" /\ e.loaded) => ProviderPlan("kernel_module", n, r, e).action = "no-op"
<1>0. n.ensure \in Either /\ Prior(p) /\ Prior(r) /\ s = PlanKernelModule(n, p, h)
      /\ ProviderPlan("kernel_module", n, r, e) = PlanKernelModule(n, r, e)
      /\ e.loaded \in BOOLEAN /\ e.persisted \in BOOLEAN /\ h.loaded \in BOOLEAN /\ h.persisted \in BOOLEAN
  BY OtherNodes, AfterFact, PlanDispatch DEF KernelHost
<1>1. CASE n.ensure = "absent"
  <2>1. s.action = IF h.loaded \/ h.persisted \/ p # NoRecord THEN "delete" ELSE "no-op"
    BY <1>0, <1>1, PlanKernelFact
  <2>2. ~e.persisted /\ r = NoRecord
    <3>1. CASE s.action = "delete"
      <4>1. PICK o \in ApplyKernelModule(n, s, h) : o.ok /\ e = Ends(h, o)
        BY <3>1, AfterFact, ApplyOther DEF Ran
      <4>2. Removes(n, s)
        BY <1>1 DEF Removes
      <4> QED
        BY <3>1, <4>1, <4>2, AfterFact, KernelCall
    <3>2. CASE s.action = "no-op"
      BY <1>0, <2>1, <3>2, AfterFact
    <3> QED
      BY <2>1, <3>1, <3>2
  <2>3. ProviderPlan("kernel_module", n, r, e).action =
          IF e.loaded \/ e.persisted \/ r # NoRecord THEN "delete" ELSE "no-op"
    BY <1>0, <1>1, PlanKernelFact
  <2> QED
    BY <1>0, <1>1, <2>2, <2>3
<1>2. CASE n.ensure = "present"
  <2>0. n.ensure # "absent"
    BY <1>2
  <2>1. s.action = IF ~(h.loaded /\ h.persisted) THEN "update" ELSE IF p = NoRecord THEN "adopt" ELSE "no-op"
    BY <1>0, <2>0, PlanKernelFact
  <2>2. ProviderPlan("kernel_module", n, r, e).action =
          IF ~(e.loaded /\ e.persisted) THEN "update" ELSE IF r = NoRecord THEN "adopt" ELSE "no-op"
    BY <1>0, <2>0, PlanKernelFact
  <2>3. CASE s.action = "update"
    <3>1. PICK o \in ApplyKernelModule(n, s, h) : o.ok /\ e = Ends(h, o)
      BY <2>3, AfterFact, ApplyOther DEF Ran
    <3>2. ~Removes(n, s)
      BY <1>2, <2>3 DEF Removes
    <3>3. e.loaded /\ e.persisted /\ r # NoRecord
      BY <2>3, <3>1, <3>2, KernelCall, AfterFact
    <3> QED
      BY <2>0, <2>2, <3>3
  <2>4. CASE s.action \in {"adopt", "no-op"}
    <3>1. e = h /\ r # NoRecord /\ h.loaded /\ h.persisted
      BY <1>0, <2>1, <2>4, AfterFact
    <3> QED
      BY <2>0, <2>2, <3>1
  <2> QED
    BY <2>1, <2>3, <2>4
<1> QED
  BY <1>0, <1>1, <1>2 DEF Either

\* A sysctl value after its step.
LEMMA SysctlAfter ==
    ASSUME NEW n \in Nodes("sysctl"), NEW p, IsRecord("sysctl", p), NEW h \in SysctlHost, NEW e \in SysctlHost,
           NEW s, s = ProviderPlan("sysctl", n, p, h), NEW r, After("sysctl", n, p, s, h, e, r)
    PROVE  /\ IF n.ensure = "absent" THEN e.file # n.value ELSE e.value = n.value /\ e.file = n.value
           /\ Shown(n.value) = n.value => ProviderPlan("sysctl", n, r, e).action = "no-op"
<1>0. /\ n.ensure \in Either /\ n.value \in {"1", "2", "4_5"} /\ Prior(p) /\ Prior(r) /\ s = PlanSysctl(n, p, h)
      /\ ProviderPlan("sysctl", n, r, e) = PlanSysctl(n, r, e)
  BY OtherNodes, AfterFact, PlanDispatch
<1>1. CASE n.ensure = "absent"
  <2>1. /\ PlanSysctl(n, p, h).action = IF h.file = n.value \/ p # NoRecord THEN "delete" ELSE "no-op"
        /\ PlanSysctl(n, r, e).action = IF e.file = n.value \/ r # NoRecord THEN "delete" ELSE "no-op"
    BY <1>0, <1>1, PlanSysctlFact
  <2>2. CASE s.action = "delete"
    <3>1. PICK o \in ApplySysctl(n, s, h) : o.ok /\ e = Ends(h, o)
      BY <2>2, AfterFact, ApplyOther DEF Ran
    <3>2. Removes(n, s)
      BY <1>1 DEF Removes
    <3>3. e.file = "none" /\ r = NoRecord
      BY <1>0, <2>2, <3>1, <3>2, SysctlCall, AfterFact
    <3> QED
      BY <1>0, <1>1, <2>1, <3>3
  <2>3. CASE s.action = "no-op"
    BY <1>0, <1>1, <2>1, <2>3, AfterFact
  <2> QED
    BY <1>0, <2>1, <2>2, <2>3
<1>2. CASE n.ensure = "present"
  <2>0. n.ensure # "absent"
    BY <1>2
  <2>1. /\ PlanSysctl(n, p, h).action = IF Shown(h.value) # n.value \/ h.file # n.value THEN "update"
                                        ELSE IF p = NoRecord THEN "adopt" ELSE "no-op"
        /\ PlanSysctl(n, r, e).action = IF Shown(e.value) # n.value \/ e.file # n.value THEN "update"
                                        ELSE IF r = NoRecord THEN "adopt" ELSE "no-op"
    BY <1>0, <2>0, PlanSysctlFact
  <2>2. CASE s.action = "update"
    <3>1. PICK o \in ApplySysctl(n, s, h) : o.ok /\ e = Ends(h, o)
      BY <2>2, AfterFact, ApplyOther DEF Ran
    <3>2. ~Removes(n, s)
      BY <1>2, <2>2 DEF Removes
    <3>3. e.file = n.value /\ e.value = n.value /\ r # NoRecord
      BY <1>0, <2>2, <3>1, <3>2, SysctlCall, AfterFact
    <3> QED
      BY <1>0, <2>0, <2>1, <3>3
  <2>3. CASE s.action \in {"adopt", "no-op"}
    <3>1. e = h /\ r # NoRecord /\ Shown(h.value) = n.value /\ h.file = n.value
      BY <1>0, <2>1, <2>3, AfterFact
    <3>2. h.value = n.value
      BY <1>0, <3>1 DEF Shown, SysctlHost
    <3> QED
      BY <1>0, <2>0, <2>1, <3>1, <3>2
  <2> QED
    BY <1>0, <2>1, <2>2, <2>3
<1> QED
  BY <1>0, <1>1, <1>2 DEF Either

\* A group after its step.
LEMMA GroupAfter ==
    ASSUME NEW n \in Nodes("group"), NEW p, IsRecord("group", p), NEW h \in GroupHost, NEW e \in GroupHost,
           NEW s, s = ProviderPlan("group", n, p, h), NEW r, After("group", n, p, s, h, e, r)
    PROVE  /\ IF n.ensure = "absent" THEN ~e.exists ELSE e.exists /\ SameGroup(n, e)
           /\ ProviderPlan("group", n, r, e).action = "no-op"
<1>0. /\ n.ensure \in Either /\ n.gid \in {"unset", "1", "2"} /\ Prior(p) /\ Prior(r)
      /\ e.exists \in BOOLEAN /\ h.exists \in BOOLEAN
  BY OtherNodes, AfterFact, GroupFact
<1>1. /\ s.action = EnsuredAction(n, p, h.exists, SameGroup(n, h))
      /\ ProviderPlan("group", n, r, e).action = EnsuredAction(n, r, e.exists, SameGroup(n, e))
  BY <1>0, PlanDispatch, PlanGroupFact
<1>3. CASE s.action \in {"create", "update", "delete"}
  <2>1. PICK o \in ApplyGroup(n, s, h) : o.ok /\ e = Ends(h, o)
    BY <1>3, AfterFact, ApplyOther DEF Ran
  <2>2. (Removes(n, s) <=> n.ensure = "absent") /\ (s.action = "delete" <=> n.ensure = "absent")
    BY <1>1, <1>3 DEF Removes, EnsuredAction
  <2>3. CASE n.ensure = "absent"
    <3>1. ~e.exists /\ r = NoRecord
      BY <1>0, <1>3, <2>1, <2>2, <2>3, GroupCall, GroupFact, AfterFact
    <3> QED
      BY <1>1, <2>3, <3>1 DEF EnsuredAction
  <2>4. CASE n.ensure # "absent"
    <3>1. e \in Groups /\ e.gid = IF n.gid # "unset" THEN n.gid ELSE IF h.exists THEN h.gid ELSE "1"
      BY <1>0, <2>1, <2>2, <2>4, GroupCall
    <3>2. e.exists /\ r # NoRecord
      BY <1>3, <2>2, <2>4, <3>1, GroupFact, AfterFact
    <3>3. SameGroup(n, e)
      BY <3>1 DEF SameGroup
    <3> QED
      BY <1>1, <2>4, <3>2, <3>3 DEF EnsuredAction
  <2> QED
    BY <2>3, <2>4
<1>4. CASE s.action \in {"adopt", "no-op"}
  BY <1>1, <1>4, AfterFact DEF EnsuredAction
<1> QED
  BY <1>1, <1>3, <1>4 DEF EnsuredAction

\* A user after its step.
LEMMA UserAfter ==
    ASSUME NEW n \in Nodes("user"), NEW p, IsRecord("user", p), NEW h \in UserHost, NEW e \in UserHost,
           NEW s, s = ProviderPlan("user", n, p, h), NEW r, After("user", n, p, s, h, e, r)
    PROVE  /\ n.ensure = "absent" => ~e.exists
           /\ n.ensure # "absent" => /\ e.exists /\ n.shell \in {"unset", e.shell}
                                     /\ n.groups \subseteq e.groups \cup {e.primary}
           /\ e.primary \notin n.groups => ProviderPlan("user", n, r, e).action = "no-op"
<1>0. /\ n.ensure \in Either /\ n.shell \in {"unset", "sh", "zsh"} /\ n.groups \in SUBSET {"g", "w"}
      /\ Prior(p) /\ Prior(r) /\ e.exists \in BOOLEAN /\ h.exists \in BOOLEAN
  BY OtherNodes, AfterFact, UserFact
<1>1. /\ s.action = EnsuredAction(n, p, h.exists, SameUser(n, h))
      /\ ProviderPlan("user", n, r, e).action = EnsuredAction(n, r, e.exists, SameUser(n, e))
  BY <1>0, PlanDispatch, PlanUserFact
<1>2. SameUser(n, e) => n.shell \in {"unset", e.shell} /\ n.groups \subseteq e.groups \cup {e.primary}
  BY DEF SameUser
<1>3. CASE s.action \in {"create", "update", "delete"}
  <2>1. PICK o \in ApplyUser(n, s, h) : o.ok /\ e = Ends(h, o)
    BY <1>3, AfterFact, ApplyOther DEF Ran
  <2>2. (Removes(n, s) <=> n.ensure = "absent") /\ (s.action = "delete" <=> n.ensure = "absent")
    BY <1>1, <1>3 DEF Removes, EnsuredAction
  <2>3. CASE n.ensure = "absent"
    <3>1. ~e.exists /\ r = NoRecord
      BY <1>0, <1>3, <2>1, <2>2, <2>3, UserCall, UserFact, AfterFact
    <3> QED
      BY <1>1, <2>3, <3>1 DEF EnsuredAction
  <2>4. CASE n.ensure # "absent"
    <3>1. /\ e \in Users /\ e.shell = IF n.shell # "unset" THEN n.shell ELSE IF h.exists THEN h.shell ELSE "sh"
          /\ e.groups = IF n.groups # {} THEN n.groups ELSE h.groups
      BY <1>0, <2>1, <2>2, <2>4, UserCall
    <3>2. e.exists /\ r # NoRecord
      BY <1>3, <2>2, <2>4, <3>1, UserFact, AfterFact
    <3>3. n.shell \in {"unset", e.shell} /\ n.groups \subseteq e.groups \cup {e.primary}
      BY <3>1
    <3>4. e.primary \notin n.groups => SameUser(n, e)
      BY <3>1 DEF SameUser
    <3> QED
      BY <1>1, <2>4, <3>2, <3>3, <3>4 DEF EnsuredAction
  <2> QED
    BY <2>3, <2>4
<1>4. CASE s.action \in {"adopt", "no-op"}
  BY <1>1, <1>2, <1>4, AfterFact DEF EnsuredAction
<1> QED
  BY <1>1, <1>3, <1>4 DEF EnsuredAction

\* A membership after its step.
LEMMA MemberAfter ==
    ASSUME NEW n \in Nodes("user_group_membership"), NEW p, IsRecord("user_group_membership", p),
           NEW h \in MemberHost, NEW e \in MemberHost, NEW s, s = ProviderPlan("user_group_membership", n, p, h),
           NEW r, After("user_group_membership", n, p, s, h, e, r)
    PROVE  /\ IF n.ensure = "absent" THEN e.primary \/ ~e.member ELSE e.user /\ (e.primary \/ e.member)
           /\ ProviderPlan("user_group_membership", n, r, e).action = "no-op"
<1>0. /\ n.ensure \in Either /\ n.managed \in BOOLEAN /\ Prior(p) /\ Prior(r) /\ s = PlanUserGroupMembership(n, p, h)
      /\ ProviderPlan("user_group_membership", n, r, e) = PlanUserGroupMembership(n, r, e)
  BY OtherNodes, AfterFact, PlanDispatch
<1>b. /\ e.user \in BOOLEAN /\ e.member \in BOOLEAN /\ e.primary \in BOOLEAN /\ (e.user \/ ~(e.primary \/ e.member))
      /\ h.user \in BOOLEAN /\ h.member \in BOOLEAN /\ h.primary \in BOOLEAN /\ (h.user \/ ~(h.primary \/ h.member))
  BY DEF MemberHost
<1>1. CASE n.ensure = "absent"
  <2>1. /\ PlanUserGroupMembership(n, p, h).action =
             IF (h.user /\ h.member /\ ~h.primary) \/ p # NoRecord THEN "delete" ELSE "no-op"
        /\ PlanUserGroupMembership(n, r, e).action =
             IF (e.user /\ e.member /\ ~e.primary) \/ r # NoRecord THEN "delete" ELSE "no-op"
    BY <1>0, <1>1, PlanMemberFact
  <2>2. CASE s.action = "delete"
    <3>1. PICK o \in ApplyUserGroupMembership(n, s, h) : o.ok /\ e = Ends(h, o)
      BY <2>2, AfterFact, ApplyOther DEF Ran
    <3>2. Removes(n, s)
      BY <1>1 DEF Removes
    <3>3. e.primary \/ ~e.member
      BY <1>0, <3>1, <3>2, MemberCall
    <3>4. r = NoRecord
      BY <2>2, AfterFact
    <3> QED
      BY <1>0, <1>b, <1>1, <2>1, <3>3, <3>4
  <2>3. CASE s.action = "no-op"
    BY <1>0, <1>b, <1>1, <2>1, <2>3, AfterFact
  <2> QED
    BY <1>0, <2>1, <2>2, <2>3
<1>2. CASE n.ensure = "present"
  <2>0. n.ensure # "absent"
    BY <1>2
  <2>1. /\ PlanUserGroupMembership(n, p, h).action =
             IF ~h.user THEN (IF n.managed THEN "create" ELSE "error")
             ELSE IF ~(h.primary \/ h.member) THEN "update" ELSE IF p = NoRecord THEN "adopt" ELSE "no-op"
        /\ PlanUserGroupMembership(n, r, e).action =
             IF ~e.user THEN (IF n.managed THEN "create" ELSE "error")
             ELSE IF ~(e.primary \/ e.member) THEN "update" ELSE IF r = NoRecord THEN "adopt" ELSE "no-op"
    BY <1>0, <2>0, PlanMemberFact
  <2>2. CASE s.action \in {"create", "update"}
    <3>1. PICK o \in ApplyUserGroupMembership(n, s, h) : o.ok /\ e = Ends(h, o)
      BY <2>2, AfterFact, ApplyOther DEF Ran
    <3>2. ~Removes(n, s)
      BY <1>2, <2>2 DEF Removes
    <3>3. e.user /\ e.member
      BY <1>0, <3>1, <3>2, MemberCall
    <3>4. r # NoRecord
      BY <2>2, AfterFact
    <3> QED
      BY <1>0, <1>b, <2>0, <2>1, <3>3, <3>4
  <2>3. CASE s.action \in {"adopt", "no-op"}
    BY <1>0, <1>b, <2>0, <2>1, <2>3, AfterFact
  <2>4. s.action # "error"
    BY AfterFact
  <2> QED
    BY <1>0, <2>1, <2>2, <2>3, <2>4
<1> QED
  BY <1>0, <1>1, <1>2 DEF Either

\* An authorized key after its step.
LEMMA KeyAfter ==
    ASSUME NEW n \in Nodes("ssh_authorized_key"), NEW p, IsRecord("ssh_authorized_key", p), NEW h \in KeyHost,
           NEW e \in KeyHost, NEW s, s = ProviderPlan("ssh_authorized_key", n, p, h), NEW r,
           After("ssh_authorized_key", n, p, s, h, e, r)
    PROVE  /\ IF n.ensure = "absent" THEN "k" \notin e.keys ELSE "k" \in e.keys
           /\ ProviderPlan("ssh_authorized_key", n, r, e).action = "no-op"
<1>0. n.ensure \in Either /\ Prior(p) /\ Prior(r)
  BY OtherNodes, AfterFact
<1>1. /\ s.action = EnsuredAction(n, p, HasKey(h), HasKey(h))
      /\ ProviderPlan("ssh_authorized_key", n, r, e).action = EnsuredAction(n, r, HasKey(e), HasKey(e))
  BY <1>0, PlanDispatch, PlanKeyFact
<1>2. HasKey(e) <=> "k" \in e.keys
  BY DEF HasKey, KeyHost
<1>3. CASE s.action \in {"create", "update", "delete"}
  <2>1. PICK o \in ApplyAuthorizedKey(n, s, h) : o.ok /\ e = Ends(h, o)
    BY <1>3, AfterFact, ApplyOther DEF Ran
  <2>2. (Removes(n, s) <=> n.ensure = "absent") /\ (s.action = "delete" <=> n.ensure = "absent")
    BY <1>1, <1>3 DEF Removes, EnsuredAction
  <2>3. IF n.ensure = "absent" THEN "k" \notin e.keys ELSE "k" \in e.keys
    BY <2>1, <2>2, KeyCall
  <2>4. IF n.ensure = "absent" THEN r = NoRecord ELSE r # NoRecord
    BY <1>3, <2>2, AfterFact
  <2> QED
    BY <1>1, <1>2, <2>3, <2>4 DEF EnsuredAction
<1>4. CASE s.action \in {"adopt", "no-op"}
  BY <1>1, <1>2, <1>4, AfterFact DEF EnsuredAction
<1> QED
  BY <1>1, <1>3, <1>4 DEF EnsuredAction

\* What planService compares.
SameService(n, h) ==
    /\ n.enabled \in {"unset", h.enabled} /\ n.state \notin {"restarted", "reloaded"}
    /\ n.state = "running" => h.active
    /\ n.state = "stopped" => ~h.active

\* A service after its step.
LEMMA ServiceAfter ==
    ASSUME NEW n \in Nodes("service"), NEW p, IsRecord("service", p), NEW h \in ServiceHost, NEW e \in ServiceHost,
           NEW s, s = ProviderPlan("service", n, p, h), NEW r, After("service", n, p, s, h, e, r)
    PROVE  /\ n.enabled \in {"unset", e.enabled}
           /\ n.state # "unset" => e.active = (n.state # "stopped")
           /\ n.state \notin {"restarted", "reloaded"} => ProviderPlan("service", n, r, e).action = "no-op"
<1>0. /\ n.enabled \in {"unset", "yes", "no"} /\ n.state \in {"unset", "running", "stopped", "restarted", "reloaded"}
      /\ Prior(p) /\ Prior(r) /\ s = PlanService(n, p, h) /\ ProviderPlan("service", n, r, e) = PlanService(n, r, e)
      /\ h.active \in BOOLEAN /\ e.active \in BOOLEAN
  BY OtherNodes, AfterFact, PlanDispatch DEF ServiceHost
<1>1. /\ PlanService(n, p, h).action =
           IF ~SameService(n, h) THEN "update" ELSE IF p = NoRecord THEN "adopt" ELSE "no-op"
      /\ PlanService(n, r, e).action =
           IF ~SameService(n, e) THEN "update" ELSE IF r = NoRecord THEN "adopt" ELSE "no-op"
  <2>1. PlanService(n, p, h).action =
          IF ~SameService(n, h) THEN "update" ELSE IF p = NoRecord THEN "adopt" ELSE "no-op"
    BY <1>0, PlanServiceFact DEF SameService
  <2>2. PlanService(n, r, e).action =
          IF ~SameService(n, e) THEN "update" ELSE IF r = NoRecord THEN "adopt" ELSE "no-op"
    BY <1>0, PlanServiceFact DEF SameService
  <2> QED
    BY <2>1, <2>2
<1>2. CASE s.action = "update"
  <2>1. PICK o \in ApplyService(n, h) : o.ok /\ e = Ends(h, o)
    BY <1>2, AfterFact, ApplyOther DEF Ran
  <2>2. /\ e.enabled = IF n.enabled = "unset" THEN h.enabled ELSE n.enabled
        /\ n.state = "stopped" => ~e.active
        /\ n.state \in {"running", "restarted", "reloaded"} => e.active
    BY <1>0, <2>1, ServiceCall
  <2>3. r # NoRecord
    BY <1>2, AfterFact
  <2>4. n.enabled \in {"unset", e.enabled}
    BY <2>2
  <2>5. n.state # "unset" => e.active = (n.state # "stopped")
    BY <1>0, <2>2
  <2>6. n.state \notin {"restarted", "reloaded"} => SameService(n, e)
    BY <2>2, <2>4 DEF SameService
  <2> QED
    BY <1>0, <1>1, <2>3, <2>4, <2>5, <2>6
<1>3. CASE s.action \in {"adopt", "no-op"}
  <2>1. e = h /\ r # NoRecord /\ SameService(n, h)
    BY <1>0, <1>1, <1>3, AfterFact
  <2>2. n.enabled \in {"unset", e.enabled}
    BY <2>1 DEF SameService
  <2>3. n.state # "unset" => e.active = (n.state # "stopped")
    BY <1>0, <2>1 DEF SameService
  <2> QED
    BY <1>0, <1>1, <2>1, <2>2, <2>3
<1> QED
  BY <1>0, <1>1, <1>2, <1>3

\* A system setting after its step.
LEMMA SettingAfter ==
    ASSUME NEW k \in {"system_hostname", "system_timezone", "system_locale"}, NEW n \in Nodes(k), NEW p,
           IsRecord(k, p), NEW h \in SettingHost, NEW e \in SettingHost, NEW s, s = ProviderPlan(k, n, p, h), NEW r,
           After(k, n, p, s, h, e, r)
    PROVE  /\ e.value = n.value /\ (k = "system_hostname" \/ e.available)
           /\ ProviderPlan(k, n, r, e).action = "no-op"
<1>0. n.value \in {"x", "y"} /\ Prior(p) /\ Prior(r) /\ e.available \in BOOLEAN /\ h.available \in BOOLEAN
  BY OtherNodes, AfterFact DEF SettingHost
<1>1. ASSUME NEW q, Prior(q), NEW g \in SettingHost, NEW t, t = ProviderPlan(k, n, q, g)
      PROVE  /\ t.action \in {"error", "create", "update", "adopt", "no-op"}
             /\ t.action \in {"adopt", "no-op"} => g.value = n.value /\ (k = "system_hostname" \/ g.available)
             /\ t.action = "no-op" => q # NoRecord
             /\ g.value = n.value /\ (k = "system_hostname" \/ g.available) /\ q # NoRecord => t.action = "no-op"
  <2>0. g.available \in BOOLEAN /\ SystemSettingAction(q, g) \in {"create", "update"}
    BY <1>1, PlanSettingFact DEF SettingHost
  <2>1. CASE k = "system_hostname"
    <3>1. t = PlanSystemHostname(n, q, g)
      BY <1>1, <2>1, PlanDispatch
    <3>2. PlanSystemHostname(n, q, g).action =
            IF g.value # n.value THEN "update" ELSE IF q = NoRecord THEN "adopt" ELSE "no-op"
      BY <1>1, PlanSettingFact, Zenon
    <3> QED
      BY <2>0, <2>1, <3>1, <3>2
  <2>2. CASE k = "system_timezone"
    <3>1. t = PlanSystemTimezone(n, q, g)
      BY <1>1, <2>2, PlanDispatch
    <3>2. PlanSystemTimezone(n, q, g).action =
            IF ~g.available THEN "error" ELSE IF g.value # n.value THEN SystemSettingAction(q, g)
            ELSE IF q = NoRecord THEN "adopt" ELSE "no-op"
      BY <1>1, PlanSettingFact, Zenon
    <3> QED
      BY <2>0, <2>2, <3>1, <3>2
  <2>3. CASE k = "system_locale"
    <3>1. t = PlanSystemLocale(n, q, g)
      BY <1>1, <2>3, PlanDispatch
    <3>2. PlanSystemLocale(n, q, g).action =
            IF g.value # n.value \/ ~g.available THEN SystemSettingAction(q, g)
            ELSE IF q = NoRecord THEN "adopt" ELSE "no-op"
      BY <1>1, PlanSettingFact, Zenon
    <3> QED
      BY <2>0, <2>3, <3>1, <3>2
  <2> QED
    BY <2>1, <2>2, <2>3
<1>2. ASSUME e.value = n.value, k = "system_hostname" \/ e.available, r # NoRecord
      PROVE  ProviderPlan(k, n, r, e).action = "no-op"
  BY <1>0, <1>1, <1>2
<1>3. CASE s.action \in {"create", "update"}
  <2>1. PICK o \in ProviderApply(k, n, s, p, h) : o.ok /\ e = Ends(h, o)
    BY <1>3, AfterFact DEF Ran
  <2>2. e.value = n.value /\ (k = "system_hostname" \/ e.available)
    <3>1. CASE k = "system_hostname"
      BY <1>0, <2>1, <3>1, ApplyOther, SettingCall
    <3>2. CASE k = "system_timezone"
      <4>1. o \in ApplySystemTimezone(n, h)
        BY <2>1, <3>2, ApplyOther
      <4>2. e.value = n.value
        BY <1>0, <2>1, <4>1, SettingCall
      <4>3. e.available
        BY <1>0, <2>1, <4>1, SettingCall
      <4> QED
        BY <4>2, <4>3
    <3>3. CASE k = "system_locale"
      <4>1. o \in ApplySystemLocale(n, h)
        BY <2>1, <3>3, ApplyOther
      <4>2. e.value = n.value
        BY <1>0, <2>1, <4>1, SettingCall
      <4>3. e.available
        BY <1>0, <2>1, <4>1, SettingCall
      <4> QED
        BY <4>2, <4>3
    <3> QED
      BY <3>1, <3>2, <3>3
  <2> QED
    BY <1>2, <1>3, <2>2, AfterFact
<1>4. CASE s.action \in {"adopt", "no-op"}
  <2>1. e = h /\ r # NoRecord /\ h.value = n.value /\ (k = "system_hostname" \/ h.available)
    BY <1>0, <1>1, <1>4, AfterFact
  <2> QED
    BY <1>2, <2>1
<1> QED
  BY <1>0, <1>1, <1>3, <1>4, AfterFact

\* The containers of the project are as its state asks.
InState(n, c, running) ==
    /\ n.state = "running" => c.svc \in running
    /\ n.state = "stopped" => c.svc \in {"none", "stopped"}
    /\ n.state = "absent" => c.svc = "none"

\* What is read of the project is its state, without containers of former
\* services.
SameProject(n, p, c) == ObservedState(c) = n.state /\ c.orphan = "none" /\ (p = NoRecord \/ p.desired = n)

\* A Compose project after its step, with the other projects.
LEMMA ComposeAfter ==
    ASSUME NEW n \in Nodes("docker_compose_project"), n # Undeclared, NEW p, IsRecord("docker_compose_project", p),
           NEW h \in ComposeHost, NEW e \in ComposeHost, NEW s, s = ProviderPlan("docker_compose_project", n, p, h),
           NEW r, After("docker_compose_project", n, p, s, h, e, r)
    PROVE  LET next == ProviderPlan("docker_compose_project", n, r, e).action
               c == e[n.project]
           IN
           /\ s.action \notin {"adopt", "no-op"} =>
                /\ InState(n, c, {"running"})
                /\ n.remove_orphans /\ n.state # "stopped" => c.orphan = "none"
                /\ c.orphan = "none" /\ ~(n.state = "stopped" /\ c.svc = "none") => next = "no-op"
           /\ s.action \in {"adopt", "no-op"} =>
                \/ n.state = "absent" /\ c.file = "unread"
                \/ c.file = "late" /\ next # "no-op"
                \/ InState(n, c, {"running", "part"}) /\ next = "no-op"
           /\ \A q \in Project \ {n.project} :
                e[q].svc # "none" => h[q].svc # "none" /\ (p # NoRecord => p.desired.project # q)
           /\ r # NoRecord => r.desired = n
<1> DEFINE k == "docker_compose_project"
<1> DEFINE next == ProviderPlan(k, n, r, e).action
<1>0. /\ n \in ComposeNodes /\ n.state \in {"running", "stopped", "absent"} /\ n.project \in Project
      /\ Prior(p) /\ Prior(r) /\ s = PlanDockerComposeProject(n, p, h)
      /\ ProviderPlan(k, n, r, e) = PlanDockerComposeProject(n, r, e)
  <2>1. n \in ComposeNodes
    BY OtherNodes
  <2>2. n.state \in {"running", "stopped", "absent"} /\ n.project \in Project
    BY <2>1 DEF ComposeNodes
  <2> QED
    BY <2>1, <2>2, AfterFact, PlanDispatch
<1>1. p = NoRecord \/ p.desired \in ComposeNodes
  BY RecordFact, OtherNodes DEF IsRecord, AllKinds
<1>2. h[n.project] \in Container /\ e[n.project] \in Container
  BY <1>0 DEF ComposeHost
<1>3. ASSUME NEW q, Prior(q), NEW g \in ComposeHost
      PROVE  LET c == ReadDockerComposeProject(g[n.project])
             IN
             /\ n.state = "absent" => PlanDockerComposeProject(n, q, g).action =
                  IF ObservedState(c) # "absent" \/ q # NoRecord THEN "delete" ELSE "no-op"
             /\ n.state # "absent" => PlanDockerComposeProject(n, q, g).action =
                  IF ~SameProject(n, q, c) THEN "update" ELSE IF q = NoRecord THEN "adopt" ELSE "no-op"
  BY <1>3, PlanComposeFact DEF SameProject
<1>4. CASE s.action \in {"create", "update", "delete"}
  <2>1. PICK o \in ApplyDockerComposeProject(n, p, h) : o.ok /\ e = Ends(h, o)
    BY <1>4, AfterFact, ApplyOther DEF Ran
  <2>2. /\ InState(n, e[n.project], {"running"}) /\ e[n.project].file = "read"
        /\ n.remove_orphans /\ n.state # "stopped" => e[n.project].orphan = "none"
        /\ \A q \in Project \ {n.project} :
             e[q].svc = IF p # NoRecord /\ p.desired.project = q THEN "none" ELSE h[q].svc
    BY <1>0, <1>1, <2>1, ComposeCall DEF InState
  <2>3. ReadDockerComposeProject(e[n.project]) = e[n.project]
    BY <1>2, <2>2, ReadFact
  <2>4. CASE n.state = "absent"
    <3>1. s.action = "delete"
      BY <1>0, <1>3, <1>4, <2>4
    <3>2. r = NoRecord
      BY <3>1, AfterFact
    <3>3. e[n.project].orphan = "none" => ObservedState(e[n.project]) = "absent"
      BY <1>2, <2>2, <2>4, ObservedFact DEF InState
    <3>4. e[n.project].orphan = "none" => next = "no-op"
      BY <1>0, <1>3, <2>3, <2>4, <3>2, <3>3
    <3> QED
      BY <1>4, <2>2, <2>4, <3>2, <3>4
  <2>5. CASE n.state # "absent"
    <3>1. s.action = "update"
      BY <1>0, <1>3, <1>4, <2>5
    <3>2. r # NoRecord /\ r.desired = n
      BY <3>1, AfterFact
    <3>3. e[n.project].orphan = "none" /\ ~(n.state = "stopped" /\ e[n.project].svc = "none") =>
            SameProject(n, r, e[n.project])
      BY <1>0, <1>2, <2>2, <2>5, <3>2, ObservedFact DEF SameProject, InState
    <3>4. e[n.project].orphan = "none" /\ ~(n.state = "stopped" /\ e[n.project].svc = "none") => next = "no-op"
      BY <1>0, <1>3, <2>3, <2>5, <3>2, <3>3
    <3> QED
      BY <1>4, <2>2, <3>2, <3>4
  <2> QED
    BY <2>4, <2>5
<1>5. CASE s.action \in {"adopt", "no-op"}
  <2>0. e \in AfterFileStep(n, h)
    <3>1. Stays(k, n, h, e)
      BY <1>5, AfterFact
    <3> QED
      BY <3>1 DEF Stays
  <2>1. /\ e = h \/ e[n.project].file = "late"
        /\ \A q \in Project \ {n.project} : e[q] = h[q]
    BY <1>0, <2>0, FileStepFact
  <2>2. /\ n.state = "absent" => p = NoRecord /\ r = NoRecord
        /\ n.state # "absent" => SameProject(n, p, ReadDockerComposeProject(h[n.project])) /\ r # NoRecord /\ r.desired = n
    <3>1. CASE n.state = "absent"
      BY <1>0, <1>3, <1>5, <3>1, AfterFact
    <3>2. CASE n.state # "absent"
      <4>1. SameProject(n, p, ReadDockerComposeProject(h[n.project]))
        BY <1>0, <1>3, <1>5, <3>2
      <4> QED
        BY <1>0, <1>3, <1>5, <3>2, <4>1, AfterFact DEF SameProject
    <3> QED
      BY <3>1, <3>2
  <2>3. ASSUME NEW q, Prior(q), NEW g \in ComposeHost, g[n.project].file # "unread", g[n.project] \in Container,
               PlanDockerComposeProject(n, q, g).action \in {"adopt", "no-op"}
        PROVE  InState(n, g[n.project], {"running", "part"})
    <3>1. ReadDockerComposeProject(g[n.project]) = g[n.project]
      BY <2>3, ReadFact
    <3>2. CASE n.state = "absent"
      <4>1. ObservedState(g[n.project]) = "absent"
        BY <1>3, <2>3, <3>1, <3>2
      <4> QED
        BY <2>3, <3>2, <4>1, ObservedFact DEF InState
    <3>3. CASE n.state # "absent"
      <4>1. SameProject(n, q, g[n.project])
        BY <1>3, <2>3, <3>1, <3>3
      <4> QED
        BY <1>0, <2>3, <3>3, <4>1, ObservedFact DEF InState, SameProject
    <3> QED
      BY <3>2, <3>3
  <2>4. /\ \A q \in Project \ {n.project} :
             e[q].svc # "none" => h[q].svc # "none" /\ (p # NoRecord => p.desired.project # q)
        /\ r # NoRecord => r.desired = n
    BY <2>1, <2>2 DEF SameProject
  <2>5. \/ n.state = "absent" /\ e[n.project].file = "unread"
        \/ e[n.project].file = "late" /\ next # "no-op"
        \/ InState(n, e[n.project], {"running", "part"}) /\ next = "no-op"
    <3>1. CASE e[n.project].file = "late" /\ next = "no-op"
      BY <1>0, <1>2, <2>3, <3>1
    <3>2. CASE e = h /\ e[n.project].file = "unread"
      <4>1. ObservedState(ReadDockerComposeProject(h[n.project])) = "absent"
        BY <1>2, <3>2, ReadFact
      <4>2. n.state = "absent"
        BY <2>2, <4>1 DEF SameProject
      <4> QED
        BY <3>2, <4>2
    <3>3. CASE e = h /\ e[n.project].file # "unread"
      <4>1. InState(n, e[n.project], {"running", "part"})
        BY <1>0, <1>2, <1>5, <2>3, <3>3
      <4>2. CASE n.state = "absent"
        <5>1. r = p
          BY <2>2, <4>2
        <5>2. s.action = "no-op"
          BY <1>0, <1>3, <1>5, <4>2
        <5> QED
          BY <1>0, <3>3, <4>1, <5>1, <5>2
      <4>3. CASE n.state # "absent"
        <5>1. SameProject(n, r, ReadDockerComposeProject(e[n.project]))
          BY <2>2, <3>3, <4>3 DEF SameProject
        <5>2. next = "no-op"
          BY <1>0, <1>3, <2>2, <4>3, <5>1
        <5> QED
          BY <4>1, <5>2
      <4> QED
        BY <4>2, <4>3
    <3> QED
      BY <2>1, <3>1, <3>2, <3>3
  <2> QED
    BY <1>5, <2>4, <2>5
<1>6. s.action \in {"create", "update", "delete", "adopt", "no-op"}
  BY <1>0, <1>3
<1> QED
  BY <1>4, <1>5, <1>6

-----------------------------------------------------------------------------
(* A run that ends without an error leaves the resource as declared.  What *)
(* the reads cannot see is known from the record: as long as every write   *)
(* is in it and nobody else changes the host, the record says what the     *)
(* last run left.                                                          *)

\* The record, as it is or as the step is about to write it.
CurrentRecord == IF pc = "called" THEN RecordAfter ELSE rec

Kept(r) ==
    Undisturbed /\ r # NoRecord =>
      /\ kind = "file" /\ Fits(host.path, "file") => host.path.content = r.desired.content
      /\ kind = "component_archive" /\ Fits(host.path, "dir") => host.path.content = r.desired.content
      /\ kind = "docker_compose_project" =>
           \A q \in Project \ {r.desired.project} : host[q].svc # "none" => origin[q].svc # "none"

KeptInv == Kept(CurrentRecord)
ShaInv == ShaKept(kind, rec) /\ (pc = "called" => ShaKept(kind, RecordAfter))

OverlookedBy(r) ==
    /\ kind = "docker_compose_project" /\ step.action \in {"no-op", "adopt"}
    /\ \/ host[want.project].file = "unread" /\ want.state = "absent"
       \/ host[want.project].file = "late" /\ ProviderPlan(kind, want, r, host).action # "no-op"

Good ==
    \/ Obstructed /\ want.ensure = "present" /\ kind \notin {"directory", "component_archive"}
    \/ OverlookedBy(CurrentRecord)
    \/ /\ Satisfied
       /\ NeverInSync \/ ProviderPlan(kind, want, CurrentRecord, host).action = "no-op"

GoodInv == pc \in {"called", "done"} /\ want # Undeclared => Good

Ready == TypeInv /\ PlannedInv /\ KeptInv /\ ShaInv

\* The facts that the lemmas on the kinds start from.
LEMMA Executing ==
    ASSUME Ready, Call \/ NoCall, want # Undeclared
    PROVE  /\ kind \in AllKinds /\ want \in Nodes(kind) /\ IsRecord(kind, rec)
           /\ host \in HostSpace(kind) /\ host' \in HostSpace(kind)
           /\ step = ProviderPlan(kind, want, rec, host)
           /\ After(kind, want, rec, step, host, host', RecordAfter')
           /\ Kept(rec) /\ ShaKept(kind, rec)
           /\ pc' = "called" /\ Frame /\ step'.action = step.action
           /\ CurrentRecord' = RecordAfter'
           /\ Wrote' <=> step.action \in {"create", "update"}
           /\ Undisturbed' <=> Undisturbed
           /\ clean /\ rec = NoRecord => origin = host
<1>0. TypeInv /\ PlannedInv
  BY DEF Ready
<1>1. pc = "planned" /\ pc' = "called" /\ Frame /\ step'.action = step.action /\ host' \in HostSpace(kind)
  BY <1>0, Execution
<1>2. CurrentRecord' = RecordAfter' /\ CurrentRecord = rec
  BY <1>1 DEF CurrentRecord
<1>3. Kept(rec) /\ ShaKept(kind, rec)
  BY <1>2 DEF Ready, KeptInv, ShaInv
<1>4. (Wrote' <=> step.action \in {"create", "update"}) /\ (Undisturbed' <=> Undisturbed)
  BY <1>1 DEF Wrote, Undisturbed, Frame
<1>5. clean /\ rec = NoRecord => origin = host
  BY <1>0, <1>1 DEF PlannedInv
<1>6. kind \in AllKinds /\ want \in Nodes(kind) /\ IsRecord(kind, rec) /\ host \in HostSpace(kind)
  BY <1>0, KindFact DEF TypeInv
<1>7. step = ProviderPlan(kind, want, rec, host)
  BY <1>0, <1>1, PlannedFact
<1>8. After(kind, want, rec, step, host, host', RecordAfter')
  BY <1>0, AfterExecution
<1> QED
  BY <1>1, <1>2, <1>3, <1>4, <1>5, <1>6, <1>7, <1>8

\* Files, units and netdevs; a write-only content is that of the record.
LEMMA FileLikeGood ==
    ASSUME Ready, Call \/ NoCall, want # Undeclared, kind \in {"file", "systemd_unit", "networkd_netdev"}
    PROVE  Good' /\ Kept(RecordAfter)' /\ ShaKept(kind, RecordAfter)'
<1>1. PICK e : e = host'
  OBVIOUS
<1>2. PICK r : r = RecordAfter'
  OBVIOUS
<1>3. kind \in PathKinds /\ HostSpace(kind) = PathHost
  BY HostSpaceOf DEF PathKinds
<1>4. host \in PathHost /\ e \in PathHost /\ want.write_only \in BOOLEAN /\ want.ensure \in Either
  BY <1>1, <1>3, Executing, InstallNodes DEF InstallKinds
<1>5. /\ want.ensure = "absent" => ~Exists(e.path) /\ ProviderPlan(kind, want, r, e).action = "no-op"
      /\ want.ensure = "present" /\ e.path.type # "dir" =>
           /\ Fits(e.path, "file") /\ e.path.content \in Content
           /\ ~want.write_only \/ step.action \in {"create", "update"} => e.path.content = want.content
           /\ want.write_only /\ step.action = "no-op" => Recorded(want, rec) /\ e = host
           /\ step.action \in {"create", "update", "adopt", "no-op"}
           /\ kind = "systemd_unit" /\ step.action \in {"create", "update"} => e.aside = e.path
           /\ ProviderPlan(kind, want, r, e).action = "no-op"
      /\ want.ensure = "present" /\ step.action = "adopt" => ~want.write_only
  BY <1>1, <1>2, <1>4, Executing, FileLikeAfter
<1>6. /\ step.action \in {"create", "update", "adopt"} => r # NoRecord /\ r.desired = want
      /\ step.action = "no-op" => r = rec /\ e = host
      /\ step.action \in {"delete", "forget"} => r = NoRecord
      /\ step.action \in {"create", "update", "delete", "adopt", "no-op", "forget"}
  BY <1>1, <1>2, Executing, AfterFact
<1>7. Fits(e.path, "file") => e.path.type # "dir" /\ Exists(e.path)
  BY DEF Fits, Exists
<1>8. Kept(RecordAfter)'
  <2>1. SUFFICES ASSUME Undisturbed, r # NoRecord, kind = "file", Fits(e.path, "file")
                 PROVE  e.path.content = r.desired.content
    BY <1>1, <1>2, Executing DEF Kept, Frame
  <2>2. want.ensure = "present"
    BY <1>4, <1>5, <1>7, <2>1 DEF Either
  <2>3. CASE step.action = "no-op"
    BY <1>6, <2>1, <2>3, Executing DEF Kept
  <2>4. CASE step.action \in {"create", "update", "adopt"}
    BY <1>5, <1>6, <1>7, <2>1, <2>2, <2>4
  <2> QED
    BY <1>6, <2>1, <2>3, <2>4
<1>9. ShaKept(kind, RecordAfter)'
  BY Executing DEF ShaKept, Frame
<1>10. ASSUME want.ensure = "present", e.path.type # "dir", kind = "file", want.write_only,
              step.action \in {"create", "update"} \/ Undisturbed
       PROVE  e.path.content = want.content
  <2>1. CASE step.action \in {"create", "update"}
    BY <1>5, <1>10, <2>1
  <2>2. CASE step.action = "no-op" /\ Undisturbed
    <3>1. Recorded(want, rec) /\ e = host /\ Fits(e.path, "file")
      BY <1>5, <1>10, <2>2
    <3> QED
      BY <1>10, <2>2, <3>1, Executing DEF Kept, Recorded
  <2> QED
    BY <1>5, <1>10, <2>1, <2>2
<1>11. Good'
  <2>0. /\ UNCHANGED <<kind, want>> /\ CurrentRecord' = r /\ (Wrote' <=> step.action \in {"create", "update"})
        /\ (Undisturbed' <=> Undisturbed)
    BY <1>2, Executing DEF Frame
  <2>1. CASE want.ensure = "absent"
    BY <1>1, <1>3, <1>5, <2>0, <2>1 DEF Good, Satisfied, AbsentSatisfied
  <2>2. CASE want.ensure = "present" /\ e.path.type = "dir"
    BY <1>1, <1>3, <2>0, <2>2 DEF Good, Obstructed
  <2>3. CASE want.ensure = "present" /\ e.path.type # "dir"
    <3>1. PathSatisfied'
      <4>1. Fits(e.path, "file") /\ e.path.content \in Content
        BY <1>5, <2>3
      <4>2. kind = "systemd_unit" /\ Wrote' => e.aside = e.path
        BY <1>5, <2>0, <2>3
      <4>3. want.write_only => kind = "file"
        BY <1>4, Executing, InstallNodes DEF InstallKinds
      <4>4. ContentKnown' => ~want.write_only
        BY <2>0, <4>3 DEF ContentKnown
      <4>5. ContentKnown' \/ (kind = "file" /\ (Wrote' \/ Undisturbed')) => e.path.content = want.content
        BY <1>4, <1>5, <1>10, <2>0, <2>3, <4>4
      <4> QED
        BY <1>1, <2>0, <4>1, <4>2, <4>5 DEF PathSatisfied
    <3>2. Satisfied'
      BY <1>3, <2>0, <2>3, <3>1 DEF Satisfied, PresentSatisfied
    <3> QED
      BY <1>1, <1>5, <2>0, <2>3, <3>2 DEF Good
  <2> QED
    BY <1>4, <2>1, <2>2, <2>3 DEF Either
<1> QED
  BY <1>8, <1>9, <1>11

LEMMA OtherKept ==
    ASSUME Ready, Call \/ NoCall, want # Undeclared
    PROVE  /\ kind \notin {"file", "component_archive", "docker_compose_project"} => Kept(RecordAfter)'
           /\ kind # "component_binary" => ShaKept(kind, RecordAfter)'
  BY Executing DEF Kept, ShaKept, Frame

\* What is to be shown of a step, on the host that it leaves.
LEMMA GoodFrame ==
    ASSUME Ready, Call \/ NoCall, want # Undeclared, NEW e, e = host', NEW r, r = RecordAfter',
           \/ Obstructed' /\ want.ensure = "present" /\ kind \notin {"directory", "component_archive"}
           \/ Satisfied' /\ (NeverInSync' \/ ProviderPlan(kind, want, r, e).action = "no-op")
    PROVE  Good'
  BY Executing DEF Good, Frame

\* Keys, downloads and components.
LEMMA ArtifactGood ==
    ASSUME Ready, Call \/ NoCall, want # Undeclared, kind \in ArtifactKinds
    PROVE  Good' /\ ShaKept(kind, RecordAfter)'
<1>1. PICK e : e = host'
  OBVIOUS
<1>2. PICK r : r = RecordAfter'
  OBVIOUS
<1>3. kind \in PathKinds /\ HostSpace(kind) = PathHost /\ kind \in InstallKinds
  BY HostSpaceOf DEF PathKinds, ArtifactKinds, InstallKinds
<1>4. host \in PathHost /\ e \in PathHost /\ want.ensure \in Either
  BY <1>1, <1>3, Executing, InstallNodes
<1>5. /\ want.ensure = "absent" => ~Exists(e.path) /\ ProviderPlan(kind, want, r, e).action = "no-op"
      /\ want.ensure = "present" /\ e.path.type # "dir" =>
           /\ Fits(e.path, "file") /\ e.path.content \in Content
           /\ Known(kind, want) => e.path.content = want.content
           /\ ProviderPlan(kind, want, r, e).action = "no-op"
      /\ ShaKept(kind, r)
  BY <1>1, <1>2, <1>4, Executing, ArtifactAfter
<1>6. UNCHANGED <<kind, want>>
  BY Executing DEF Frame
<1>7. CASE want.ensure = "absent"
  <2>1. Satisfied'
    BY <1>1, <1>3, <1>5, <1>6, <1>7 DEF Satisfied, AbsentSatisfied, ArtifactKinds
  <2> QED
    BY <1>1, <1>2, <1>5, <1>6, <1>7, <2>1, GoodFrame
<1>8. CASE want.ensure = "present" /\ e.path.type = "dir"
  <2>1. Obstructed' /\ kind \notin {"directory", "component_archive"}
    BY <1>1, <1>3, <1>6, <1>8 DEF Obstructed, ArtifactKinds
  <2> QED
    BY <1>1, <1>2, <1>5, <1>6, <1>8, <2>1, GoodFrame
<1>9. CASE want.ensure = "present" /\ e.path.type # "dir"
  <2>1. ContentKnown' => Known(kind, want)
    BY <1>6 DEF ContentKnown, Known
  <2>2. PathSatisfied'
    BY <1>1, <1>5, <1>6, <1>9, <2>1 DEF PathSatisfied, ArtifactKinds
  <2>3. Satisfied'
    BY <1>3, <1>6, <1>9, <2>2 DEF Satisfied, PresentSatisfied, ArtifactKinds
  <2> QED
    BY <1>1, <1>2, <1>5, <1>6, <1>9, <2>3, GoodFrame
<1> QED
  BY <1>4, <1>7, <1>8, <1>9 DEF Either

LEMMA DirectoryGood ==
    ASSUME Ready, Call \/ NoCall, want # Undeclared, kind = "directory" PROVE Good'
<1>1. PICK e : e = host'
  OBVIOUS
<1>2. PICK r : r = RecordAfter'
  OBVIOUS
<1>3. kind \in PathKinds /\ UNCHANGED <<kind, want>>
  BY Executing DEF PathKinds, Frame
<1>4. host \in PathHost /\ e \in PathHost
  BY <1>1, <1>3, Executing, HostSpaceOf
<1>5. /\ IF want.ensure = "absent" THEN ~Exists(e.path) ELSE Fits(e.path, "dir")
      /\ ProviderPlan(kind, want, r, e).action = "no-op"
  BY <1>1, <1>2, <1>4, Executing, DirectoryAfter
<1>6. Satisfied'
  BY <1>1, <1>3, <1>5 DEF Satisfied, AbsentSatisfied, PresentSatisfied, PathSatisfied
<1> QED
  BY <1>1, <1>2, <1>5, <1>6, GoodFrame

LEMMA AptSourceGood ==
    ASSUME Ready, Call \/ NoCall, want # Undeclared, kind = "apt_source_file" PROVE Good'
<1>1. PICK e : e = host'
  OBVIOUS
<1>2. PICK r : r = RecordAfter'
  OBVIOUS
<1>3. kind \in PathKinds /\ UNCHANGED <<kind, want>> /\ want.ensure \in Either /\ want.content \in Content
  BY Executing, OtherNodes DEF PathKinds, Frame
<1>4. host \in PathHost /\ e \in PathHost
  BY <1>1, <1>3, Executing, HostSpaceOf
<1>5. /\ want.ensure = "present" /\ e.path.type # "dir" => Fits(e.path, "file") /\ e.path.content = want.content
      /\ want.ensure = "absent" \/ e.path.type # "dir" => ProviderPlan(kind, want, r, e).action = "no-op"
  BY <1>1, <1>2, <1>4, Executing, AptSourceAfter
<1>6. CASE want.ensure = "absent"
  <2>1. Satisfied'
    BY <1>3, <1>6 DEF Satisfied, AbsentSatisfied
  <2> QED
    BY <1>1, <1>2, <1>5, <1>6, <2>1, GoodFrame
<1>7. CASE want.ensure = "present" /\ e.path.type = "dir"
  <2>1. Obstructed'
    BY <1>1, <1>3, <1>7 DEF Obstructed
  <2> QED
    BY <1>1, <1>2, <1>7, <2>1, GoodFrame
<1>8. CASE want.ensure = "present" /\ e.path.type # "dir"
  <2>1. Satisfied'
    BY <1>1, <1>3, <1>5, <1>8 DEF Satisfied, PresentSatisfied, PathSatisfied
  <2> QED
    BY <1>1, <1>2, <1>5, <1>8, <2>1, GoodFrame
<1> QED
  BY <1>3, <1>6, <1>7, <1>8 DEF Either

\* Archives; the content is that of the record.
LEMMA ArchiveGood ==
    ASSUME Ready, Call \/ NoCall, want # Undeclared, kind = "component_archive"
    PROVE  Good' /\ Kept(RecordAfter)'
<1>1. PICK e : e = host'
  OBVIOUS
<1>2. PICK r : r = RecordAfter'
  OBVIOUS
<1>3. kind \in PathKinds /\ UNCHANGED <<kind, want>> /\ want.ensure \in Either
  BY Executing, OtherNodes DEF PathKinds, Frame
<1>4. host \in PathHost /\ e \in PathHost
  BY <1>1, <1>3, Executing, HostSpaceOf
<1>5. /\ want.ensure = "absent" => ~Exists(e.path)
      /\ want.ensure = "present" =>
           /\ Fits(e.path, "dir") /\ step.action \in {"create", "update", "no-op"}
           /\ step.action \in {"create", "update"} => e.path.content = want.content
           /\ step.action = "no-op" => e = host /\ Recorded(want, rec)
      /\ ProviderPlan(kind, want, r, e).action = "no-op"
  BY <1>1, <1>2, <1>4, Executing, ArchiveAfter
<1>6. /\ step.action \in {"create", "update"} => r # NoRecord /\ r.desired = want
      /\ step.action = "no-op" => r = rec
  BY <1>1, <1>2, Executing, AfterFact
<1>7. Fits(e.path, "dir") => Exists(e.path)
  BY DEF Fits, Exists
<1>8. ASSUME Undisturbed, want.ensure = "present" PROVE e.path.content = want.content
  <2>1. CASE step.action \in {"create", "update"}
    BY <1>5, <1>8, <2>1
  <2>2. CASE step.action = "no-op"
    <3>1. e = host /\ Recorded(want, rec) /\ Fits(e.path, "dir")
      BY <1>5, <1>8, <2>2
    <3> QED
      BY <1>8, <3>1, Executing DEF Kept, Recorded
  <2> QED
    BY <1>5, <1>8, <2>1, <2>2
<1>9. Kept(RecordAfter)'
  <2>1. SUFFICES ASSUME Undisturbed, r # NoRecord, Fits(e.path, "dir") PROVE e.path.content = r.desired.content
    BY <1>1, <1>2, <1>3, Executing DEF Kept
  <2>2. want.ensure = "present"
    BY <1>3, <1>5, <1>7, <2>1 DEF Either
  <2>3. r.desired = want
    BY <1>5, <1>6, <2>2 DEF Recorded
  <2> QED
    BY <1>8, <2>1, <2>2, <2>3
<1>10. Satisfied'
  <2>0. (Wrote' <=> step.action \in {"create", "update"}) /\ (Undisturbed' <=> Undisturbed)
    BY Executing
  <2>1. CASE want.ensure = "absent"
    BY <1>1, <1>3, <1>5, <2>1 DEF Satisfied, AbsentSatisfied
  <2>2. CASE want.ensure = "present"
    <3>1. PathSatisfied'
      BY <1>1, <1>3, <1>5, <1>8, <2>0, <2>2 DEF PathSatisfied
    <3> QED
      BY <1>3, <2>2, <3>1 DEF Satisfied, PresentSatisfied
  <2> QED
    BY <1>3, <2>1, <2>2 DEF Either
<1>11. Good'
  BY <1>1, <1>2, <1>5, <1>10, GoodFrame
<1> QED
  BY <1>9, <1>11

LEMMA ScriptGood ==
    ASSUME Ready, Call \/ NoCall, want # Undeclared, kind = "component_script_output" PROVE Good'
<1>1. PICK e : e = host'
  OBVIOUS
<1>2. PICK r : r = RecordAfter'
  OBVIOUS
<1>3. kind \in PathKinds /\ UNCHANGED <<kind, want>> /\ want.ensure = "present"
  BY Executing, OtherNodes DEF PathKinds, Frame
<1>4. host \in PathHost /\ e \in PathHost
  BY <1>1, <1>3, Executing, HostSpaceOf
<1>5. e.path.type = "file" /\ ProviderPlan(kind, want, r, e).action = "no-op"
  BY <1>1, <1>2, <1>4, Executing, ScriptAfter
<1>6. Satisfied'
  BY <1>1, <1>3, <1>5 DEF Satisfied, PresentSatisfied, PathSatisfied
<1> QED
  BY <1>1, <1>2, <1>5, <1>6, GoodFrame

LEMMA PackageGood ==
    ASSUME Ready, Call \/ NoCall, want # Undeclared, kind = "package" PROVE Good'
<1>1. PICK e : e = host'
  OBVIOUS
<1>2. PICK r : r = RecordAfter'
  OBVIOUS
<1>3. UNCHANGED <<kind, want>> /\ kind \notin PathKinds
  BY Executing DEF PathKinds, Frame
<1>4. host \in PackageHost /\ e \in PackageHost
  BY <1>1, Executing, HostSpaceOf
<1>5. /\ IF want.ensure = "absent" THEN e.pkg # "installed" ELSE e.pkg # "none"
      /\ ProviderPlan(kind, want, r, e).action = "no-op"
  BY <1>1, <1>2, <1>4, Executing, PackageAfter
<1>6. Satisfied'
  BY <1>1, <1>3, <1>5 DEF Satisfied, AbsentSatisfied, PresentSatisfied
<1> QED
  BY <1>1, <1>2, <1>5, <1>6, GoodFrame

LEMMA ConflictGood ==
    ASSUME Ready, Call \/ NoCall, want # Undeclared, kind = "docker_package_conflicts" PROVE Good'
<1>1. PICK e : e = host'
  OBVIOUS
<1>2. PICK r : r = RecordAfter'
  OBVIOUS
<1>3. UNCHANGED <<kind, want>> /\ kind \notin PathKinds
  BY Executing DEF PathKinds, Frame
<1>4. host \in ConflictHost /\ e \in ConflictHost
  BY <1>1, Executing, HostSpaceOf
<1>5. e.pkgs = {} /\ ProviderPlan(kind, want, r, e).action = "no-op" /\ want.ensure = "present"
  BY <1>1, <1>2, <1>4, Executing, ConflictAfter, OtherNodes
<1>6. Satisfied'
  BY <1>1, <1>3, <1>5 DEF Satisfied, PresentSatisfied
<1> QED
  BY <1>1, <1>2, <1>5, <1>6, GoodFrame

LEMMA KernelGood ==
    ASSUME Ready, Call \/ NoCall, want # Undeclared, kind = "kernel_module" PROVE Good'
<1>1. PICK e : e = host'
  OBVIOUS
<1>2. PICK r : r = RecordAfter'
  OBVIOUS
<1>3. UNCHANGED <<kind, want>> /\ kind \notin PathKinds
  BY Executing DEF PathKinds, Frame
<1>4. host \in KernelHost /\ e \in KernelHost
  BY <1>1, Executing, HostSpaceOf
<1>5. /\ IF want.ensure = "absent" THEN ~e.persisted ELSE e.loaded /\ e.persisted
      /\ ~(want.ensure = "absent" /\ e.loaded) => ProviderPlan(kind, want, r, e).action = "no-op"
  BY <1>1, <1>2, <1>4, Executing, KernelAfter
<1>6. Satisfied'
  BY <1>1, <1>3, <1>5 DEF Satisfied, AbsentSatisfied, PresentSatisfied
<1>7. NeverInSync' \/ ProviderPlan(kind, want, r, e).action = "no-op"
  BY <1>1, <1>3, <1>5 DEF NeverInSync
<1> QED
  BY <1>1, <1>2, <1>5, <1>6, <1>7, GoodFrame

LEMMA SysctlGood ==
    ASSUME Ready, Call \/ NoCall, want # Undeclared, kind = "sysctl" PROVE Good'
<1>1. PICK e : e = host'
  OBVIOUS
<1>2. PICK r : r = RecordAfter'
  OBVIOUS
<1>3. UNCHANGED <<kind, want>> /\ kind \notin PathKinds
  BY Executing DEF PathKinds, Frame
<1>4. host \in SysctlHost /\ e \in SysctlHost
  BY <1>1, Executing, HostSpaceOf
<1>5. /\ IF want.ensure = "absent" THEN e.file # want.value ELSE e.value = want.value /\ e.file = want.value
      /\ Shown(want.value) = want.value => ProviderPlan(kind, want, r, e).action = "no-op"
  BY <1>1, <1>2, <1>4, Executing, SysctlAfter
<1>6. Satisfied'
  BY <1>1, <1>3, <1>5 DEF Satisfied, AbsentSatisfied, PresentSatisfied
<1>7. NeverInSync' \/ ProviderPlan(kind, want, r, e).action = "no-op"
  BY <1>1, <1>3, <1>5 DEF NeverInSync
<1> QED
  BY <1>1, <1>2, <1>5, <1>6, <1>7, GoodFrame

LEMMA GroupGood ==
    ASSUME Ready, Call \/ NoCall, want # Undeclared, kind = "group" PROVE Good'
<1>1. PICK e : e = host'
  OBVIOUS
<1>2. PICK r : r = RecordAfter'
  OBVIOUS
<1>3. UNCHANGED <<kind, want>> /\ kind \notin PathKinds
  BY Executing DEF PathKinds, Frame
<1>4. host \in GroupHost /\ e \in GroupHost
  BY <1>1, Executing, HostSpaceOf
<1>5. /\ IF want.ensure = "absent" THEN ~e.exists ELSE e.exists /\ SameGroup(want, e)
      /\ ProviderPlan(kind, want, r, e).action = "no-op"
  BY <1>1, <1>2, <1>4, Executing, GroupAfter
<1>6. Satisfied'
  BY <1>1, <1>3, <1>5 DEF Satisfied, AbsentSatisfied, PresentSatisfied, SameGroup
<1> QED
  BY <1>1, <1>2, <1>5, <1>6, GoodFrame

LEMMA UserGood ==
    ASSUME Ready, Call \/ NoCall, want # Undeclared, kind = "user" PROVE Good'
<1>1. PICK e : e = host'
  OBVIOUS
<1>2. PICK r : r = RecordAfter'
  OBVIOUS
<1>3. UNCHANGED <<kind, want>> /\ kind \notin PathKinds
  BY Executing DEF PathKinds, Frame
<1>4. host \in UserHost /\ e \in UserHost
  BY <1>1, Executing, HostSpaceOf
<1>5. /\ want.ensure = "absent" => ~e.exists
      /\ want.ensure # "absent" => /\ e.exists /\ want.shell \in {"unset", e.shell}
                                   /\ want.groups \subseteq e.groups \cup {e.primary}
      /\ e.primary \notin want.groups => ProviderPlan(kind, want, r, e).action = "no-op"
  BY <1>1, <1>2, <1>4, Executing, UserAfter
<1>6. Satisfied'
  BY <1>1, <1>3, <1>5 DEF Satisfied, AbsentSatisfied, PresentSatisfied
<1>7. NeverInSync' \/ ProviderPlan(kind, want, r, e).action = "no-op"
  BY <1>1, <1>3, <1>5 DEF NeverInSync
<1> QED
  BY <1>1, <1>2, <1>5, <1>6, <1>7, GoodFrame

LEMMA MemberGood ==
    ASSUME Ready, Call \/ NoCall, want # Undeclared, kind = "user_group_membership" PROVE Good'
<1>1. PICK e : e = host'
  OBVIOUS
<1>2. PICK r : r = RecordAfter'
  OBVIOUS
<1>3. UNCHANGED <<kind, want>> /\ kind \notin PathKinds
  BY Executing DEF PathKinds, Frame
<1>4. host \in MemberHost /\ e \in MemberHost
  BY <1>1, Executing, HostSpaceOf
<1>5. /\ IF want.ensure = "absent" THEN e.primary \/ ~e.member ELSE e.user /\ (e.primary \/ e.member)
      /\ ProviderPlan(kind, want, r, e).action = "no-op"
  BY <1>1, <1>2, <1>4, Executing, MemberAfter
<1>6. Satisfied'
  BY <1>1, <1>3, <1>5 DEF Satisfied, AbsentSatisfied, PresentSatisfied
<1> QED
  BY <1>1, <1>2, <1>5, <1>6, GoodFrame

LEMMA KeyGood ==
    ASSUME Ready, Call \/ NoCall, want # Undeclared, kind = "ssh_authorized_key" PROVE Good'
<1>1. PICK e : e = host'
  OBVIOUS
<1>2. PICK r : r = RecordAfter'
  OBVIOUS
<1>3. UNCHANGED <<kind, want>> /\ kind \notin PathKinds
  BY Executing DEF PathKinds, Frame
<1>4. host \in KeyHost /\ e \in KeyHost
  BY <1>1, Executing, HostSpaceOf
<1>5. /\ IF want.ensure = "absent" THEN "k" \notin e.keys ELSE "k" \in e.keys
      /\ ProviderPlan(kind, want, r, e).action = "no-op"
  BY <1>1, <1>2, <1>4, Executing, KeyAfter
<1>6. Satisfied'
  BY <1>1, <1>3, <1>5 DEF Satisfied, AbsentSatisfied, PresentSatisfied
<1> QED
  BY <1>1, <1>2, <1>5, <1>6, GoodFrame

LEMMA ServiceGood ==
    ASSUME Ready, Call \/ NoCall, want # Undeclared, kind = "service" PROVE Good'
<1>1. PICK e : e = host'
  OBVIOUS
<1>2. PICK r : r = RecordAfter'
  OBVIOUS
<1>3. UNCHANGED <<kind, want>> /\ kind \notin PathKinds
  BY Executing DEF PathKinds, Frame
<1>4. host \in ServiceHost /\ e \in ServiceHost
  BY <1>1, Executing, HostSpaceOf
<1>5. /\ want.enabled \in {"unset", e.enabled}
      /\ want.state # "unset" => e.active = (want.state # "stopped")
      /\ want.state \notin {"restarted", "reloaded"} => ProviderPlan(kind, want, r, e).action = "no-op"
      /\ want.ensure = "present"
  BY <1>1, <1>2, <1>4, Executing, ServiceAfter, OtherNodes
<1>6. Satisfied'
  BY <1>1, <1>3, <1>5 DEF Satisfied, PresentSatisfied
<1>7. NeverInSync' \/ ProviderPlan(kind, want, r, e).action = "no-op"
  BY <1>1, <1>3, <1>5 DEF NeverInSync
<1> QED
  BY <1>1, <1>2, <1>5, <1>6, <1>7, GoodFrame

LEMMA SettingGood ==
    ASSUME Ready, Call \/ NoCall, want # Undeclared, kind \in {"system_hostname", "system_timezone", "system_locale"}
    PROVE  Good'
<1>1. PICK e : e = host'
  OBVIOUS
<1>2. PICK r : r = RecordAfter'
  OBVIOUS
<1>3. UNCHANGED <<kind, want>> /\ kind \notin PathKinds
  BY Executing DEF PathKinds, Frame
<1>4. host \in SettingHost /\ e \in SettingHost
  BY <1>1, Executing, HostSpaceOf
<1>5. /\ e.value = want.value /\ (kind = "system_hostname" \/ e.available)
      /\ ProviderPlan(kind, want, r, e).action = "no-op" /\ want.ensure = "present"
  BY <1>1, <1>2, <1>4, Executing, SettingAfter, OtherNodes
<1>6. Satisfied'
  BY <1>1, <1>3, <1>5 DEF Satisfied, PresentSatisfied
<1> QED
  BY <1>1, <1>2, <1>5, <1>6, GoodFrame

\* Compose projects; the project of the record was taken down when it was renamed.
LEMMA ComposeGood ==
    ASSUME Ready, Call \/ NoCall, want # Undeclared, kind = "docker_compose_project"
    PROVE  Good' /\ Kept(RecordAfter)'
<1>1. PICK e : e = host'
  OBVIOUS
<1>2. PICK r : r = RecordAfter'
  OBVIOUS
<1>3. UNCHANGED <<kind, want, origin>> /\ kind \notin PathKinds /\ (Undisturbed' <=> Undisturbed)
  BY Executing DEF PathKinds, Frame
<1>4. host \in ComposeHost /\ e \in ComposeHost
  BY <1>1, Executing, HostSpaceOf
<1>5. /\ step.action \notin {"adopt", "no-op"} =>
           /\ InState(want, e[want.project], {"running"})
           /\ want.remove_orphans /\ want.state # "stopped" => e[want.project].orphan = "none"
           /\ e[want.project].orphan = "none" /\ ~(want.state = "stopped" /\ e[want.project].svc = "none") =>
                ProviderPlan(kind, want, r, e).action = "no-op"
      /\ step.action \in {"adopt", "no-op"} =>
           \/ want.state = "absent" /\ e[want.project].file = "unread"
           \/ e[want.project].file = "late" /\ ProviderPlan(kind, want, r, e).action # "no-op"
           \/ /\ InState(want, e[want.project], {"running", "part"})
              /\ ProviderPlan(kind, want, r, e).action = "no-op"
      /\ \A q \in Project \ {want.project} :
           e[q].svc # "none" => host[q].svc # "none" /\ (rec # NoRecord => rec.desired.project # q)
      /\ r # NoRecord => r.desired = want
  BY <1>1, <1>2, <1>4, Executing, ComposeAfter
<1>6. want.state \in {"running", "stopped", "absent"} /\ want.ensure = "present"
  <2>1. want \in ComposeNodes
    BY Executing, OtherNodes
  <2> QED
    BY <2>1 DEF ComposeNodes, Present
<1>7. ASSUME Undisturbed, NEW q \in Project \ {want.project}, e[q].svc # "none" PROVE origin[q].svc # "none"
  <2>1. host[q].svc # "none" /\ (rec # NoRecord => rec.desired.project # q)
    BY <1>5, <1>7
  <2>2. CASE rec = NoRecord
    BY <1>7, <2>1, <2>2, Executing DEF Undisturbed
  <2>3. CASE rec # NoRecord
    BY <1>7, <2>1, <2>3, Executing DEF Kept
  <2> QED
    BY <2>2, <2>3
<1>8. Kept(RecordAfter)'
  BY <1>1, <1>2, <1>3, <1>5, <1>7 DEF Kept
<1>9. ASSUME InState(want, e[want.project], {"running"} \cup (IF Wrote' THEN {} ELSE {"part"})) PROVE Satisfied'
  <2>1. e[want.project].svc \in
          CASE want.state = "running" -> {"running"} \cup (IF Wrote' THEN {} ELSE {"part"})
            [] want.state = "stopped" -> {"stopped", "none"}
            [] want.state = "absent" -> {"none"}
    BY <1>6, <1>9 DEF InState
  <2> QED
    BY <1>1, <1>3, <1>6, <1>7, <2>1 DEF Satisfied, PresentSatisfied
<1>10. step'.action = step.action /\ (Wrote' <=> step.action \in {"create", "update"})
  BY Executing
<1>11. Good'
  <2>1. CASE step.action \notin {"adopt", "no-op"}
    <3>1. Satisfied'
      BY <1>5, <1>9, <2>1 DEF InState
    <3>2. NeverInSync' \/ ProviderPlan(kind, want, r, e).action = "no-op"
      BY <1>1, <1>3, <1>5, <2>1 DEF NeverInSync
    <3> QED
      BY <1>1, <1>2, <3>1, <3>2, GoodFrame
  <2>2. CASE step.action \in {"adopt", "no-op"} /\ ProviderPlan(kind, want, r, e).action = "no-op"
             /\ InState(want, e[want.project], {"running", "part"})
    <3>1. Satisfied'
      BY <1>9, <1>10, <2>2 DEF InState
    <3> QED
      BY <1>1, <1>2, <2>2, <3>1, GoodFrame
  <2>3. CASE /\ step.action \in {"adopt", "no-op"}
             /\ \/ want.state = "absent" /\ e[want.project].file = "unread"
                \/ e[want.project].file = "late" /\ ProviderPlan(kind, want, r, e).action # "no-op"
    <3>1. CurrentRecord' = r
      BY <1>2, Executing
    <3>2. OverlookedBy(CurrentRecord)'
      BY <1>1, <1>3, <1>10, <2>3, <3>1 DEF OverlookedBy
    <3> QED
      BY <3>2 DEF Good
  <2> QED
    BY <1>5, <2>1, <2>2, <2>3
<1> QED
  BY <1>8, <1>11

\* The kinds together.
LEMMA GoodExecution ==
    ASSUME Ready, Call \/ NoCall
    PROVE  GoodInv' /\ KeptInv' /\ ShaInv'
<1>0. TypeInv /\ PlannedInv
  BY DEF Ready
<1>1. pc = "planned" /\ pc' = "called" /\ Frame /\ CurrentRecord' = RecordAfter'
  BY <1>0, Execution DEF CurrentRecord
<1>2. ShaKept(kind, rec)'
  BY <1>1 DEF Ready, ShaInv, ShaKept, Frame
<1>3. CASE want = Undeclared
  <2>1. step.action \in {"no-op", "forget", "destroy"} /\ (step.action = "no-op" => rec = NoRecord)
    BY <1>0, <1>1, <1>3, PlannedFact, OrphanFact DEF PlannedInv, PlannedStep
  <2>2. RecordAfter' = NoRecord
    BY <1>0, <2>1, Execution
  <2> QED
    BY <1>1, <1>2, <1>3, <2>2 DEF GoodInv, KeptInv, ShaInv, ShaKept, Kept, Frame
<1>4. CASE want # Undeclared
  <2>1. Good' /\ Kept(RecordAfter)' /\ ShaKept(kind, RecordAfter)'
    <3>1. CASE kind \in {"file", "systemd_unit", "networkd_netdev"}
      BY <1>4, <3>1, FileLikeGood
    <3>2. CASE kind \in ArtifactKinds
      <4>1. kind \notin {"file", "component_archive", "docker_compose_project"}
        BY <3>2 DEF ArtifactKinds
      <4> QED
        BY <1>4, <3>2, <4>1, ArtifactGood, OtherKept
    <3>3. CASE kind \in {"component_archive", "docker_compose_project"}
      BY <1>4, <3>3, ArchiveGood, ComposeGood, OtherKept
    <3>4. ASSUME kind \notin {"file", "systemd_unit", "networkd_netdev", "component_archive",
                             "docker_compose_project"},
                 kind \notin ArtifactKinds
          PROVE  Good' /\ Kept(RecordAfter)' /\ ShaKept(kind, RecordAfter)'
      <4>1. Good'
        BY <1>0, <1>4, <3>4, KindFact, DirectoryGood, AptSourceGood, ScriptGood, PackageGood, ConflictGood, KernelGood,
           SysctlGood, GroupGood, UserGood, MemberGood, KeyGood, ServiceGood, SettingGood
           DEF AllKinds, PathKinds, ArtifactKinds
      <4> QED
        BY <1>4, <3>4, <4>1, OtherKept DEF ArtifactKinds
    <3> QED
      BY <3>1, <3>2, <3>3, <3>4
  <2> QED
    BY <1>1, <1>2, <2>1 DEF GoodInv, KeptInv, ShaInv, Kept, CurrentRecord
<1> QED
  BY <1>3, <1>4

LEMMA GoodNext ==
    ASSUME Ready, GoodInv, [Next]_vars
    PROVE  GoodInv' /\ KeptInv' /\ ShaInv'
<1>0. TypeInv /\ PlannedInv /\ KeptInv /\ ShaInv
  BY DEF Ready
<1>1. CASE Call \/ NoCall
  BY <1>1, GoodExecution
<1>2. CASE Plan
  <2>1. /\ pc # "called" /\ pc' = "planned" /\ UNCHANGED <<kind, host, rec, clean, left>>
        /\ origin' = IF rec = NoRecord /\ clean THEN host ELSE origin
    BY <1>2 DEF Plan, Ended
  <2>2. CurrentRecord' = rec /\ CurrentRecord = rec
    BY <2>1 DEF CurrentRecord
  <2> QED
    BY <1>0, <2>1, <2>2 DEF GoodInv, KeptInv, Kept, Undisturbed, ShaInv, ShaKept
<1>3. CASE PlanRefused
  <2>1. pc # "called" /\ pc' = "refused" /\ UNCHANGED <<kind, host, rec, clean, left, origin>>
    BY <1>3 DEF PlanRefused, Ended
  <2>2. CurrentRecord' = rec /\ CurrentRecord = rec
    BY <2>1 DEF CurrentRecord
  <2> QED
    BY <1>0, <2>1, <2>2 DEF GoodInv, KeptInv, Kept, Undisturbed, ShaInv, ShaKept
<1>4. CASE CallFails \/ CallCut \/ WriteRecordFails
  <2>1. ~clean' /\ pc' \in {"failed", "cut"} /\ kind' = kind /\ (rec' = rec \/ (pc = "called" /\ rec' = RecordAfter))
    BY <1>4 DEF CallFails, CallCut, WriteRecordFails
  <2> QED
    BY <1>0, <2>1 DEF GoodInv, KeptInv, Kept, Undisturbed, ShaInv, ShaKept
<1>5. CASE WriteRecord
  <2>1. /\ rec' = RecordAfter /\ pc = "called" /\ pc' = "done" /\ UNCHANGED <<kind, want, host, step, origin, left>>
        /\ clean' = (clean /\ ~Unsaved)
    BY <1>5 DEF WriteRecord
  <2>2. CurrentRecord' = rec' /\ CurrentRecord = rec' /\ (Undisturbed' => Undisturbed)
    BY <2>1 DEF CurrentRecord, Undisturbed
  <2>3. KeptInv' /\ ShaInv'
    BY <1>0, <2>1, <2>2 DEF KeptInv, Kept, ShaInv, ShaKept
  <2>4. ASSUME want # Undeclared PROVE Good'
    <3>1. (Obstructed' <=> Obstructed) /\ (NeverInSync' <=> NeverInSync)
      BY <2>1 DEF Obstructed, NeverInSync
    <3>2. Satisfied => Satisfied'
      <4>1. CASE kind = "apt_source_file"
        BY <2>1, <4>1 DEF Satisfied, AbsentSatisfied, PresentSatisfied, PathSatisfied, PathKinds, ContentKnown
      <4>2. CASE kind # "apt_source_file"
        <5>1. clean' = clean
          BY <1>0, <2>1, <4>2 DEF Unsaved, TypeInv
        <5>2. UNCHANGED <<kind, want, host, step, origin, clean, left>>
          BY <2>1, <5>1
        <5> QED
          BY <5>2 DEF Satisfied, AbsentSatisfied, PresentSatisfied, PathSatisfied, ContentKnown, Wrote, Undisturbed
      <4> QED
        BY <4>1, <4>2
    <3>3. Good
      BY <2>1, <2>4 DEF GoodInv
    <3>4. OverlookedBy(CurrentRecord)' <=> OverlookedBy(CurrentRecord)
      BY <2>1, <2>2 DEF OverlookedBy
    <3> QED
      BY <2>1, <2>2, <3>1, <3>2, <3>3, <3>4 DEF Good
  <2> QED
    BY <2>1, <2>3, <2>4 DEF GoodInv
<1>6. CASE Edit
  <2>1. /\ pc # "called" /\ pc' = "idle" /\ UNCHANGED <<kind, host, rec, origin>> /\ left'.drift = left.drift
        /\ rec # NoRecord => clean' = clean
    BY <1>0, <1>6 DEF Edit, Ended, TypeInv
  <2>2. CurrentRecord' = rec /\ CurrentRecord = rec
    BY <2>1 DEF CurrentRecord
  <2> QED
    BY <1>0, <2>1, <2>2 DEF GoodInv, KeptInv, Kept, Undisturbed, ShaInv, ShaKept
<1>7. CASE Drift
  <2>1. pc' = "idle" /\ UNCHANGED <<kind, rec>> /\ left'.drift # MaxDrift
    BY <1>0, <1>7, BoundsAssumption DEF Drift, TypeInv
  <2> QED
    BY <1>0, <2>1 DEF GoodInv, KeptInv, Kept, Undisturbed, ShaInv, ShaKept
<1>8. CASE UNCHANGED vars
  <2>1. UNCHANGED <<kind, want, host, rec, step, pc, origin, clean, left>>
    BY <1>8 DEF vars
  <2>2. RecordAfter' = RecordAfter
    BY <2>1 DEF RecordAfter
  <2>3. CurrentRecord' = CurrentRecord
    BY <2>1, <2>2 DEF CurrentRecord
  <2>4. (Good' <=> Good)
    BY <2>1, <2>3 DEF Good, OverlookedBy, Obstructed, NeverInSync, Satisfied, AbsentSatisfied, PresentSatisfied,
                      PathSatisfied, ContentKnown, Wrote, Undisturbed
  <2> QED
    BY <1>0, <2>1, <2>2, <2>3, <2>4 DEF GoodInv, KeptInv, Kept, Undisturbed, ShaInv, ShaKept
<1> QED
  BY <1>1, <1>2, <1>3, <1>4, <1>5, <1>6, <1>7, <1>8 DEF Next

\* A run that ends without an error leaves a resource of any kind as declared and
\* the next plan of the provider empty, whatever failed, was cut off or was changed
\* before it, for any number of edits, changes by others and faults.
THEOREM RunsConverge == Spec => []AppliedIsDeclared
<1>1. Init => GoodInv /\ KeptInv /\ ShaInv
  BY DEF Init, GoodInv, KeptInv, Kept, CurrentRecord, ShaInv, ShaKept
<1>2. TypeInv /\ PlannedInv /\ KeptInv /\ ShaInv /\ GoodInv /\ [Next]_vars => GoodInv' /\ KeptInv' /\ ShaInv'
  BY GoodNext DEF Ready
<1>3. GoodInv => AppliedIsDeclared
  BY DEF GoodInv, Good, Overlooked, OverlookedBy, AppliedIsDeclared, PlannedStep, CurrentRecord
<1> QED
  BY Typed, <1>1, <1>2, <1>3, PTL DEF Spec
=============================================================================
