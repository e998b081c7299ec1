---------------------------- MODULE ContainerMeta ----------------------------
(***************************************************************************)
(* The conversion of docker's description of a container into those of     *)
(* pouchd and of its CRI manager.  Strings that the code takes apart are   *)
(* kept in their parts: names at "_", the entries of an environment at     *)
(* "=", binds at ":", the lines of a resolv.conf at blanks, keys of labels *)
(* after the prefix "annotation.".  Fields that are copied are left out,   *)
(* but for sets of names of those that are set.                            *)
(***************************************************************************)
EXTENDS Integers, SequencesExt, Selection

CONSTANT MaxAttempt \* stands for 2^32 - 1

Put(f, key, value) == [x \in DOMAIN f \union {key} |-> IF x = key THEN value ELSE f[x]]

-----------------------------------------------------------------------------
(* core.go *)

PouchType == <<"", "io.kubernetes.pouch.type">>
DockerType == <<"", "io.kubernetes.docker.type">>
SandboxID == <<"", "io.kubernetes.sandbox.id">>

\* ^k8s_POD_([^_]+_){3}[0-9]+$; the last part is -1 if it is not a number.
SandboxName(name) ==
    /\ ~name.slash
    /\ Len(name.parts) = 5
    /\ name.parts[1] = "k8s" /\ name.parts[2] = "POD"
    /\ "" \notin Range(name.parts)
    /\ name.attempt >= 0

ToContainerStatus(status) ==
    CASE status \in {"running", "created", "paused", "dead"} -> status
      [] status = "exited" -> "stopped"
      [] OTHER -> ""

\* A time of docker's in its zone; one that cannot be parsed is kept.
ConvertTime(t) == IF t.valid THEN [t EXCEPT !.clock = @ - t.offset, !.offset = 0] ELSE t

\* Entries without just one "=" are skipped, and later ones win.
ParseEnv(env) ==
    LET pairs == {i \in DOMAIN env : Len(env[i]) = 2}
        Winner(var) == CHOOSE i \in pairs :
                          env[i][1] = var /\ \A j \in pairs : env[j][1] = var => j <= i
    IN  [var \in {env[i][1] : i \in pairs} |-> env[Winner(var)][2]]

\* The first entry with the run mode that counts is replaced.
ToVMMode(env) ==
    LET envs == ParseEnv(env)
        old == <<"ali_run_mode", envs["ali_run_mode"]>>
        i == SelectInSeq(env, LAMBDA entry : entry = old)
    IN  IF "ali_run_mode" \in DOMAIN envs THEN [env EXCEPT ![i] = <<"ali_run_mode", "vm">>]
        ELSE env

\* Labels and SpecAnnotation
ContainerOfSandbox(labels) == DockerType \in DOMAIN labels /\ labels[DockerType] = "container"

ToLabels(name, labels) ==
    IF ContainerOfSandbox(labels) THEN Put(labels, PouchType, "container")
    ELSE IF SandboxName(name) THEN Put(labels, PouchType, "sandbox")
    ELSE labels

ToSpecAnnotation(labels) ==
    IF ~ContainerOfSandbox(labels) THEN <<>>
    ELSE ("ContainerType" :> "container") @@
         IF SandboxID \notin DOMAIN labels THEN <<>>
         ELSE [key \in {"SandboxName", "SandboxID"} |-> labels[SandboxID]]

DefaultCaps ==
    <<"SYS_RESOURCE", "SYS_MODULE", "SYS_PTRACE", "SYS_PACCT", "NET_ADMIN", "SYS_ADMIN">>

\* Mutant: they are added whether or not the container has them.
AddCaps_Twice(caps) == caps \o DefaultCaps

AddCaps(caps) == caps \o Skip(DefaultCaps, Range(caps))

\* Of the limits and settings that are made, those that pouch gets to know of.
ToResources(limits) == limits \ {"DiskQuota"}

ToHostConfig(host) ==
    [caps |-> AddCaps(host.caps), binds |-> host.binds, logDriver |-> host.logDriver,
     limits |-> ToResources(host.limits),
     settings |-> host.settings \ {"PortBindings", "VolumesFrom", "UsernsMode", "ConsoleSize"}]

ToMountPoints(mounts) ==
    [i \in DOMAIN mounts |->
        [name |-> mounts[i].name, driver |-> mounts[i].driver,
         named |-> mounts[i].driver \in {"alilocal", "ultron"}]]

\* From the names of networks to the settings made in them.
ToEndpointSettings(networks) == [net \in DOMAIN networks |-> networks[net] \ {"Aliases"}]

ToPouchContainerMeta(meta) ==
    LET name == [meta.name EXCEPT !.slash = FALSE]
        envs == ParseEnv(meta.env)
        host == ToHostConfig(meta.host)
        lib == IF "LD_PRELOAD" \in DOMAIN envs THEN envs["LD_PRELOAD"] ELSE ""
        bound == lib = "" \/ <<lib, lib, "ro">> \in Range(host.binds)
    IN  [id |-> meta.id, name |-> name,
         created |-> ConvertTime(meta.created),
         state |-> [meta.state EXCEPT !.status = ToContainerStatus(@)],
         labels |-> ToLabels(name, meta.labels),
         annotations |-> ToSpecAnnotation(meta.labels),
         env |-> ToVMMode(meta.env),
         host |-> [host EXCEPT
            !.logDriver = IF @ = "" /\ meta.logPath # "" THEN "json-file" ELSE @,
            !.binds = IF bound THEN @ ELSE Append(@, <<lib, lib, "ro">>)],
         mounts |-> ToMountPoints(meta.mounts),
         networks |-> ToEndpointSettings(meta.networks),
         resolvConf |-> meta.resolvConf]

-----------------------------------------------------------------------------
(* cri.go *)

IsAnnotation(key) == key[1] = "annotation."

HasMetadata(name) == SandboxName(name) /\ name.attempt <= MaxAttempt

\* Lines of a single word are skipped, and words that are empty.
ToDNSConfig(file) ==
    LET Words(option) ==
            LET ofOption == SelectSeq(file.lines, LAMBDA l : Len(l) >= 2 /\ l[1] = option)
                words == FlattenSeq([i \in DOMAIN ofOption |-> Tail(ofOption[i])])
            IN  SelectSeq(words, LAMBDA word : word # "")
    IN  IF file.path = "" THEN <<>>
        ELSE [option \in {"search", "nameserver", "options"} |-> Words(option)]

ToPodSandboxConfig(c) ==
    LET marked == {key \in DOMAIN c.labels : IsAnnotation(key)}
        own == {m[2] : m \in marked}
    IN  [metadata |-> [name |-> c.name.parts[3], namespace |-> c.name.parts[4],
                       uid |-> c.name.parts[5], attempt |-> c.name.attempt],
         labels |-> Restrict(c.labels, DOMAIN c.labels \ (marked \union {PouchType, DockerType})),
         annotations |-> [key \in own \union DOMAIN c.annotations |->
                             IF key \in own THEN c.labels[<<"annotation.", key>>]
                             ELSE c.annotations[key]],
         logDirectory |-> <<"/var/log/pods", c.name.parts[5]>>,
         nodeNamespaces |-> IF "host" \in DOMAIN c.networks THEN {"pid", "network", "ipc"}
                            ELSE {},
         dns |-> ToDNSConfig(c.resolvConf)]

\* The network namespace of that process, if there is one.
ToCRIMetaJSON(c) ==
    [id |-> c.id, netNS |-> IF c.state.pid > 0 THEN c.state.pid ELSE 0,
     config |-> ToPodSandboxConfig(c)]
=============================================================================
