---------------------------- MODULE MCPouchStores ----------------------------
(* Small instances of PouchStores. *)
EXTENDS PouchStores

CONSTANTS c1, c2, local1, ali1, remote1, nfs1

Drivers ==
    [v \in Volumes |->
        CASE v = ali1 -> "alilocal" [] v = remote1 -> "ultron" [] v = nfs1 -> "nfs"
          [] OTHER -> "local"]

Mount(v) == [name |-> v, driver |-> Drivers[v]]
BindMount == [name |-> "", driver |-> ""]

Running == [running |-> TRUE, pid |-> 100, status |-> "running"]
Restarting == [running |-> TRUE, pid |-> 100, status |-> "restarting"]
Created == [running |-> FALSE, pid |-> 0, status |-> "created"]
PodName(attempt) ==
    [slash |-> TRUE, parts |-> <<"k8s", "POD", "web", "default", "uid">>, attempt |-> attempt]
Plain(c) ==
    [id |-> c, state |-> Running,
     name |-> [slash |-> TRUE, parts |-> <<"app">>, attempt |-> -1],
     created |-> [valid |-> TRUE, clock |-> 20, offset |-> 8],
     labels |-> <<>>, env |-> <<>>, mounts |-> <<>>, networks |-> <<>>, logPath |-> "json.log",
     host |-> [caps |-> <<>>, binds |-> <<>>, logDriver |-> "",
               limits |-> {"Memory"}, settings |-> {"PortBindings", "RestartPolicy"}],
     resolvConf |-> [path |-> "resolv.conf",
                     lines |-> << <<"nameserver", "", "10.0.0.1">>, <<"search">> >>]]
Pod(c) == [Plain(c) EXCEPT !.name = PodName(0), !.networks = "host" :> {"Aliases"}]

\* A host of two containers.
Both(a, b) == (c1 :> a) @@ (c2 :> b)

\* A pod and an app, with up to two mounts, which may be of the same volume.
AnyMounts == SeqOf({Mount(v) : v \in Volumes} \union {BindMount}, 2)
Mounting ==
    {Both([Pod(c1) EXCEPT !.mounts = m], [Plain(c2) EXCEPT !.mounts = n]) :
        m \in AnyMounts, n \in {o \in AnyMounts : Len(o) < 2}}

\* Names that are not quite those of a sandbox, and one attempt too many.
Named ==
    {[Plain(c1) EXCEPT !.name = name] :
        name \in {PodName(-1), PodName(MaxAttempt), PodName(MaxAttempt + 1),
                  [PodName(0) EXCEPT !.parts[4] = ""], [PodName(0) EXCEPT !.parts[2] = "app"]}}
Labelled ==
    {[meta EXCEPT !.labels = labels] :
        meta \in {Pod(c1), Plain(c1)},
        labels \in {DockerType :> "podsandbox",
                    (<<"annotation.", "a">> :> "x") @@ (<<"", "a">> :> "y")}}
    \union {[Plain(c1) EXCEPT !.labels = (DockerType :> "container") @@ (SandboxID :> "c2")]}

Entries ==
    {<<"ali_run_mode", "container">>, <<"ali_run_mode", "vm">>, <<"LD_PRELOAD", "lib">>,
     <<"LD_PRELOAD", "">>, <<"OPTS", "a", "b">>, <<"PATH", "bin">>}
Envs == {e \in SeqOf(Entries, 3) :
            Cardinality({i \in DOMAIN e : e[i][1] = "ali_run_mode"}) <= 1}
SetUp ==
    {[Plain(c1) EXCEPT !.env = e] : e \in Envs}
    \union {[Plain(c1) EXCEPT !.host.caps = caps, !.host.binds = binds, !.env = env] :
              caps \in {<<"NET_ADMIN">>, <<"KILL", "SYS_ADMIN", "NET_ADMIN">>},
              binds \in {<< <<"lib", "lib", "ro">> >>, << <<"lib", "dir", "rw">> >>},
              env \in {<<>>, << <<"LD_PRELOAD", "lib">> >>}}

Hosts0 ==
    {[containers |-> both, volumes |-> vs] : both \in Mounting, vs \in SUBSET Volumes}
AnyHosts ==
    {h \in Hosts0 : \A c \in Containers : {m.name : m \in Range(h.containers[c].mounts)} \ {""}
                        \subseteq h.volumes}
    \union {[containers |-> Both(meta, Pod(c2)), volumes |-> {}] :
              meta \in Named \union Labelled \union SetUp}

\* Containers that never ran, and one that docker is about to start again.
EarlyHosts ==
    {[containers |-> Both([Pod(c1) EXCEPT !.state = state], Plain(c2)), volumes |-> {}] :
        state \in {Created, Restarting}}
=============================================================================
