----------------------------- MODULE PouchStores -----------------------------
(***************************************************************************)
(* The stores that PreMigrate fills for pouchd: the metadata of the        *)
(* containers, the boltdb of volumes, with the containers that refer to    *)
(* each, and the CRI sandboxes.  ColdMigrator and LiveMigrator take        *)
(* PrepareVolumes and GenerateSandboxMetaJSON for one step each; here they *)
(* are taken apart, as the live migrator calls them.                       *)
(***************************************************************************)
EXTENDS ContainerMeta

CONSTANTS
    Containers,
    Volumes,
    VolumeDriver, \* the driver of each volume
    Hosts,        \* what docker may have: volumes and, of each container, its ContainerJSON
    Faulty,       \* the calls that may fail, by name
    MaxActs,      \* bound on what users do
    MaxRuns       \* bound on the number of runs

SupportVolumeDrivers == {"ultron", "local", "alilocal"}

ASSUME StoresAssumption ==
    /\ IsFiniteSet(Containers) /\ IsFiniteSet(Volumes)
    /\ VolumeDriver \in [Volumes -> SupportVolumeDrivers \union {"nfs"}]
    /\ \A h \in Hosts : h.volumes \subseteq Volumes /\ DOMAIN h.containers = Containers
    /\ MaxActs \in Nat /\ MaxRuns \in Nat

\* docker describes a container under its id.
ASSUME DescriptionAssumption ==
    \A h \in Hosts : \A c \in Containers :
        /\ {"id", "name", "mounts"} \subseteq DOMAIN h.containers[c]
        /\ h.containers[c].id = c
        /\ {"slash", "attempt"} \subseteq DOMAIN h.containers[c].name

VARIABLES
    conts,        \* docker's containers
    vols,         \* docker's volumes
    docker,       \* the ContainerJSON of each container
    acts,         \* acts of users so far
    pc, k,        \* the call that comes next, the index of its loop
    listed,       \* PreMigrate's containers, in docker's order
    pouchVolumes, \* its volumes, in docker's order
    volumeRefs,   \* the containers that refer to a volume: "id,id,..."
    specs,        \* Spec.Extra["ref"] and Spec.Size of the volumes in memory
    sandboxContainers,
    outcome,      \* how the last run ended
    runs,         \* runs so far
    volumeDb,     \* volume.db, from the volumes stored to their specs
    boltLock,     \* the migrator holds its file lock
    containerDb,  \* the containers' meta.json
    sandboxDb,    \* sandboxes-meta
    resolvConf    \* sandboxes with a complete resolv.conf

dockerVars == <<conts, vols, docker, acts>>
memory == <<listed, pouchVolumes, volumeRefs, specs, sandboxContainers>>
sandboxes == <<sandboxDb, resolvConf>>
stores == <<containerDb, volumeDb, boltLock, sandboxes>>
vars == <<dockerVars, pc, k, memory, outcome, runs, stores>>

Spec0 == [ref |-> <<>>, sized |-> FALSE]
Specs == [ref : Seq(Containers), sized : BOOLEAN]

TypeOK ==
    /\ conts \subseteq Containers
    /\ vols \subseteq Volumes
    /\ DOMAIN docker = Containers
    /\ acts \in 0..MaxActs
    /\ pc \in {"off", "list", "volumes", "inspect", "open", "refs", "put", "close",
               "closeFailed", "sandboxes"}
    /\ k \in Nat \ {0}
    /\ listed \in Seq(Containers)
    /\ pouchVolumes \in Seq(Volumes)
    /\ volumeRefs \in [Volumes -> Seq(Containers)]
    /\ specs \in [Volumes -> Specs]
    /\ \A i \in DOMAIN sandboxContainers : SandboxName(sandboxContainers[i].name)
    /\ outcome \in {"none", "prepared", "failed", "killed"}
    /\ runs \in 0..MaxRuns
    /\ \E stored \in SUBSET Volumes : volumeDb \in [stored -> Specs]
    /\ boltLock \in BOOLEAN
    /\ DOMAIN containerDb \subseteq Containers
    /\ DOMAIN sandboxDb \subseteq Containers
    /\ resolvConf \subseteq DOMAIN sandboxDb

\* docker removes no volume that a container mounts.
Mounts(c) == {m.name : m \in {n \in Range(docker[c].mounts) : n.driver # ""}}
MountedBy(S) == UNION {Mounts(c) : c \in S}

Init ==
    /\ conts = Containers
    /\ \E host \in Hosts : docker = host.containers /\ vols = host.volumes
    /\ acts = 0
    /\ pc = "off"
    /\ k = 1
    /\ listed = <<>>
    /\ pouchVolumes = <<>>
    /\ volumeRefs = [v \in Volumes |-> <<>>]
    /\ specs = [v \in Volumes |-> Spec0]
    /\ sandboxContainers = <<>>
    /\ outcome = "none"
    /\ runs = 0
    /\ volumeDb = <<>>
    /\ boltLock = FALSE
    /\ containerDb = <<>>
    /\ sandboxDb = <<>>
    /\ resolvConf = {}

Fails(call) == call \in Faulty
ListingsOf(S) == Bijection(1..Cardinality(S), S)

Goto(label) == pc' = label /\ UNCHANGED <<k, outcome>>
Enter(label) == pc' = label /\ k' = 1 /\ UNCHANGED outcome
Again == k' = k + 1 /\ UNCHANGED <<pc, outcome>>
Return(how) == pc' = "off" /\ outcome' = how /\ UNCHANGED k

-----------------------------------------------------------------------------
(* The part of PreMigrate that collects volumes, references and sandboxes. *)

StartRun ==
    /\ pc = "off"
    /\ runs < MaxRuns
    /\ pc' = "list"
    /\ k' = 1
    /\ listed' = <<>>
    /\ pouchVolumes' = <<>>
    /\ volumeRefs' = [v \in Volumes |-> <<>>]
    /\ specs' = [v \in Volumes |-> Spec0]
    /\ sandboxContainers' = <<>>
    /\ outcome' = "none"
    /\ runs' = runs + 1
    /\ UNCHANGED <<dockerVars, stores>>

ListContainers ==
    /\ pc = "list"
    /\ \/ Fails("docker") /\ Return("failed") /\ UNCHANGED listed
       \/ conts = {} /\ Return("prepared") /\ UNCHANGED listed
       \/ conts # {} /\ listed' \in ListingsOf(conts) /\ Goto("volumes")
    /\ UNCHANGED <<dockerVars, pouchVolumes, volumeRefs, specs, sandboxContainers, runs,
                   stores>>

\* One unsupported volume, used or not, fails the run; remote disks are left out.
ToVolumes ==
    /\ pc = "volumes"
    /\ LET supported == \A v \in vols : VolumeDriver[v] \in SupportVolumeDrivers IN
       \/ /\ supported
          /\ pouchVolumes' \in ListingsOf({v \in vols : VolumeDriver[v] # "ultron"})
          /\ Enter("inspect")
       \/ /\ ~supported \/ Fails("docker")
          /\ Return("failed")
          /\ UNCHANGED pouchVolumes
    /\ UNCHANGED <<dockerVars, listed, volumeRefs, specs, sandboxContainers, runs, stores>>

\* A container that mounts a volume, however often, is added to its references.
ContainerVolumeRefsCount(meta, refs) ==
    LET named == {m \in Range(meta.mounts) : m.driver # ""}
    IN  [v \in Volumes |->
            IF v \in {m.name : m \in named} /\ meta.id \notin Range(refs[v])
            THEN Append(refs[v], meta.id)
            ELSE refs[v]]

\* Mutant: every container is taken for a sandbox.
InspectContainer_AnyName ==
    /\ pc = "inspect"
    /\ k <= Len(listed)
    /\ listed[k] \in conts
    /\ LET meta == ToPouchContainerMeta(docker[listed[k]]) IN
       /\ volumeRefs' = ContainerVolumeRefsCount(meta, volumeRefs)
       /\ sandboxContainers' = Append(sandboxContainers, meta)
       /\ containerDb' = Put(containerDb, meta.id, meta)
    /\ Again
    /\ UNCHANGED <<dockerVars, listed, pouchVolumes, specs, runs, volumeDb, boltLock, sandboxes>>

\* The inspection, its conversion and save2Disk, whose failure may tear a file.
InspectContainer ==
    /\ pc = "inspect"
    /\ k <= Len(listed)
    /\ LET c == listed[k]
           meta == ToPouchContainerMeta(docker[c])
       IN  \/ /\ c \in conts
              /\ volumeRefs' = ContainerVolumeRefsCount(meta, volumeRefs)
              /\ sandboxContainers' = IF SandboxName(meta.name)
                                      THEN Append(sandboxContainers, meta)
                                      ELSE sandboxContainers
              /\ containerDb' = Put(containerDb, c, meta)
              /\ Again
           \/ /\ c \notin conts \/ Fails("docker")
              /\ Return("failed")
              /\ UNCHANGED <<volumeRefs, sandboxContainers, containerDb>>
           \/ /\ Fails("save")
              /\ Return("failed")
              /\ containerDb' = Restrict(containerDb, DOMAIN containerDb \ {c})
              /\ UNCHANGED <<volumeRefs, sandboxContainers>>
    /\ UNCHANGED <<dockerVars, listed, pouchVolumes, specs, runs, volumeDb, boltLock, sandboxes>>

EndOfContainers ==
    /\ pc = "inspect"
    /\ k > Len(listed)
    /\ Goto("open")
    /\ UNCHANGED <<dockerVars, memory, runs, stores>>

-----------------------------------------------------------------------------
(* PrepareVolumes *)

NewVolumeStore ==
    /\ pc = "open"
    /\ \/ boltLock' = TRUE /\ Enter("refs")
       \/ Fails("bolt") /\ Return("failed") /\ UNCHANGED boltLock
    /\ UNCHANGED <<dockerVars, memory, runs, containerDb, volumeDb, sandboxes>>

\* A volume nobody refers to is left as it is; the size of an alilocal volume
\* stays empty if the inspection fails.
SetRefAndSize ==
    /\ pc = "refs"
    /\ k <= Len(pouchVolumes)
    /\ LET v == pouchVolumes[k] IN
       \/ volumeRefs[v] = <<>> /\ UNCHANGED specs
       \/ /\ volumeRefs[v] # <<>>
          /\ \E inspected \in BOOLEAN :
                /\ inspected => v \in vols
                /\ ~inspected => v \notin vols \/ Fails("docker")
                /\ specs' = [specs EXCEPT ![v] =
                     [ref |-> volumeRefs[v],
                      sized |-> inspected /\ VolumeDriver[v] = "alilocal"]]
    /\ Again
    /\ UNCHANGED <<dockerVars, listed, pouchVolumes, volumeRefs, sandboxContainers, runs,
                   stores>>

EndOfRefs ==
    /\ pc = "refs"
    /\ k > Len(pouchVolumes)
    /\ Enter("put")
    /\ UNCHANGED <<dockerVars, memory, runs, stores>>

\* Mutant: a volume that is in the store from an earlier run is left alone.
PutVolume_KeepsOld ==
    /\ pc = "put"
    /\ k <= Len(pouchVolumes)
    /\ LET v == pouchVolumes[k] IN
       volumeDb' = [w \in DOMAIN volumeDb \union {v} |->
                      IF w \in DOMAIN volumeDb THEN volumeDb[w] ELSE specs[w]]
    /\ Again
    /\ UNCHANGED <<dockerVars, memory, runs, containerDb, boltLock, sandboxes>>

PutVolume ==
    /\ pc = "put"
    /\ k <= Len(pouchVolumes)
    /\ LET v == pouchVolumes[k] IN
       \/ /\ volumeDb' = [w \in DOMAIN volumeDb \union {v} |->
                             IF w = v THEN specs[w] ELSE volumeDb[w]]
          /\ Again
       \/ Fails("bolt") /\ Goto("closeFailed") /\ UNCHANGED volumeDb
    /\ UNCHANGED <<dockerVars, memory, runs, containerDb, boltLock, sandboxes>>

EndOfPuts ==
    /\ pc = "put"
    /\ k > Len(pouchVolumes)
    /\ Goto("close")
    /\ UNCHANGED <<dockerVars, memory, runs, stores>>

\* Mutant: the store is closed at the end instead of deferred.
Shutdown_NotDeferred ==
    /\ \/ pc = "close" /\ boltLock' = FALSE /\ Enter("sandboxes")
       \/ pc = "closeFailed" /\ UNCHANGED boltLock /\ Return("failed")
    /\ UNCHANGED <<dockerVars, memory, runs, containerDb, volumeDb, sandboxes>>

Shutdown ==
    /\ \/ pc = "close" /\ Enter("sandboxes")
       \/ pc = "closeFailed" /\ Return("failed")
    /\ boltLock' = FALSE
    /\ UNCHANGED <<dockerVars, memory, runs, containerDb, volumeDb, sandboxes>>

-----------------------------------------------------------------------------
(* GenerateSandboxMetaJSON *)

\* Mutant: a sandbox that cannot be converted is skipped.
CreateSandbox_Skips ==
    /\ pc = "sandboxes"
    /\ k <= Len(sandboxContainers)
    /\ LET c == sandboxContainers[k] IN
       \/ /\ c.id \in conts /\ HasMetadata(c.name)
          /\ sandboxDb' = Put(sandboxDb, c.id, ToCRIMetaJSON(c))
          /\ resolvConf' = resolvConf \union {c.id}
       \/ /\ c.id \notin conts \/ ~HasMetadata(c.name)
          /\ UNCHANGED sandboxes
    /\ Again
    /\ UNCHANGED <<dockerVars, memory, runs, containerDb, volumeDb, boltLock>>

\* Mutant: a sandbox that is in the store from an earlier run is left alone.
CreateSandbox_KeepsOld ==
    /\ pc = "sandboxes"
    /\ k <= Len(sandboxContainers)
    /\ LET c == sandboxContainers[k] IN
       /\ c.id \in conts /\ HasMetadata(c.name)
       /\ sandboxDb' = sandboxDb @@ (c.id :> ToCRIMetaJSON(c))
       /\ resolvConf' = resolvConf \union {c.id}
    /\ Again
    /\ UNCHANGED <<dockerVars, memory, runs, containerDb, volumeDb, boltLock>>

\* docker's resolv.conf goes with its container, and without it there is no
\* DNSConfig; a failed copy of it is only logged.
CreateSandbox ==
    /\ pc = "sandboxes"
    /\ k <= Len(sandboxContainers)
    /\ LET c == sandboxContainers[k]
           readable == c.id \in conts \/ c.resolvConf.path = ""
       IN  \/ /\ readable /\ HasMetadata(c.name)
              /\ sandboxDb' = Put(sandboxDb, c.id, ToCRIMetaJSON(c))
              /\ \/ resolvConf' = resolvConf \union {c.id}
                 \/ Fails("copy") /\ resolvConf' \in {resolvConf, resolvConf \ {c.id}}
              /\ Again
           \/ /\ ~readable \/ ~HasMetadata(c.name) \/ Fails("cri")
              /\ Return("failed")
              /\ UNCHANGED sandboxes
    /\ UNCHANGED <<dockerVars, memory, runs, containerDb, volumeDb, boltLock>>

EndOfSandboxes ==
    /\ pc = "sandboxes"
    /\ k > Len(sandboxContainers)
    /\ Return("prepared")
    /\ UNCHANGED <<dockerVars, memory, runs, stores>>

-----------------------------------------------------------------------------
\* The kernel releases the file lock of a process that dies.
Crash ==
    /\ pc # "off"
    /\ Fails("process")
    /\ Return("killed")
    /\ boltLock' = FALSE
    /\ UNCHANGED <<dockerVars, memory, runs, containerDb, volumeDb, sandboxes>>

\* A user removes a container, or a volume nobody mounts, and containers exit
\* and are started.
UserStep ==
    /\ acts < MaxActs
    /\ acts' = acts + 1
    /\ \/ \E c \in conts : conts' = conts \ {c} /\ UNCHANGED <<vols, docker>>
       \/ \E v \in vols \ MountedBy(conts) : vols' = vols \ {v} /\ UNCHANGED <<conts, docker>>
       \/ \E c \in conts :
             /\ docker' = [docker EXCEPT ![c].state =
                   IF @.pid > 0 THEN [running |-> FALSE, pid |-> 0, status |-> "exited"]
                   ELSE [running |-> TRUE, pid |-> acts', status |-> "running"]]
             /\ UNCHANGED <<conts, vols>>
    /\ UNCHANGED <<pc, k, memory, outcome, runs, stores>>

PreMigrate ==
    \/ ListContainers \/ ToVolumes \/ InspectContainer \/ EndOfContainers
    \/ NewVolumeStore \/ SetRefAndSize \/ EndOfRefs \/ PutVolume \/ EndOfPuts \/ Shutdown
    \/ CreateSandbox \/ EndOfSandboxes

Next == StartRun \/ PreMigrate \/ Crash \/ UserStep

Spec == Init /\ [][Next]_vars
-----------------------------------------------------------------------------
(***************************************************************************)
(* When PreMigrate succeeds, each volume it listed is stored with the      *)
(* containers that mount it, each of them once and no other - whatever     *)
(* earlier runs have stored, and whatever was removed since.  Remote disks *)
(* are not among them.                                                     *)
(***************************************************************************)
RefsMatchMounts ==
    outcome = "prepared" =>
        \A v \in Range(pouchVolumes) :
            /\ v \in DOMAIN volumeDb /\ VolumeDriver[v] \in {"local", "alilocal"}
            /\ LET ref == volumeDb[v].ref IN
               /\ Range(ref) = {c \in Range(listed) : v \in Mounts(c)}
               /\ IsInjective(ref)

(***************************************************************************)
(* "need to close the boltdb after created volumes, otherwise, pouchd      *)
(* cannot start": once PrepareVolumes has returned, on whatever path, or   *)
(* its process has died, the file is not locked.                           *)
(***************************************************************************)
StoreClosed == pc \notin {"refs", "put", "close", "closeFailed"} => ~boltLock

(***************************************************************************)
(* Success means that every sandbox among the containers can be managed    *)
(* through CRI; none is skipped, and none has a name that does not say     *)
(* which pod it is of and which attempt.                                   *)
(***************************************************************************)
SandboxesComplete ==
    outcome = "prepared" =>
        \A c \in Range(listed) :
            SandboxName([docker[c].name EXCEPT !.slash = FALSE]) =>
                /\ c \in DOMAIN sandboxDb
                /\ sandboxDb[c].config.metadata.attempt = docker[c].name.attempt

(***************************************************************************)
(* pouchd and its CRI manager are told the same: after a successful run a  *)
(* container is labelled as a sandbox if and only if it is in the CRI      *)
(* store, where it has the process of its metadata, though it may have     *)
(* exited or been started since an earlier run; and each label is a label  *)
(* or an annotation of the pod, but for those that only mark its type.     *)
(***************************************************************************)
StoresAgree ==
    outcome = "prepared" =>
        \A c \in Range(listed) :
            LET meta == containerDb[c]
                typed == PouchType \in DOMAIN meta.labels /\ meta.labels[PouchType] = "sandbox"
                pod == sandboxDb[c].config
            IN  /\ typed <=> c \in DOMAIN sandboxDb
                /\ typed =>
                      /\ sandboxDb[c].netNS = meta.state.pid
                      /\ \A key \in DOMAIN meta.labels \ {PouchType, DockerType} :
                            \/ key \in DOMAIN pod.labels /\ pod.labels[key] = meta.labels[key]
                            \/ pod.annotations[key[2]] = meta.labels[key]

(***************************************************************************)
(* A container goes on in pouch as it was set up in docker: it keeps its   *)
(* environment, but for the run mode, which becomes "vm"; its binds, with  *)
(* the preloaded library among them; and its capabilities, with those      *)
(* pouch needs, each once.  The environment names the run mode once, as    *)
(* docker's own client leaves it.                                          *)
(***************************************************************************)
SettingsKept ==
    \A c \in DOMAIN containerDb :
        LET old == docker[c]
            new == containerDb[c]
            Of(entry, var) == Len(entry) = 2 /\ entry[1] = var
        IN  /\ Len(new.env) = Len(old.env)
            /\ \A i \in DOMAIN old.env :
                  new.env[i] = IF Of(old.env[i], "ali_run_mode") THEN <<"ali_run_mode", "vm">>
                               ELSE old.env[i]
            /\ IsPrefix(old.host.binds, new.host.binds)
            /\ \A i \in DOMAIN old.env :
                  /\ Of(old.env[i], "LD_PRELOAD") /\ old.env[i][2] # ""
                  /\ \A j \in DOMAIN old.env : Of(old.env[j], "LD_PRELOAD") => i = j
                  => \E bind \in Range(new.host.binds) : bind[2] = old.env[i][2]
            /\ Range(new.host.caps) = Range(old.host.caps) \union Range(DefaultCaps)
            /\ IsInjective(old.host.caps) => IsInjective(new.host.caps)

(***************************************************************************)
(* Every container is in a state that pouchd knows.                        *)
(***************************************************************************)
StatusKnown == \A c \in DOMAIN containerDb : containerDb[c].state.status # ""

(***************************************************************************)
(* A sandbox that was removed between two runs is not in the CRI store.    *)
(***************************************************************************)
NoGhostSandboxes == outcome = "prepared" => DOMAIN sandboxDb \subseteq Range(listed)

(***************************************************************************)
(* "since docker volume list api not return alilocal size, we should use   *)
(* volume inspect api": nothing failing, an alilocal volume has its size.  *)
(***************************************************************************)
AlilocalSized ==
    outcome = "prepared" =>
        \A v \in Range(pouchVolumes) :
            VolumeDriver[v] = "alilocal" => volumeDb[v].sized
=============================================================================
