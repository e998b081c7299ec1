-------------------------------- MODULE Host --------------------------------
(***************************************************************************)
(* The host a migration works on: dockerd with its containers and their    *)
(* upper directories, the pouch data directory that the migrator fills     *)
(* (snapshots, metadata, network and volume databases), pouchd, and what   *)
(* users and containers may do while, or between, the runs of the tool.    *)
(***************************************************************************)
EXTENDS Naturals, Sequences, FiniteSets, Functions, MoveDir

CONSTANTS
    Containers,  \* ids of the containers docker may list
    Images,      \* images they were created from
    ImageOf,     \* meta.Config.Image of each container
    Marker,      \* d2p-migrator.txt
    Faulty,      \* the calls that may fail, by name
    HostStates,  \* container states before the first run
    HostActs,    \* what may happen to containers on the host
    LiveRestore, \* containers survive a stop of dockerd
    MaxActs      \* bound on the number of such acts

ASSUME ContainersAssumption == IsFiniteSet(Containers)
ASSUME ImageAssumption == ImageOf \in [Containers -> Images]
ASSUME MarkerAssumption == Marker \in Files \ Hidden
ASSUME HostAssumption ==
    /\ HostStates \subseteq {"running", "paused", "exited", "gone"}
    /\ HostActs \subseteq {"exit", "start", "pause", "remove"}
    /\ LiveRestore \in BOOLEAN
    /\ MaxActs \in Nat

VARIABLES
    dockerd,   \* "up", "stopped" or "removed"
    cstate,    \* docker's state of each container; "gone" once it is removed
    upper,     \* content of docker's UpperDir of each container
    legacy,    \* history: that content before the first run
    acts,      \* acts of the host so far
    ctrd,      \* the containerd the migrator started: "running" or "stopped"
    store,     \* images pulled into it
    snapshot,  \* containers that have a snapshot in it
    snapUpper, \* content of the UpperDir of each snapshot
    meta,      \* containers/<id>/meta.json: "none", "torn" or "saved"
    homeDir,   \* /etc/pouch/config.json points at the pouch data directory
    netdb,     \* local-kv.db copied to the pouch data directory
    volumes,   \* all volumes put into pouch's volume store
    sandboxes, \* all sandbox metas put into pouch's CRI store
    pouchd,    \* "down" or "up"
    pstate,    \* pouchd's state of each container
    down       \* history: containers the migrator stopped, not running since

dockerVars == <<dockerd, cstate, upper, legacy, acts>>
pouchData == <<store, snapshot, snapUpper, meta, homeDir, netdb, volumes, sandboxes>>
pouchVars == <<pouchd, pstate>>

HostTypeOK ==
    /\ dockerd \in {"up", "stopped", "removed"}
    /\ cstate \in [Containers -> {"running", "paused", "exited", "gone"}]
    /\ upper \in [Containers -> SUBSET Files]
    /\ legacy \in [Containers -> SUBSET Files]
    /\ acts \in 0..MaxActs
    /\ ctrd \in {"running", "stopped"}
    /\ store \subseteq Images
    /\ snapshot \subseteq Containers
    /\ snapUpper \in [Containers -> SUBSET Files]
    /\ meta \in [Containers -> {"none", "torn", "saved"}]
    /\ homeDir \in BOOLEAN
    /\ netdb \in BOOLEAN
    /\ volumes \in BOOLEAN
    /\ sandboxes \in BOOLEAN
    /\ pouchd \in {"down", "up"}
    /\ pstate \in [Containers -> {"none", "stopped", "running"}]
    /\ down \subseteq Containers

\* A docker host nobody has migrated yet: pouch's data directory is empty.
HostInit ==
    /\ dockerd = "up"
    /\ cstate \in [Containers -> HostStates]
    /\ legacy \in [Containers -> SUBSET (Files \ {Marker})]
    /\ \A c \in Containers : cstate[c] = "gone" => legacy[c] = {}
    /\ upper = legacy
    /\ acts = 0
    /\ ctrd = "stopped"
    /\ store = {}
    /\ snapshot = {}
    /\ snapUpper = [c \in Containers |-> {}]
    /\ meta = [c \in Containers |-> "none"]
    /\ homeDir = FALSE
    /\ netdb = FALSE
    /\ volumes = FALSE
    /\ sandboxes = FALSE
    /\ pouchd = "down"
    /\ pstate = [c \in Containers |-> "none"]
    /\ down = {}

Fails(call) == call \in Faulty

Alive(c) == cstate[c] # "gone"
Present == {c \in Containers : Alive(c)}

\* The orders in which a listing may name the containers in S.
ListingsOf(S) == Bijection(1..Cardinality(S), S)

\* Where the content a container had before the migration can be found.
AtDocker(c) == legacy[c] \subseteq upper[c]
InPouch(c) == Glob(legacy[c]) \subseteq snapUpper[c]

-----------------------------------------------------------------------------
(* What happens to containers on the host, within the bound MaxActs. *)

HostAct(kind) ==
    /\ kind \in HostActs
    /\ acts < MaxActs
    /\ acts' = acts + 1
    /\ UNCHANGED <<dockerd, legacy, ctrd, pouchData, pouchVars>>

\* The main process of c ends by itself.
Exit(c) ==
    /\ cstate[c] = "running"
    /\ HostAct("exit")
    /\ cstate' = [cstate EXCEPT ![c] = "exited"]
    /\ UNCHANGED <<upper, down>>

\* A user starts c.
Start(c) ==
    /\ dockerd = "up"
    /\ cstate[c] = "exited"
    /\ HostAct("start")
    /\ cstate' = [cstate EXCEPT ![c] = "running"]
    /\ down' = down \ {c}
    /\ UNCHANGED upper

\* A user pauses c.
Pause(c) ==
    /\ dockerd = "up"
    /\ cstate[c] = "running"
    /\ HostAct("pause")
    /\ cstate' = [cstate EXCEPT ![c] = "paused"]
    /\ UNCHANGED <<upper, down>>

\* A user removes c, and its directories with it.
Remove(c) ==
    /\ dockerd = "up"
    /\ Alive(c)
    /\ HostAct("remove")
    /\ cstate' = [cstate EXCEPT ![c] = "gone"]
    /\ upper' = [upper EXCEPT ![c] = {}]
    /\ down' = down \ {c}
=============================================================================
