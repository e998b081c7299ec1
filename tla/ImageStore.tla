----------------------------- MODULE ImageStore -----------------------------
(***************************************************************************)
(* The images of the migrator's containerd: how PrepareImages              *)
(* (--pull-images) and coldMigrator.doPrepare name them, have them pulled  *)
(* and unpacked by ContentStore, and find them again when a snapshot is    *)
(* made.                                                                   *)
(***************************************************************************)
EXTENDS ContentStore

CONSTANTS
    ImageName,    \* meta.Config.Image of each container: as the user wrote it
    Image,        \* meta.Image: what docker has under it
    RepoTags,     \* of that image
    RepoDigests,
    Modes,        \* the flags the operator uses, see Flags
    MaxRuns       \* bound on the number of runs

Flags == {"pull-images", "image-manifest-only", "prepare"}

ASSUME ImagesAssumption ==
    /\ IsFiniteSet(Containers)
    /\ ImageName \in [Containers -> Refs]
    /\ RepoTags \in [Containers -> Seq(Refs)]
    /\ RepoDigests \in [Containers -> Seq(Refs)]
    /\ Driver \in {"overlay", "overlay2"}
    /\ Modes \subseteq Flags
    /\ MaxRuns \in Nat

VARIABLES
    k,          \* the index of the loop
    listed,     \* the containers, in docker's order
    pulled,     \* coldMigrator.images: references this run has pulled
    outcome,    \* how the last run ended; "refused": it asked for what is not there
    runs        \* runs so far

memory == <<mode, listed, name, pulled>>
vars == <<pc, k, memory, pull, clientLease, outcome, runs, containerd>>

\* What the registry has, and what the converters make of it.
Roots ==
    LET registered == UNION Range(Registry)
        old == {b \in registered : b.type = "schema1" /\ WellFormed(b)}
    IN  registered \union {Convert(m, fetched) : m \in old, fetched \in BOOLEAN}

Blobs == Reachable(Roots)
ImageBlobs == {b \in Blobs : b.type \in Parents}
Chains == {ChainOf(b, snapshotter) : b \in ImageBlobs, snapshotter \in Snapshotters}

ControlTypes ==
    /\ pc \in {"off", "client", "list", "inspect", "prepare", "pull", "resolve", "dispatch",
               "convert", "config", "record", "unpack", "label", "release", "clear", "snapshot"}
    /\ k \in Nat \ {0}
    /\ mode \in Flags
    /\ listed \in Seq(Containers)
    /\ name \in Refs
    /\ pulled \subseteq Refs
    /\ outcome \in {"none", "prepared", "failed", "refused", "killed"}
    /\ runs \in 0..MaxRuns
    /\ err \in {"none", "failed", "refused"}
    /\ {pullLease, clientLease} \subseteq LeaseIds \union {"none"}

BlobTypes ==
    /\ desc \in Blobs \union {NoBlob} /\ todo \union got \subseteq Blobs
    /\ content \subseteq Blobs
    /\ DOMAIN images \subseteq Refs /\ Range(images) \subseteq ImageBlobs

LayerTypes ==
    /\ unpacked \subseteq Chains /\ snapshotRefs \subseteq content \X Chains
    /\ DOMAIN snapshots \subseteq Containers /\ Range(snapshots) \subseteq Chains

LeaseTypes ==
    /\ DOMAIN leases \subseteq LeaseIds
    /\ \A l \in DOMAIN leases :
          /\ leases[l].content \subseteq Blobs /\ leases[l].unpacked \subseteq Chains
          /\ leases[l].containers \subseteq Containers

TypeOK == ControlTypes /\ BlobTypes /\ LayerTypes /\ LeaseTypes

NoPull == desc = NoBlob /\ todo = {} /\ got = {} /\ err = "none" /\ pullLease = "none"
ForgetPull ==
    desc' = NoBlob /\ todo' = {} /\ got' = {} /\ err' = "none" /\ pullLease' = "none"

Init ==
    /\ pc = "off"
    /\ k = 1
    /\ mode = "prepare"
    /\ listed = <<>>
    /\ name \in {ImageName[c] : c \in Containers}
    /\ pulled = {}
    /\ outcome = "none"
    /\ runs = 0
    /\ NoPull
    /\ clientLease = "none"
    /\ content = {}
    /\ images = <<>>
    /\ unpacked = {}
    /\ snapshotRefs = {}
    /\ snapshots = <<>>
    /\ leases = <<>>

ListingsOf(S) == Bijection(1..Cardinality(S), S)

-----------------------------------------------------------------------------
(* The runs. *)

Goto(label) == pc' = label /\ UNCHANGED <<k, outcome>>
Return(how) == pc' = "off" /\ outcome' = how /\ UNCHANGED k

\* On to the next container.
Continue ==
    /\ pc' = IF mode = "prepare" THEN "prepare" ELSE "inspect"
    /\ k' = k + 1
    /\ UNCHANGED outcome

StartRun ==
    /\ pc = "off"
    /\ runs < MaxRuns
    /\ pc' = "client"
    /\ k' = 1
    /\ mode' \in Modes
    /\ pulled' = {}
    /\ outcome' = "none"
    /\ runs' = runs + 1
    /\ UNCHANGED <<listed, name, pull, clientLease, containerd>>

NewClient ==
    /\ pc = "client"
    /\ \/ NewCtrdClient("list") /\ UNCHANGED <<k, outcome>>
       \/ Fails("lease") /\ Return("failed") /\ UNCHANGED <<clientLease, leases>>
    /\ UNCHANGED <<memory, pull, runs, blobs, layers, snapshots>>

ListContainers ==
    /\ pc = "list"
    /\ \/ /\ listed' \in ListingsOf(Containers)
          /\ Goto(IF mode = "prepare" THEN "prepare" ELSE "inspect")
       \/ Fails("docker") /\ Return("failed") /\ UNCHANGED listed
    /\ UNCHANGED <<mode, name, pulled, pull, clientLease, runs, containerd>>

\* PrepareImages takes the first name docker has for the image.
InspectImage ==
    /\ pc = "inspect"
    /\ k <= Len(listed)
    /\ LET c == listed[k]
           names == RepoTags[c] \o RepoDigests[c]
       IN  \/ names # <<>> /\ name' = Head(names)
              /\ IF Head(names) \in DOMAIN images THEN Continue ELSE Goto("pull")
           \/ names = <<>> /\ Return("refused") /\ UNCHANGED name
           \/ Fails("docker") /\ Return("failed") /\ UNCHANGED name
    /\ UNCHANGED <<mode, listed, pulled, pull, clientLease, runs, containerd>>

\* Mutant: what an earlier run has left in containerd is not pulled again.
DoPrepare_SkipsKnown ==
    /\ pc = "prepare"
    /\ k <= Len(listed)
    /\ LET img == ImageName[listed[k]] IN
       /\ pulled' = pulled \union {img}
       /\ name' = img
       /\ Goto(IF img \in pulled \union DOMAIN images THEN "clear" ELSE "pull")
    /\ UNCHANGED <<mode, listed, pull, clientLease, runs, containerd>>

\* Each reference is pulled once in a run, whatever containerd has already.
DoPrepare ==
    /\ pc = "prepare"
    /\ k <= Len(listed)
    /\ LET img == ImageName[listed[k]] IN
       /\ pulled' = pulled \union {img}
       /\ name' = img
       /\ Goto(IF img \in pulled THEN "clear" ELSE "pull")
    /\ UNCHANGED <<mode, listed, pull, clientLease, runs, containerd>>

EndOfContainers ==
    /\ pc \in {"inspect", "prepare"}
    /\ k > Len(listed)
    /\ Return("prepared")
    /\ UNCHANGED <<memory, pull, clientLease, runs, containerd>>

\* The lease goes, whatever the pull has come to; an error of that is ignored.
EndPull ==
    /\ pc = "release"
    /\ ForgetPull
    /\ \/ leases' = Without(leases, pullLease)
       \/ Fails("lease") /\ UNCHANGED leases
    /\ IF err # "none" THEN Return(err)
       ELSE IF mode = "prepare" THEN Goto("clear")
       ELSE Continue
    /\ UNCHANGED <<memory, clientLease, runs, blobs, layers, snapshots>>

\* An error of RemoveSnapshot is ignored.
RemoveSnapshot ==
    /\ pc = "clear"
    /\ \/ snapshots' = Restrict(snapshots, DOMAIN snapshots \ {listed[k]})
       \/ Fails("snapshot") /\ UNCHANGED snapshots
    /\ Goto("snapshot")
    /\ UNCHANGED <<memory, pull, clientLease, runs, blobs, layers, leases>>

\* The name is looked up as the user wrote it, and the parent in overlayfs; a
\* snapshot that could not be removed is in the way of the new one.
CreateSnapshot ==
    /\ pc = "snapshot"
    /\ LET c == listed[k]
           ref == ImageName[c]
           chain == ChainOf(images[ref], "overlayfs")
           hasParent == ref \in DOMAIN images /\ Readable(images[ref]) /\ chain \in unpacked
       IN  \/ /\ hasParent /\ c \notin DOMAIN snapshots
              /\ snapshots' = With(snapshots, c, chain)
              /\ leases' = Hold(clientLease, "containers", {c})
              /\ Continue
           \/ ~hasParent /\ Return("refused") /\ UNCHANGED <<snapshots, leases>>
           \/ /\ c \in DOMAIN snapshots \/ Fails("snapshot")
              /\ Return("failed")
              /\ UNCHANGED <<snapshots, leases>>
    /\ UNCHANGED <<memory, pull, clientLease, runs, blobs, layers>>

\* containerd dies with the migrator; leases and content stay.
Crash ==
    /\ pc # "off"
    /\ Fails("process")
    /\ Return("killed")
    /\ ForgetPull
    /\ UNCHANGED <<memory, clientLease, runs, containerd>>

PrepareImages == InspectImage \/ DoPrepare \/ EndOfContainers
PrepareSnapshot == RemoveSnapshot \/ CreateSnapshot

Next ==
    \/ StartRun \/ NewClient \/ ListContainers \/ PrepareImages
    \/ PullImage /\ UNCHANGED <<k, listed, pulled, outcome, runs>>
    \/ EndPull \/ PrepareSnapshot \/ Crash
    \/ CollectGarbage /\ UNCHANGED <<k, listed, pulled, outcome, runs>>

Spec == Init /\ [][Next]_vars
-----------------------------------------------------------------------------
(***************************************************************************)
(* Whatever names docker and the users have for an image, containerd has   *)
(* it under one: a stored name is what it is itself normalised to.         *)
(***************************************************************************)
NamesCanonical == \A n \in DOMAIN images : StoredName(n) = n

(***************************************************************************)
(* A preparation that ends well ends with a snapshot for every container:  *)
(* none that it has made is lost while it prepares the others.             *)
(***************************************************************************)
AllPrepared == mode = "prepare" /\ outcome = "prepared" => DOMAIN snapshots = Containers

\* What PullImage can make of what a stored name refers to.
PulledAs(n, fetched) ==
    {b \in Registry[n] : IsImage(b)}
    \union {Convert(b, fetched) : b \in {old \in Registry[n] :
              old.type = "schema1" /\ WellFormed(old) /\ old.history # <<>>}}

(***************************************************************************)
(* What a preparation counts on and nothing checks: users wrote full       *)
(* names, docker has a name for every image, the layers are unpacked where *)
(* they are looked for, the label that keeps them is never missing, tags   *)
(* stay with the config they have, and no record of a converted image is   *)
(* overwritten by one without diffIDs.                                     *)
(***************************************************************************)
Undisturbed ==
    LET firstNames == {Head(RepoTags[c] \o RepoDigests[c]) : c \in Containers} IN
    /\ \A c \in Containers : StoredName(ImageName[c]) = ImageName[c]
    /\ Modes \subseteq {"prepare"} \/ \A c \in Containers : RepoTags[c] \o RepoDigests[c] # <<>>
    /\ Snapshotter = "overlayfs"
    /\ ~Fails("label")
    /\ \A n \in DOMAIN Registry : \A x, y \in PulledAs(n, TRUE) :
          ManifestOf(x).config = ManifestOf(y).config
    /\ "image-manifest-only" \in Modes =>
          \A n \in firstNames :
              \/ StoredName(n) = n \/ StoredName(n) \notin DOMAIN Registry
              \/ PulledAs(StoredName(n), FALSE) \subseteq PulledAs(StoredName(n), TRUE)

(***************************************************************************)
(* doPrepare "prepares image and snapshot by using old container info":    *)
(* what it has pulled it finds again, whatever earlier runs have left - a  *)
(* part of an image, or only its manifest - and whatever name docker has   *)
(* for it; and it ends with a snapshot for every container.                *)
(***************************************************************************)
PreparationSucceeds == outcome # "refused" /\ AllPrepared

(***************************************************************************)
(* The collector never takes what a user of the store still counts on: the *)
(* config of every image on record can be read, though its blobs were      *)
(* written one by one, before the record, and perhaps by a run that died.  *)
(***************************************************************************)
ImagesReadable == \A n \in DOMAIN images : Readable(images[n])

(***************************************************************************)
(* A container's snapshot, to which its files will be moved, is in no      *)
(* image and no containerd container: only the lease that NewCtrdClient    *)
(* creates or finds keeps it.  It goes when doPrepare removes it, and in   *)
(* no other step, of this run or a later one.                              *)
(***************************************************************************)
SnapshotsKept ==
    [][\A c \in DOMAIN snapshots :
          c \notin DOMAIN snapshots' => pc = "clear" /\ listed[k] = c]_vars

\* What new, converted from old, says of its layers.
Agrees(old, new) ==
    LET n == Len(old.history)
        history == new.config.history
        Empty(i) == history[n + 1 - i].empty
        LayersFrom(i) == Cardinality({j \in i..n : ~Empty(j)})
    IN  /\ Len(history) = n
        /\ \A i \in 1..n : history[n + 1 - i].created = old.history[i].created
        /\ \A i, j \in 1..n : old.fsLayers[i] = old.fsLayers[j] => Empty(i) = Empty(j)
        /\ Len(new.layers) = LayersFrom(1) /\ Len(new.config.diffIDs) = LayersFrom(1)
        /\ \A i \in 1..n : ~Empty(i) =>
              new.layers[LayersFrom(i)] \in {NoBlob, Layer(old.fsLayers[i])}

(***************************************************************************)
(* What Convert stores of a schema 1 manifest is an image that containerd  *)
(* and the OCI specification accept: the history is the old one, oldest    *)
(* first; one blob is not empty in one place and a layer in another; and   *)
(* history, diffIDs and layers agree in number and order.                  *)
(***************************************************************************)
ConvertedConsistent ==
    LET OldManifests == {b \in UNION Range(Registry) : b.type = "schema1" /\ WellFormed(b)} IN
    \A b \in content :
        b.type = "manifest" /\ ~NoHistory(b) => \E old \in OldManifests : Agrees(old, b)

(***************************************************************************)
(* --pull-images without --image-manifest-only: "image has been            *)
(* downloaded, skip pull image" is said of downloaded images only.         *)
(***************************************************************************)
ImagesDownloaded ==
    mode = "pull-images" /\ outcome = "prepared" =>
        \A n \in DOMAIN images : Range(ManifestOf(images[n]).layers) \subseteq content

(***************************************************************************)
(* A container's snapshot is based on the image that its upper directory   *)
(* was written over - if its tag has not moved since docker pulled it.     *)
(***************************************************************************)
OwnImage ==
    mode = "prepare" /\ outcome = "prepared" =>
        \A c \in DOMAIN snapshots : snapshots[c] = ChainOf(Image[c], "overlayfs")
=============================================================================
