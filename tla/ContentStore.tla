---------------------------- MODULE ContentStore ----------------------------
(***************************************************************************)
(* The migrator's containerd and PullImage: content fetched and written    *)
(* one blob at a time under a lease, an image record at the end, its       *)
(* layers unpacked to a snapshot - and a collector that removes, at any    *)
(* time, what neither an image nor a lease leads to.                       *)
(***************************************************************************)
EXTENDS Schema1, FiniteSets

CONSTANTS
    Containers,
    Repositories, \* last components of image names
    Registry,     \* the blobs that a stored name may refer to while tags move
    Driver,       \* meta.Driver: docker's storage driver, "overlay" or "overlay2"
    LeaseIds,     \* bound on the number of leases
    Faulty        \* the calls that may fail, by name

\* containerd never takes "none" for a lease's id.
ASSUME LeaseAssumption == "none" \notin LeaseIds

Parents == {"index", "manifest"} \* the types of blobs with children

\* What an image is: an index of manifests, for this platform and for others,
\* or a manifest of a config and of layers.
IsLeaf(b) == b.type \notin Parents \union {"schema1"}
IsManifest(b) ==
    /\ b.type = "manifest" /\ b.config \in b.refs /\ IsLeaf(b.config)
    /\ \A layer \in Range(b.layers) : layer \in b.refs /\ IsLeaf(layer)
IsIndex(b) ==
    /\ b.type = "index" /\ b.matching # {} /\ b.matching \subseteq b.refs
    /\ \A m \in b.matching : IsManifest(m)
IsImage(b) == IsManifest(b) \/ IsIndex(b)

\* The history of images that were not converted is left out.
NoHistory(m) == m.config.history = <<>>

ASSUME RegistryAssumption ==
    \A b \in UNION Range(Registry) :
        \/ IsSchema1(b)
        \/ IsManifest(b) /\ NoHistory(b)
        \/ IsIndex(b) /\ \A m \in b.matching : NoHistory(m)

\* "registry/namespace/repo:tag@digest"; "" stands for a part that is missing.
Refs == [registry : {"", "hub", "private"}, namespace : {"", "library", "user"},
         repo : Repositories, tag : {"", "latest", "v1", "v2"}, digest : {"", "sha256"}]

Snapshotters == {"overlayfs", "overlay1fs"}

VARIABLES
    pc,          \* the call that comes next
    mode,        \* the flag of this run, see ImageStore
    name,        \* the reference handed to PullImage
    desc,        \* what it refers to, then what that was converted to
    todo, got,   \* Dispatch: blobs to fetch, and fetched ones with children to read
    err,         \* PullImage's error; "refused": what it needs is not there
    pullLease,   \* the lease of this pull, or "none"
    clientLease, \* that of Client, or "none"
    content,     \* the blobs stored
    images,      \* from names to blobs
    unpacked,    \* committed snapshots: <<diffIDs, snapshotter>>
    snapshotRefs,\* labels of configs that name a committed snapshot
    snapshots,   \* from containers to the committed snapshot theirs is based on
    leases       \* from ids to what they hold

pull == <<desc, todo, got, err, pullLease>>
blobs == <<content, images>>
layers == <<unpacked, snapshotRefs>>
containerd == <<blobs, layers, snapshots, leases>>

Fails(call) == call \in Faulty
With(f, x, value) == [y \in DOMAIN f \union {x} |-> IF y = x THEN value ELSE f[y]]
Without(f, x) == Restrict(f, DOMAIN f \ {x})

\* Three levels: an index, its manifests, their configs and layers.
Reachable(S) ==
    LET Refer(T) == T \union UNION {b.refs : b \in T} IN Refer(Refer(S))

-----------------------------------------------------------------------------
(* References. *)

AddDefaultRegistryIfMissing(ref) ==
    LET registry == IF ref.registry = "" THEN "hub" ELSE ref.registry
        namespace == IF registry = "hub" /\ ref.namespace = "" THEN "library"
                     ELSE ref.namespace
    IN  [ref EXCEPT !.registry = registry, !.namespace = namespace]

WithDefaultTagIfMissing(ref) ==
    IF ref.tag = "" /\ ref.digest = "" THEN [ref EXCEPT !.tag = "latest"] ELSE ref

TrimTagForDigest(ref) == IF ref.digest # "" THEN [ref EXCEPT !.tag = ""] ELSE ref

\* The name under which PullImage stores what ref refers to.
StoredName(ref) ==
    TrimTagForDigest(WithDefaultTagIfMissing(AddDefaultRegistryIfMissing(ref)))

Snapshotter == IF Driver = "overlay" THEN "overlay1fs" ELSE "overlayfs"

-----------------------------------------------------------------------------
(* Leases *)

NoHold == [content |-> {}, unpacked |-> {}, containers |-> {}]
Hold(lease, kind, S) == [leases EXCEPT ![lease][kind] = @ \union S]
Held(kind) == UNION {leases[l][kind] : l \in DOMAIN leases}

\* containerd's garbage collection.
CollectGarbage ==
    LET kept == content \intersect Reachable(Range(images) \union Held("content"))
        active == DOMAIN snapshots \intersect Held("containers")
        parents == {snapshots[c] : c \in active}
        named == {ref[2] : ref \in {r \in snapshotRefs : r[1] \in kept}}
    IN  /\ content' = kept
        /\ snapshots' = Restrict(snapshots, active)
        /\ unpacked' = unpacked \intersect (parents \union named \union Held("unpacked"))
        /\ snapshotRefs' = {r \in snapshotRefs : r[1] \in kept}
    /\ UNCHANGED <<pc, mode, name, pull, clientLease, images, leases>>

\* A Client takes over any lease that is there, if an earlier run has left one.
NewCtrdClient(next) ==
    /\ \/ leases # <<>> /\ clientLease' \in DOMAIN leases /\ UNCHANGED leases
       \/ /\ leases = <<>>
          /\ clientLease' \in LeaseIds
          /\ leases' = With(leases, clientLease', NoHold)
    /\ pc' = next

-----------------------------------------------------------------------------
(* PullImage: PullManifest, or Pull of containerd's client. *)

manifestOnly == mode = "image-manifest-only"
FailPull(why) == pc' = "release" /\ err' = why
GoOn(label) == pc' = label /\ UNCHANGED err
unchangedCaller == UNCHANGED <<mode, name, clientLease, snapshots>>

\* Mutant: the lease of the Client is used, and deleted in the end.
WithLease_OfClient ==
    /\ pc = "pull"
    /\ pullLease' = clientLease
    /\ GoOn("resolve")
    /\ unchangedCaller
    /\ UNCHANGED <<desc, todo, got, blobs, layers, leases>>

WithLease ==
    /\ pc = "pull"
    /\ \/ \E l \in LeaseIds \ DOMAIN leases :
             /\ leases' = With(leases, l, NoHold)
             /\ pullLease' = l
             /\ GoOn("resolve")
       \/ Fails("lease") /\ FailPull("failed") /\ UNCHANGED <<leases, pullLease>>
    /\ unchangedCaller
    /\ UNCHANGED <<desc, todo, got, blobs, layers>>

Resolve ==
    /\ pc = "resolve"
    /\ LET ref == StoredName(name) IN
       \/ ref \in DOMAIN Registry /\ \E b \in Registry[ref] :
             desc' = b /\ todo' = {b} /\ GoOn("dispatch")
       \/ /\ ref \notin DOMAIN Registry \/ Fails("pull")
          /\ FailPull("failed")
          /\ UNCHANGED <<desc, todo>>
    /\ unchangedCaller
    /\ UNCHANGED <<got, pullLease, blobs, layers, leases>>

\* What is stored already is not fetched, but held as well.
Store(b) ==
    /\ content' = content \union {b}
    /\ leases' = Hold(pullLease, "content", {b})
    /\ UNCHANGED <<images, pullLease, layers>>

\* Mutant: what is stored already is skipped.
FetchBlob_SkipStored(b) ==
    /\ b.type # "schema1"
    /\ todo' = todo \ {b}
    /\ got' = IF b.type \in Parents THEN got \union {b} ELSE got
    /\ content' = content \union {b}
    /\ leases' = IF b \in content THEN leases ELSE Hold(pullLease, "content", {b})
    /\ UNCHANGED <<pc, err, desc, images, pullLease, layers>>

FetchBlob(b) ==
    /\ b.type # "schema1"
    /\ todo' = todo \ {b}
    /\ got' = IF b.type \in Parents THEN got \union {b} ELSE got
    /\ Store(b)
    /\ UNCHANGED <<pc, err, desc>>

\* For a manifest PullManifest goes on with its config only.
Children(b) ==
    IF b.type = "index" THEN b.matching
    ELSE {b.config} \union (IF manifestOnly THEN {} ELSE Range(b.layers))

ReadChildren(b) ==
    /\ \/ /\ b \in content
          /\ got' = got \ {b}
          /\ todo' = todo \union Children(b)
          /\ UNCHANGED <<pc, err>>
       \/ b \notin content /\ FailPull("refused") /\ todo' = {} /\ got' = {}
    /\ UNCHANGED <<desc, pullLease, blobs, layers, leases>>

\* The converters keep the manifest in memory; that of Pull fetches the layers.
HandleSchema1(b) ==
    /\ b.type = "schema1"
    /\ \/ /\ WellFormed(b)
          /\ todo' = (todo \ {b}) \union
                     (IF manifestOnly THEN {} ELSE {Layer(sum) : sum \in Range(DiffIDs(b))})
          /\ UNCHANGED <<pc, err>>
       \/ ~WellFormed(b) /\ FailPull("failed") /\ todo' = {}
    /\ UNCHANGED <<got, desc, pullLease, blobs, layers, leases>>

\* Siblings are handled concurrently, and the first error ends it all.
Dispatch ==
    /\ pc = "dispatch"
    /\ \/ \E b \in todo : FetchBlob(b) \/ HandleSchema1(b)
       \/ \E b \in got : ReadChildren(b)
       \/ /\ Fails("pull") /\ FailPull("failed") /\ todo' = {} /\ got' = {}
          /\ UNCHANGED <<desc, pullLease, blobs, layers, leases>>
       \/ /\ todo = {} /\ got = {}
          /\ GoOn(IF desc.type = "schema1" THEN "convert" ELSE "record")
          /\ UNCHANGED <<pull, blobs, layers, leases>>
    /\ unchangedCaller

\* Mutant: the converted descriptor is dropped.
WriteManifest_Dropped ==
    /\ pc = "convert"
    /\ Store(Convert(desc, ~manifestOnly))
    /\ GoOn("record")
    /\ unchangedCaller
    /\ UNCHANGED <<desc, todo, got>>

\* The manifest is written before the config that its label names.
WriteManifest ==
    /\ pc = "convert"
    /\ \/ /\ desc.history # <<>>
          /\ desc' = Convert(desc, ~manifestOnly)
          /\ Store(desc')
          /\ GoOn("config")
       \/ /\ desc.history = <<>> \/ Fails("write")
          /\ FailPull("failed")
          /\ UNCHANGED <<desc, pullLease, blobs, layers, leases>>
    /\ unchangedCaller
    /\ UNCHANGED <<todo, got>>

WriteConfig ==
    /\ pc = "config"
    /\ \/ Store(desc.config) /\ GoOn("record")
       \/ Fails("write") /\ FailPull("failed") /\ UNCHANGED <<pullLease, blobs, layers, leases>>
    /\ unchangedCaller
    /\ UNCHANGED <<desc, todo, got>>

\* Mutant: the image is stored as it was asked for.
RecordImage_RawName ==
    /\ pc = "record"
    /\ images' = With(images, name, desc)
    /\ GoOn(IF manifestOnly THEN "release" ELSE "unpack")
    /\ unchangedCaller
    /\ UNCHANGED <<desc, todo, got, pullLease, content, layers, leases>>

\* is.Create, or is.Update of an image of that name.
RecordImage ==
    /\ pc = "record"
    /\ \/ /\ images' = With(images, StoredName(name), desc)
          /\ GoOn(IF manifestOnly THEN "release" ELSE "unpack")
       \/ Fails("write") /\ FailPull("failed") /\ UNCHANGED images
    /\ unchangedCaller
    /\ UNCHANGED <<desc, todo, got, pullLease, content, layers, leases>>

\* The config of this platform's image, which RootFS reads for its diffIDs.
ManifestOf(b) == IF b.type = "index" THEN CHOOSE m \in b.matching : TRUE ELSE b
Readable(b) == {b, ManifestOf(b), ManifestOf(b).config} \subseteq content
ChainOf(b, snapshotter) == <<ManifestOf(b).config.diffIDs, snapshotter>>

\* Layers that some snapshot has already are not applied again.
Unpack ==
    /\ pc = "unpack"
    /\ LET chain == ChainOf(desc, Snapshotter)
           present == Readable(desc) /\ Range(ManifestOf(desc).layers) \subseteq content
       IN  \/ /\ present /\ chain \notin unpacked
              /\ unpacked' = unpacked \union {chain}
              /\ leases' = Hold(pullLease, "unpacked", {chain})
              /\ GoOn("label")
           \/ present /\ chain \in unpacked /\ GoOn("release") /\ UNCHANGED <<unpacked, leases>>
           \/ ~present /\ FailPull("refused") /\ UNCHANGED <<unpacked, leases>>
           \/ Fails("unpack") /\ FailPull("failed") /\ UNCHANGED <<unpacked, leases>>
    /\ unchangedCaller
    /\ UNCHANGED <<desc, todo, got, pullLease, blobs, snapshotRefs>>

\* Only layers applied by this Unpack are tied to the image's config.
LabelConfig ==
    /\ pc = "label"
    /\ \/ /\ snapshotRefs' = snapshotRefs \union
                               {<<ManifestOf(desc).config, ChainOf(desc, Snapshotter)>>}
          /\ GoOn("release")
       \/ Fails("label") /\ FailPull("failed") /\ UNCHANGED snapshotRefs
    /\ unchangedCaller
    /\ UNCHANGED <<desc, todo, got, pullLease, blobs, unpacked, leases>>

PullImage ==
    \/ WithLease \/ Resolve \/ Dispatch \/ WriteManifest \/ WriteConfig \/ RecordImage
    \/ Unpack \/ LabelConfig
=============================================================================
