------------------------- MODULE ImageStore_proofs -------------------------
(* The inductive invariant of ImageStore. A pull's lease holds whatever the *)
(* pull has written or found, so that the collector takes nothing of it     *)
(* before RecordImage names it; the client's lease, which outlives every    *)
(* pull, holds the snapshots.                                               *)
EXTENDS ImageStore, Selection_proofs

PullPcs == {"resolve", "dispatch", "convert", "config", "record", "unpack", "label", "release"}

IsHolding(r) ==
    r = [content |-> r.content, unpacked |-> r.unpacked, containers |-> r.containers]

AreHoldings(L) == L = [l \in DOMAIN L |-> L[l]] /\ \A l \in DOMAIN L : IsHolding(L[l])

\* The client's lease outlives the pull's, which holds no snapshot.
LeaseInv ==
    /\ err \in {"none", "failed", "refused"}
    /\ DOMAIN leases \subseteq LeaseIds
    /\ AreHoldings(leases)
    /\ pc \notin {"off", "client"} => clientLease \in DOMAIN leases
    /\ pc \notin PullPcs => pullLease = "none"
    /\ pc \in PullPcs \ {"release"} => pullLease # "none"
    /\ pullLease # "none" =>
          /\ pullLease \in DOMAIN leases \ {clientLease}
          /\ leases[pullLease].containers = {}
          /\ leases[pullLease].content \subseteq content

SnapshotInv == \A c \in DOMAIN snapshots : \E l \in DOMAIN leases : c \in leases[l].containers

\* What the loop over the listed containers has prepared.
LoopInv ==
    /\ DOMAIN snapshots \subseteq Containers
    /\ k \in Nat \ {0}
    /\ pc \in {"client", "list"} => k = 1
    /\ pc \notin {"off", "client", "list"} => listed \in ListingsOf(Containers)
    /\ pc \in PullPcs \union {"pull", "clear", "snapshot"} => k <= Len(listed)
    /\ pc \in {"prepare", "clear", "snapshot"} => mode = "prepare"
    /\ pc = "inspect" => mode # "prepare"
    /\ pc \notin {"off", "client", "list"} /\ mode = "prepare" =>
          \A i \in DOMAIN listed : i < k => listed[i] \in DOMAIN snapshots
    /\ pc # "off" => outcome = "none"
    /\ AllPrepared

NameInv ==
    /\ name \in Refs
    /\ \A n \in DOMAIN images : n \in Refs /\ StoredName(n) = n

held == leases[pullLease].content

\* What a blob needs to be read as an image.
Needs(b) == IF b.type = "index" THEN b.matching ELSE {b.config}

DispatchInv ==
    /\ IsImage(desc) \/ desc.type = "schema1"
    /\ IsImage(desc) => desc \in todo \union held
    /\ \A b \in todo : IsLeaf(b) \/ IsImage(b) \/ b.type = "schema1"
    /\ \A b \in got : b \in held /\ IsImage(b)
    /\ \A b \in held : b.type \in Parents =>
          IsImage(b) /\ (b \notin got => Needs(b) \subseteq todo \union held)

PullInv ==
    /\ \A n \in DOMAIN images : IsImage(images[n])
    /\ ImagesReadable
    /\ pc \notin PullPcs \/ pc = "resolve" => todo = {} /\ got = {}
    /\ pc = "resolve" => held = {}
    /\ pc = "dispatch" => DispatchInv
    /\ pc = "config" => IsManifest(desc) /\ desc \in held
    /\ pc = "record" =>
          IsImage(desc) /\ {desc, ManifestOf(desc), ManifestOf(desc).config} \subseteq held

stored == StoredName(name)

PullingPcs == PullPcs \ {"release"}
FirstNames == {Head(RepoTags[c] \o RepoDigests[c]) : c \in Containers}

\* Whom a pull serves.
CallerInv ==
    /\ mode \in Modes \/ pc = "off"
    /\ mode = "prepare" /\ pc \in {"pull", "clear", "snapshot"} \union PullPcs =>
          name \in pulled /\ name = ImageName[listed[k]]
    /\ mode # "prepare" /\ pc \in {"pull"} \union (PullingPcs \ {"unpack", "label"}) =>
          name \in FirstNames \ DOMAIN images

\* What the reference stands for, before and after the conversion.
DescInv ==
    /\ pc \in PullingPcs \ {"resolve"} => stored \in DOMAIN Registry
    /\ pc \in {"dispatch", "convert"} => desc \in Registry[stored]
    /\ pc = "dispatch" => \A b \in todo : b.type = "schema1" => b = desc
    /\ pc = "dispatch" /\ desc.type = "schema1" => desc \in todo \/ WellFormed(desc)
    /\ pc = "convert" => desc.type = "schema1" /\ WellFormed(desc)
    /\ pc \in {"config", "record", "unpack", "label"} => desc \in PulledAs(stored, ~manifestOnly)
    /\ pc \in {"unpack", "label"} =>
          ~manifestOnly /\ stored \in DOMAIN images /\ images[stored] = desc

StoreInv == LeaseInv /\ SnapshotInv /\ LoopInv /\ NameInv /\ PullInv /\ CallerInv /\ DescInv

-----------------------------------------------------------------------------
(* The leases. *)

unchangedLeases == UNCHANGED <<leases, pullLease, clientLease>>

Gain(r, kind, S) == [r EXCEPT ![kind] = @ \union S]

LEMMA HolderGains ==
    ASSUME NEW r, IsHolding(r), NEW S, NEW kind \in {"content", "unpacked", "containers"},
           NEW n, n = Gain(r, kind, S)
    PROVE  /\ IsHolding(n)
           /\ n[kind] = r[kind] \union S
           /\ kind # "containers" => n.containers = r.containers
           /\ kind # "content" => n.content = r.content
           /\ kind # "unpacked" => n.unpacked = r.unpacked
<1>1. PICK a, b, c : r = [content |-> a, unpacked |-> b, containers |-> c]
    BY DEF IsHolding
<1>2. CASE kind = "content"
  <2>1. n = [content |-> a \union S, unpacked |-> b, containers |-> c]
      BY <1>1, <1>2 DEF Gain
  <2> QED
      BY <1>1, <1>2, <2>1 DEF IsHolding
<1>3. CASE kind = "unpacked"
  <2>1. n = [content |-> a, unpacked |-> b \union S, containers |-> c]
      BY <1>1, <1>3 DEF Gain
  <2> QED
      BY <1>1, <1>3, <2>1 DEF IsHolding
<1>4. CASE kind = "containers"
  <2>1. n = [content |-> a, unpacked |-> b, containers |-> c \union S]
      BY <1>1, <1>4 DEF Gain
  <2> QED
      BY <1>1, <1>4, <2>1 DEF IsHolding
<1> QED
    BY <1>2, <1>3, <1>4

\* What it means to hold more, or to have a new lease.
LEMMA HoldMore ==
    ASSUME AreHoldings(leases), NEW l \in DOMAIN leases, NEW S,
           NEW kind \in {"content", "unpacked", "containers"}, leases' = Hold(l, kind, S)
    PROVE  /\ DOMAIN leases' = DOMAIN leases
           /\ AreHoldings(leases')
           /\ \A m \in DOMAIN leases' :
                 /\ leases[m].containers \subseteq leases'[m].containers
                 /\ kind # "containers" \/ m # l => leases'[m].containers = leases[m].containers
                 /\ kind # "content" \/ m # l => leases'[m].content = leases[m].content
                 /\ kind # "unpacked" \/ m # l => leases'[m].unpacked = leases[m].unpacked
           /\ leases'[l][kind] = leases[l][kind] \union S
<1> DEFINE new == Gain(leases[l], kind, S)
<1>1. /\ leases = [m \in DOMAIN leases |-> leases[m]]
      /\ \A m \in DOMAIN leases : IsHolding(leases[m])
    BY DEF AreHoldings
<1>2. new = Gain(leases[l], kind, S)
    OBVIOUS
<1> HIDE DEF new
<1>3. leases' = [m \in DOMAIN leases |-> IF m = l THEN new ELSE leases[m]]
    BY <1>1, <1>2 DEF Hold, Gain
<1>4. /\ IsHolding(new)
      /\ new[kind] = leases[l][kind] \union S
      /\ kind # "containers" => new.containers = leases[l].containers
      /\ kind # "content" => new.content = leases[l].content
      /\ kind # "unpacked" => new.unpacked = leases[l].unpacked
  <2>1. IsHolding(leases[l])
      BY <1>1
  <2> QED
      BY <2>1, <1>2, HolderGains
<1>5. leases[l].containers \subseteq new.containers
  <2>1. CASE kind = "containers"
    <3>1. new.containers = leases[l].containers \union S
        BY <1>4, <2>1
    <3> QED
        BY <3>1
  <2> QED
      BY <1>4, <2>1
<1> QED
    BY <1>1, <1>3, <1>4, <1>5 DEF AreHoldings

LEMMA NewLease ==
    ASSUME AreHoldings(leases), NEW l \in LeaseIds \ DOMAIN leases,
           leases' = With(leases, l, NoHold)
    PROVE  /\ DOMAIN leases' = DOMAIN leases \union {l}
           /\ AreHoldings(leases')
           /\ leases'[l] = [content |-> {}, unpacked |-> {}, containers |-> {}]
           /\ \A m \in DOMAIN leases : leases'[m] = leases[m]
BY DEF AreHoldings, With, NoHold, IsHolding

LEMMA ReachableIncludes ==
    ASSUME NEW S
    PROVE  /\ S \subseteq Reachable(S)
           /\ \A b \in S : \A m \in b.refs : m \in Reachable(S) /\ m.refs \subseteq Reachable(S)
BY DEF Reachable

LEMMA LeaseStep ==
    ASSUME LeaseInv, Next
    PROVE  LeaseInv'
<1> USE DEF LeaseInv, PullPcs, memory, pull, containerd, blobs, layers, Goto, Return, Continue,
            GoOn, FailPull, unchangedCaller
<1>1. CASE StartRun
    BY <1>1 DEF StartRun
<1>2. CASE NewClient
  <2>1. CASE leases # <<>> /\ clientLease' \in DOMAIN leases /\ UNCHANGED leases
      BY <1>2, <2>1 DEF NewClient, NewCtrdClient
  <2>2. CASE /\ leases = <<>>
             /\ clientLease' \in LeaseIds
             /\ leases' = With(leases, clientLease', NoHold)
    <3>1. DOMAIN leases = {}
        BY <2>2
    <3>2. /\ DOMAIN leases' = {clientLease'}
          /\ AreHoldings(leases')
      <4> DEFINE l == clientLease'
      <4>1. l \in LeaseIds \ DOMAIN leases /\ leases' = With(leases, l, NoHold)
          BY <2>2, <3>1
      <4>2. AreHoldings(leases)
          OBVIOUS
      <4> HIDE DEF l
      <4>3. DOMAIN leases' = DOMAIN leases \union {l} /\ AreHoldings(leases')
          BY ONLY <4>1, <4>2, NewLease
      <4> QED
          BY <3>1, <4>3 DEF l
    <3> QED
        BY <1>2, <2>2, <3>1, <3>2 DEF NewClient, NewCtrdClient
  <2>3. CASE pc' = "off" /\ UNCHANGED <<clientLease, leases>>
      BY <1>2, <2>3 DEF NewClient
  <2> QED
      BY <1>2, <2>1, <2>2, <2>3 DEF NewClient, NewCtrdClient
<1>3. CASE ListContainers
    BY <1>3 DEF ListContainers
<1>4. CASE InspectImage
    BY <1>4 DEF InspectImage
<1>5. CASE DoPrepare
    BY <1>5 DEF DoPrepare
<1>6. CASE EndOfContainers
    BY <1>6 DEF EndOfContainers
<1>7. CASE WithLease
  <2>1. CASE pc' = "release" /\ UNCHANGED <<leases, pullLease>>
      BY <1>7, <2>1 DEF WithLease
  <2>2. ASSUME NEW l \in LeaseIds \ DOMAIN leases, leases' = With(leases, l, NoHold),
               pullLease' = l, pc' = "resolve"
        PROVE  LeaseInv'
    <3>1. /\ DOMAIN leases' = DOMAIN leases \union {l}
          /\ AreHoldings(leases')
          /\ leases'[l].containers = {} /\ leases'[l].content = {}
          /\ \A m \in DOMAIN leases : leases'[m] = leases[m]
        BY <2>2, NewLease DEF IsHolding
    <3> QED
        BY <1>7, <2>2, <3>1, LeaseAssumption DEF WithLease
  <2> QED
      BY <1>7, <2>1, <2>2 DEF WithLease
<1>8. CASE Resolve
    BY <1>8 DEF Resolve
<1>9. CASE Dispatch
  <2>1. CASE \E b \in todo : FetchBlob(b)
    <3>1. PICK b \in todo : FetchBlob(b)
        BY <2>1
    <3>2. /\ leases' = Hold(pullLease, "content", {b}) /\ pullLease \in DOMAIN leases
          /\ content' = content \union {b}
          /\ pc = "dispatch" /\ pc' = pc /\ err' = err
          /\ pullLease' = pullLease /\ clientLease' = clientLease
        BY <1>9, <3>1 DEF Dispatch, FetchBlob, Store
    <3>3. /\ DOMAIN leases' = DOMAIN leases /\ AreHoldings(leases')
          /\ leases'[pullLease].containers = leases[pullLease].containers
          /\ leases'[pullLease].content = leases[pullLease].content \union {b}
      <4>1. AreHoldings(leases)
          OBVIOUS
      <4> HIDE DEF LeaseInv
      <4> QED
          BY <3>2, <4>1, HoldMore
    <3> QED
        BY <3>2, <3>3
  <2>2. CASE \E b \in todo : HandleSchema1(b)
      BY <1>9, <2>2 DEF Dispatch, HandleSchema1
  <2>3. CASE \E b \in got : ReadChildren(b)
      BY <1>9, <2>3 DEF Dispatch, ReadChildren
  <2> QED
      BY <1>9, <2>1, <2>2, <2>3 DEF Dispatch
<1>10. CASE WriteManifest
    BY <1>10, HoldMore DEF WriteManifest, Store
<1>11. CASE WriteConfig
    BY <1>11, HoldMore DEF WriteConfig, Store
<1>12. CASE RecordImage
    BY <1>12 DEF RecordImage
<1>13. CASE Unpack
    BY <1>13, HoldMore DEF Unpack
<1>14. CASE LabelConfig
    BY <1>14 DEF LabelConfig
<1>15. CASE EndPull
  <2>1. CASE UNCHANGED leases
      BY <1>15, <2>1 DEF EndPull, ForgetPull
  <2>2. CASE leases' = Without(leases, pullLease)
    <3>1. /\ DOMAIN leases' = DOMAIN leases \ {pullLease}
          /\ AreHoldings(leases')
          /\ \A m \in DOMAIN leases' : leases'[m] = leases[m]
        BY <2>2 DEF Without, Restrict, AreHoldings
    <3>2. clientLease \in DOMAIN leases'
        BY <1>15, <3>1, LeaseAssumption DEF EndPull
    <3> QED
        BY <1>15, <3>1, <3>2 DEF EndPull, ForgetPull
  <2> QED
      BY <1>15, <2>1, <2>2 DEF EndPull
<1>16. CASE RemoveSnapshot
    BY <1>16 DEF RemoveSnapshot
<1>17. CASE CreateSnapshot
    BY <1>17, HoldMore DEF CreateSnapshot
<1>18. CASE Crash
    BY <1>18 DEF Crash, ForgetPull
<1>19. CASE CollectGarbage /\ UNCHANGED <<k, listed, pulled, outcome, runs>>
  <2>1. pullLease # "none" => leases[pullLease].content \subseteq content'
    <3>1. SUFFICES ASSUME pullLease # "none"
                   PROVE  leases[pullLease].content \subseteq content'
        OBVIOUS
    <3>2. leases[pullLease].content \subseteq Held("content")
        BY <3>1 DEF Held
    <3>3. leases[pullLease].content \subseteq Reachable(Range(images) \union Held("content"))
        BY <3>2, ReachableIncludes
    <3> QED
        BY <1>19, <3>1, <3>3 DEF CollectGarbage
  <2> QED
      BY <1>19, <2>1 DEF CollectGarbage
<1> QED
    BY <1>1, <1>2, <1>3, <1>4, <1>5, <1>6, <1>7, <1>8, <1>9, <1>10, <1>11, <1>12, <1>13,
       <1>14, <1>15, <1>16, <1>17, <1>18, <1>19
    DEF Next, PrepareImages, PullImage, PrepareSnapshot

\* A snapshot stays held while its container's own lease does.
LEMMA SnapshotStep ==
    ASSUME LeaseInv, SnapshotInv, LeaseInv', Next
    PROVE  /\ SnapshotInv'
           /\ \A c \in DOMAIN snapshots :
                 c \notin DOMAIN snapshots' => pc = "clear" /\ listed[k] = c
<1> USE DEF SnapshotInv, containerd, blobs, layers
<1>1. CASE /\ UNCHANGED snapshots
           /\ \A l \in DOMAIN leases :
                 \/ l \in DOMAIN leases' /\ leases[l].containers \subseteq leases'[l].containers
                 \/ leases[l].containers = {}
    BY <1>1
<1>2. CASE UNCHANGED <<leases, snapshots>>
    BY <1>2
<1>3. CASE NewClient
    BY <1>1, <1>3, NewLease DEF NewClient, NewCtrdClient, LeaseInv, IsHolding
<1>4. CASE WithLease
    BY <1>1, <1>2, <1>4, NewLease DEF WithLease, LeaseInv, unchangedCaller
<1>5. CASE \E b \in todo : Dispatch /\ FetchBlob(b)
    BY <1>1, <1>5, HoldMore DEF Dispatch, FetchBlob, Store, LeaseInv, unchangedCaller, PullPcs
<1>6. CASE WriteManifest
    BY <1>1, <1>2, <1>6, HoldMore
    DEF WriteManifest, Store, LeaseInv, unchangedCaller, PullPcs, FailPull
<1>7. CASE WriteConfig
    BY <1>1, <1>2, <1>7, HoldMore
    DEF WriteConfig, Store, LeaseInv, unchangedCaller, PullPcs, FailPull
<1>8. CASE Unpack
    BY <1>1, <1>2, <1>8, HoldMore DEF Unpack, LeaseInv, unchangedCaller, PullPcs
<1>9. CASE EndPull
    BY <1>1, <1>2, <1>9, LeaseAssumption DEF EndPull, LeaseInv, Without, Restrict
<1>10. CASE RemoveSnapshot
    BY <1>10 DEF RemoveSnapshot, Restrict
<1>11. CASE CreateSnapshot
    BY <1>2, <1>11, HoldMore DEF CreateSnapshot, LeaseInv, With
<1>12. CASE CollectGarbage
    BY <1>12 DEF CollectGarbage, Restrict, Held
<1> QED
  <2>1. \/ StartRun \/ ListContainers \/ InspectImage \/ DoPrepare \/ EndOfContainers
        \/ Resolve \/ RecordImage \/ LabelConfig \/ Crash
        => UNCHANGED <<leases, snapshots>>
      BY DEF StartRun, ListContainers, InspectImage, DoPrepare, EndOfContainers, Resolve,
             RecordImage, LabelConfig, Crash, unchangedCaller
  <2>2. CASE Dispatch
      BY <1>2, <1>5, <2>2 DEF Dispatch, HandleSchema1, ReadChildren, unchangedCaller
  <2> QED
      BY <1>2, <1>3, <1>4, <1>6, <1>7, <1>8, <1>9, <1>10, <1>11, <1>12, <2>1, <2>2
      DEF Next, PrepareImages, PullImage, PrepareSnapshot

-----------------------------------------------------------------------------
(* The names. *)

LEMMA StoredNameCanonical ==
    ASSUME NEW ref \in Refs
    PROVE  StoredName(ref) \in Refs /\ StoredName(StoredName(ref)) = StoredName(ref)
<1> DEFINE full == AddDefaultRegistryIfMissing(ref)
           tagged == WithDefaultTagIfMissing(full)
           trimmed == TrimTagForDigest(tagged)
<1>1. /\ full \in Refs /\ full.registry # ""
      /\ full.registry = "hub" => full.namespace # ""
    BY DEF Refs, AddDefaultRegistryIfMissing
<1> HIDE DEF full
<1>2. /\ tagged \in Refs /\ tagged.registry = full.registry
      /\ tagged.namespace = full.namespace
      /\ tagged.tag # "" \/ tagged.digest # ""
    BY <1>1 DEF Refs, WithDefaultTagIfMissing
<1> HIDE DEF tagged
<1>3. /\ trimmed \in Refs /\ trimmed.registry = full.registry
      /\ trimmed.namespace = full.namespace
      /\ trimmed.digest # "" <=> trimmed.tag = ""
    BY <1>2 DEF Refs, TrimTagForDigest
<1>4. StoredName(ref) = trimmed
    BY DEF StoredName, full, tagged
<1> HIDE DEF trimmed
<1>5. AddDefaultRegistryIfMissing(trimmed) = trimmed
    BY <1>1, <1>3 DEF Refs, AddDefaultRegistryIfMissing
<1>6. WithDefaultTagIfMissing(trimmed) = trimmed /\ TrimTagForDigest(trimmed) = trimmed
    BY <1>3 DEF Refs, WithDefaultTagIfMissing, TrimTagForDigest
<1> QED
    BY <1>3, <1>4, <1>5, <1>6 DEF StoredName

LEMMA ListedContainer ==
    ASSUME LoopInv, pc \in {"inspect", "prepare", "snapshot", "clear"}, k <= Len(listed)
    PROVE  k \in DOMAIN listed /\ listed[k] \in Containers
<1>1. Cardinality(Containers) \in Nat
    BY FS_CardinalityType, ImagesAssumption
<1>2. listed \in [1..Cardinality(Containers) -> Containers]
    BY DEF LoopInv, ListingsOf, Bijection, Injection
<1>3. Len(listed) = Cardinality(Containers)
    BY <1>1, <1>2
<1> QED
    BY <1>1, <1>2, <1>3 DEF LoopInv

LEMMA NameStep ==
    ASSUME LoopInv, NameInv, Next
    PROVE  NameInv'
<1> USE DEF NameInv, containerd, blobs
<1>1. CASE UNCHANGED <<name, images>>
    BY <1>1
<1>2. CASE InspectImage
  <2>1. CASE name' = Head(RepoTags[listed[k]] \o RepoDigests[listed[k]])
    <3>1. /\ RepoTags[listed[k]] \in Seq(Refs) /\ RepoDigests[listed[k]] \in Seq(Refs)
          /\ UNCHANGED images
        BY <1>2, ListedContainer, ImagesAssumption DEF InspectImage
    <3>2. CASE RepoTags[listed[k]] \o RepoDigests[listed[k]] # <<>>
      <4>1. RepoTags[listed[k]] \o RepoDigests[listed[k]] \in Seq(Refs)
          BY <3>1
      <4>2. ASSUME NEW q \in Seq(Refs), q # <<>>
            PROVE  Head(q) \in Refs
          BY <4>2
      <4> QED
          BY <2>1, <3>1, <3>2, <4>1, <4>2
    <3> QED
        BY <1>1, <1>2, <3>1, <3>2 DEF InspectImage
  <2> QED
      BY <1>1, <1>2, <2>1 DEF InspectImage
<1>3. CASE DoPrepare
    BY <1>3, ListedContainer, ImagesAssumption DEF DoPrepare
<1>4. CASE RecordImage
    BY <1>1, <1>4, StoredNameCanonical DEF RecordImage, With, unchangedCaller
<1> QED
  <2>1. \/ StartRun \/ NewClient \/ ListContainers \/ EndOfContainers \/ WithLease \/ Resolve
        \/ Dispatch \/ WriteManifest \/ WriteConfig \/ Unpack \/ LabelConfig \/ EndPull
        \/ RemoveSnapshot \/ CreateSnapshot \/ Crash \/ CollectGarbage
        => UNCHANGED <<name, images>>
      BY DEF StartRun, NewClient, ListContainers, EndOfContainers, WithLease, Resolve, Dispatch,
             FetchBlob, HandleSchema1, ReadChildren, WriteManifest, WriteConfig, Store, Unpack,
             LabelConfig, EndPull, RemoveSnapshot, CreateSnapshot, Crash, CollectGarbage,
             unchangedCaller, memory
  <2> QED
      BY <1>1, <1>2, <1>3, <1>4, <2>1 DEF Next, PrepareImages, PullImage, PrepareSnapshot

LEMMA LoopStep ==
    ASSUME LeaseInv, LoopInv, Next,
           \A c \in DOMAIN snapshots :
              c \notin DOMAIN snapshots' => pc = "clear" /\ listed[k] = c
    PROVE  LoopInv'
<1> USE DEF LoopInv, AllPrepared, PullPcs, memory, pull, containerd, blobs, layers, Goto, Return,
            Continue, GoOn, FailPull, unchangedCaller
<1> DEFINE looping == pc \notin {"off", "client", "list"}
<1>0. looping => /\ \A i \in DOMAIN listed : i \in 1..Len(listed)
                 /\ listed \in [1..Len(listed) -> Containers]
                 /\ \A c \in Containers : \E i \in DOMAIN listed : listed[i] = c
                 /\ \A i, j \in DOMAIN listed : listed[i] = listed[j] => i = j
  <2>1. Cardinality(Containers) \in Nat
      BY FS_CardinalityType, ImagesAssumption
  <2>2. looping => listed \in [1..Cardinality(Containers) -> Containers]
      BY DEF ListingsOf, Bijection, Injection
  <2>3. looping => Len(listed) = Cardinality(Containers)
      BY <2>1, <2>2
  <2> QED
      BY <2>1, <2>2, <2>3 DEF ListingsOf, Bijection, Injection, Surjection, IsInjective
<1>1. CASE StartRun
    BY <1>1 DEF StartRun
<1>2. CASE NewClient
    BY <1>2 DEF NewClient, NewCtrdClient
<1>3. CASE ListContainers
    BY <1>3 DEF ListContainers
<1>4. CASE InspectImage
  <2>1. /\ pc = "inspect" /\ k <= Len(listed) /\ mode # "prepare"
        /\ UNCHANGED <<mode, listed, snapshots>>
        /\ \/ pc' = "inspect" /\ k' = k + 1 /\ outcome' = outcome
           \/ pc' = "pull" /\ k' = k /\ outcome' = outcome
           \/ pc' = "off" /\ k' = k /\ outcome' \in {"failed", "refused"}
      BY <1>4 DEF InspectImage
  <2> QED
      BY <2>1
<1>5. CASE DoPrepare
    BY <1>5 DEF DoPrepare
<1>6. CASE EndOfContainers
    BY <1>0, <1>6 DEF EndOfContainers
<1>7. CASE PullImage /\ UNCHANGED <<k, listed, pulled, outcome, runs>>
    BY <1>7 DEF PullImage, WithLease, Resolve, Dispatch, WriteManifest, WriteConfig, RecordImage,
                Unpack, LabelConfig, FetchBlob, HandleSchema1, ReadChildren
<1>8. CASE EndPull
    BY <1>0, <1>8 DEF EndPull, ForgetPull, LeaseInv
<1>9. CASE RemoveSnapshot
    BY <1>0, <1>9 DEF RemoveSnapshot, Restrict
<1>10. CASE CreateSnapshot
    BY <1>0, <1>10 DEF CreateSnapshot, With
<1>11. CASE Crash
    BY <1>11 DEF Crash, ForgetPull
<1>12. CASE CollectGarbage /\ UNCHANGED <<k, listed, pulled, outcome, runs>>
  <2>1. DOMAIN snapshots' \subseteq DOMAIN snapshots
      BY <1>12 DEF CollectGarbage, Restrict
  <2>2. CASE pc # "clear"
    <3>1. DOMAIN snapshots' = DOMAIN snapshots
        BY <2>1, <2>2
    <3> QED
        BY <1>12, <3>1 DEF CollectGarbage
  <2>3. CASE pc = "clear"
    <3>1. \A i \in DOMAIN listed : i < k => listed[i] \in DOMAIN snapshots'
        BY <1>0, <2>3
    <3> QED
        BY <1>12, <2>1, <2>3, <3>1 DEF CollectGarbage
  <2> QED
      BY <2>2, <2>3
<1> QED
    BY <1>1, <1>2, <1>3, <1>4, <1>5, <1>6, <1>7, <1>8, <1>9, <1>10, <1>11, <1>12
    DEF Next, PrepareImages, PrepareSnapshot

-----------------------------------------------------------------------------
(* The content. *)

LEMMA ImageParts ==
    ASSUME NEW b, IsImage(b)
    PROVE  /\ b.type \in Parents
           /\ Needs(b) \subseteq Children(b)
           /\ \A m \in Children(b) : m.type # "schema1" /\ (IsLeaf(m) \/ IsImage(m))
<1>1. CASE IsManifest(b)
    BY <1>1 DEF IsImage, IsManifest, IsLeaf, Needs, Children, Parents, Range
<1>2. CASE IsIndex(b)
    BY <1>2 DEF IsImage, IsIndex, IsManifest, Needs, Children, Parents
<1> QED
    BY <1>1, <1>2 DEF IsImage

LEMMA ImageManifest ==
    ASSUME NEW b, IsImage(b)
    PROVE  /\ ManifestOf(b) \in {b} \union Needs(b)
           /\ ManifestOf(b) \in {b} \union b.refs
           /\ IsManifest(ManifestOf(b))
           /\ Needs(ManifestOf(b)) = {ManifestOf(b).config}
<1>1. CASE IsManifest(b)
    BY <1>1 DEF IsManifest, ManifestOf, Needs
<1>2. CASE IsIndex(b)
  <2>1. ManifestOf(b) \in b.matching
      BY <1>2 DEF IsIndex, ManifestOf
  <2> QED
      BY <1>2, <2>1 DEF IsIndex, IsManifest, Needs
<1> QED
    BY <1>1, <1>2 DEF IsImage

LEMMA RegisteredBlobs ==
    ASSUME NEW n \in DOMAIN Registry, NEW b \in Registry[n]
    PROVE  /\ IsImage(b) \/ b.type = "schema1"
           /\ b.type = "schema1" => IsSchema1(b)
           /\ b.type = "manifest" => NoHistory(b)
           /\ b.type = "index" => \A m \in b.matching : NoHistory(m)
<1>1. b \in UNION Range(Registry)
    BY DEF Range
<1>2. CASE IsSchema1(b)
    BY <1>2 DEF IsSchema1
<1>3. CASE IsManifest(b) /\ NoHistory(b)
    BY <1>3 DEF IsManifest, IsImage
<1>4. CASE IsIndex(b) /\ \A m \in b.matching : NoHistory(m)
    BY <1>4 DEF IsIndex, IsImage
<1> QED
    BY <1>1, <1>2, <1>3, <1>4, RegistryAssumption

LEMMA ConvertedIsManifest ==
    ASSUME NEW m, NEW fetched
    PROVE  IsManifest(Convert(m, fetched))
<1> DEFINE new == Convert(m, fetched)
<1>1. PICK history, diffIDs : new.config = Config(history, diffIDs)
    BY DEF Convert, Manifest
<1>2. new.type = "manifest" /\ new.refs = {new.config} \union Range(new.layers)
    BY DEF Convert, Manifest
<1>3. \A layer \in Range(new.layers) : layer = NoBlob \/ \E sum : layer = Layer(sum)
    BY DEF Convert, Manifest, Range
<1> HIDE DEF new
<1>4. IsLeaf(new.config)
    BY <1>1 DEF Config, IsLeaf, Parents
<1>5. \A layer \in Range(new.layers) : IsLeaf(layer)
    BY <1>3 DEF Layer, NoBlob, IsLeaf, Parents
<1> QED
    BY <1>2, <1>4, <1>5 DEF IsManifest, new

LEMMA PullStep ==
    ASSUME LeaseInv, PullInv, Next, LeaseInv'
    PROVE  PullInv'
<1> USE DEF PullInv, ImagesReadable, PullPcs, memory, pull, containerd, blobs, layers, Goto,
            Return, Continue, GoOn, FailPull, unchangedCaller
<1>0. AreHoldings(leases)
    BY DEF LeaseInv
<1>1. ASSUME UNCHANGED images, content \subseteq content'
      PROVE  \A n \in DOMAIN images' : IsImage(images[n])' /\ Readable(images[n])'
    BY <1>1 DEF Readable
<1>2. ASSUME UNCHANGED <<content, images>>, pc' \notin {"resolve", "dispatch", "config", "record"},
             pc' \in PullPcs \/ (todo' = {} /\ got' = {})
      PROVE  PullInv'
    BY <1>1, <1>2
<1>3. CASE WithLease
  <2>1. CASE pc' = "release" /\ UNCHANGED <<content, images>>
      BY <1>2, <2>1
  <2>2. ASSUME NEW l \in LeaseIds \ DOMAIN leases, leases' = With(leases, l, NoHold),
               pullLease' = l, pc' = "resolve"
        PROVE  PullInv'
    <3>1. leases'[l].content = {}
      <4>1. leases'[l] = [content |-> {}, unpacked |-> {}, containers |-> {}]
          BY <1>0, <2>2, NewLease
      <4> QED
          BY <4>1
    <3> QED
        BY <1>1, <1>3, <2>2, <3>1 DEF WithLease, held
  <2> QED
      BY <1>3, <2>1, <2>2 DEF WithLease
<1>4. CASE Resolve
  <2>1. CASE pc' = "release"
      BY <1>2, <1>4, <2>1 DEF Resolve
  <2>2. CASE pc' = "dispatch"
    <3>1. PICK b \in Registry[stored] :
                 stored \in DOMAIN Registry /\ desc' = b /\ todo' = {b} /\ got' = {} /\ held' = {}
        BY <1>4, <2>2 DEF Resolve, stored, held
    <3>2. IsImage(b) \/ b.type = "schema1"
        BY <3>1, RegisteredBlobs
    <3>3. DispatchInv'
        BY <3>1, <3>2 DEF DispatchInv
    <3> QED
        BY <1>1, <1>4, <2>2, <3>3 DEF Resolve
  <2> QED
      BY <1>4, <2>1, <2>2 DEF Resolve
<1>5. CASE Dispatch
  <2>0. DispatchInv /\ pullLease \in DOMAIN leases /\ pc = "dispatch"
      BY <1>5 DEF Dispatch, LeaseInv
  <2>1. ASSUME NEW b \in todo, FetchBlob(b)
        PROVE  PullInv'
    <3>1. /\ leases' = Hold(pullLease, "content", {b})
          /\ content' = content \union {b}
          /\ todo' = todo \ {b}
          /\ got' = IF b.type \in Parents THEN got \union {b} ELSE got
          /\ b.type # "schema1"
          /\ UNCHANGED <<pc, desc, images, pullLease>>
        BY <2>1 DEF FetchBlob, Store
    <3>2. held' = held \union {b}
        BY <1>0, <2>0, <3>1, HoldMore DEF held
    <3>3. b.type \in Parents => IsImage(b)
        BY <2>0, <2>1, <3>1 DEF DispatchInv, IsLeaf
    <3>4. DispatchInv'
        BY <2>0, <2>1, <3>1, <3>2, <3>3 DEF DispatchInv
    <3> QED
        BY <1>1, <2>0, <3>1, <3>4
  <2>2. ASSUME NEW b \in todo, HandleSchema1(b)
        PROVE  PullInv'
    <3>1. CASE pc' = "release"
        BY <1>2, <1>5, <2>2, <3>1 DEF Dispatch, HandleSchema1
    <3>2. CASE UNCHANGED pc
      <4>1. /\ b.type = "schema1"
            /\ \A x \in todo : x \in todo' \/ x = b
            /\ \A x \in todo' : x \in todo \/ IsLeaf(x)
            /\ UNCHANGED <<got, desc, leases, pullLease, images, content>>
          BY <2>0, <2>2, <3>2 DEF HandleSchema1, Layer, IsLeaf, Parents
      <4>2. UNCHANGED held
          BY <4>1 DEF held
      <4>3. \A x : IsImage(x) => x # b /\ b \notin Needs(x)
          BY <4>1, ImageParts DEF Parents
      <4>4. DispatchInv'
          BY <2>0, <4>1, <4>2, <4>3 DEF DispatchInv
      <4> QED
          BY <1>1, <2>0, <3>2, <4>1, <4>4
    <3> QED
        BY <2>2, <3>1, <3>2 DEF HandleSchema1
  <2>3. ASSUME NEW b \in got, ReadChildren(b)
        PROVE  PullInv'
    <3>1. CASE pc' = "release"
        BY <1>2, <1>5, <2>3, <3>1 DEF Dispatch, ReadChildren
    <3>2. CASE UNCHANGED pc
      <4>1. /\ got' = got \ {b}
            /\ todo' = todo \union Children(b)
            /\ UNCHANGED <<desc, leases, pullLease, images, content>>
          BY <2>0, <2>3, <3>2 DEF ReadChildren
      <4>2. UNCHANGED held
          BY <4>1 DEF held
      <4>3. /\ IsImage(b) /\ Needs(b) \subseteq Children(b)
            /\ \A m \in Children(b) : IsLeaf(m) \/ IsImage(m)
          BY <2>0, <2>3, ImageParts DEF DispatchInv
      <4>4. DispatchInv'
          BY <2>0, <4>1, <4>2, <4>3 DEF DispatchInv
      <4> QED
          BY <1>1, <2>0, <3>2, <4>1, <4>4
    <3> QED
        BY <2>3, <3>1, <3>2 DEF ReadChildren
  <2>4. CASE pc' = "release" /\ UNCHANGED <<blobs, layers, leases>>
      BY <1>2, <2>4
  <2>5. CASE /\ todo = {} /\ got = {} /\ UNCHANGED <<pull, blobs, layers, leases>>
             /\ GoOn(IF desc.type = "schema1" THEN "convert" ELSE "record")
    <3>1. CASE desc.type = "schema1"
        BY <1>2, <2>5, <3>1
    <3>2. CASE desc.type # "schema1"
      <4>1. IsImage(desc) /\ desc \in held
          BY <2>0, <2>5, <3>2 DEF DispatchInv
      <4>2. \A b \in held : IsImage(b) => Needs(b) \subseteq held
          BY <2>0, <2>5, ImageParts DEF DispatchInv
      <4>3. ManifestOf(desc) \in held
          BY <4>1, <4>2, ImageManifest
      <4>4. ManifestOf(desc).config \in held
          BY <4>1, <4>2, <4>3, ImageManifest DEF IsImage
      <4>5. UNCHANGED <<held, desc, images, content>> /\ pc' = "record"
          BY <2>5, <3>2 DEF held
      <4> QED
          BY <1>1, <4>1, <4>3, <4>4, <4>5
    <3> QED
        BY <3>1, <3>2
  <2> QED
      BY <1>5, <2>1, <2>2, <2>3, <2>4, <2>5 DEF Dispatch
<1>6. CASE WriteManifest
  <2>1. CASE pc' = "release"
      BY <1>2, <1>6, <2>1 DEF WriteManifest
  <2>2. CASE pc' = "config"
    <3>1. /\ IsManifest(desc') /\ pullLease \in DOMAIN leases
          /\ leases' = Hold(pullLease, "content", {desc'})
          /\ content' = content \union {desc'}
          /\ UNCHANGED <<images, pullLease>>
        BY <1>6, <2>2, ConvertedIsManifest DEF WriteManifest, Store, LeaseInv
    <3>2. desc' \in held'
        BY <1>0, <3>1, HoldMore DEF held
    <3> QED
        BY <1>1, <2>2, <3>1, <3>2
  <2> QED
      BY <1>6, <2>1, <2>2 DEF WriteManifest
<1>7. CASE WriteConfig
  <2>1. CASE pc' = "release"
      BY <1>2, <1>7, <2>1 DEF WriteConfig
  <2>2. CASE pc' = "record"
    <3>1. /\ IsManifest(desc) /\ desc \in held /\ pullLease \in DOMAIN leases
          /\ leases' = Hold(pullLease, "content", {desc.config})
          /\ content' = content \union {desc.config}
          /\ UNCHANGED <<desc, images, pullLease>>
        BY <1>7, <2>2 DEF WriteConfig, Store, LeaseInv
    <3>2. held' = held \union {desc.config}
        BY <1>0, <3>1, HoldMore DEF held
    <3>3. ManifestOf(desc) = desc /\ IsImage(desc)
        BY <3>1 DEF ManifestOf, IsManifest, IsImage
    <3> QED
        BY <1>1, <2>2, <3>1, <3>2, <3>3
  <2> QED
      BY <1>7, <2>1, <2>2 DEF WriteConfig
<1>8. CASE RecordImage
  <2>1. CASE UNCHANGED images
      BY <1>2, <1>8, <2>1 DEF RecordImage
  <2>2. CASE images' = With(images, StoredName(name), desc)
    <3>1. IsImage(desc) /\ Readable(desc)
        BY <1>8 DEF RecordImage, LeaseInv, Readable, held
    <3>2. UNCHANGED content
        BY <1>8 DEF RecordImage
    <3>3. \A n \in DOMAIN images' : IsImage(images[n])' /\ Readable(images[n])'
        BY <2>2, <3>1, <3>2 DEF With, Readable
    <3> QED
        BY <1>8, <3>3 DEF RecordImage
  <2> QED
      BY <1>8, <2>1, <2>2 DEF RecordImage
<1>9. CASE CollectGarbage /\ UNCHANGED <<k, listed, pulled, outcome, runs>>
  <2>1. ASSUME NEW n \in DOMAIN images
        PROVE  Readable(images[n])'
    <3> DEFINE b == images[n]
    <3>1. b \in Range(images) /\ IsImage(b) /\ Readable(b)
        BY DEF Range
    <3>2. ManifestOf(b) \in {b} \union b.refs /\ ManifestOf(b).config \in ManifestOf(b).refs
        BY <3>1, ImageManifest DEF IsManifest
    <3>3. {b, ManifestOf(b), ManifestOf(b).config}
             \subseteq Reachable(Range(images) \union Held("content"))
        BY <3>1, <3>2, ReachableIncludes
    <3> QED
        BY <1>9, <3>1, <3>3 DEF CollectGarbage, Readable
  <2>2. UNCHANGED held
      BY <1>9 DEF CollectGarbage, held
  <2> QED
      BY <1>9, <2>1, <2>2 DEF CollectGarbage, DispatchInv
<1>10. CASE PullImage /\ (Unpack \/ LabelConfig)
    BY <1>2, <1>10 DEF Unpack, LabelConfig
<1> QED
  <2>1. \/ StartRun \/ NewClient \/ ListContainers \/ InspectImage \/ DoPrepare
        \/ EndOfContainers \/ EndPull \/ RemoveSnapshot \/ CreateSnapshot \/ Crash
        => /\ UNCHANGED <<content, images>>
           /\ pc' \notin {"resolve", "dispatch", "config", "record"}
           /\ pc' \in PullPcs \/ (todo' = {} /\ got' = {})
      BY DEF StartRun, NewClient, NewCtrdClient, ListContainers, InspectImage, DoPrepare,
             EndOfContainers, EndPull, ForgetPull, RemoveSnapshot, CreateSnapshot, Crash
  <2> QED
      BY <1>2, <1>3, <1>4, <1>5, <1>6, <1>7, <1>8, <1>9, <1>10, <2>1
      DEF Next, PrepareImages, PullImage, PrepareSnapshot

-----------------------------------------------------------------------------
(* Who asks for a pull, and what it works on. *)

LEMMA CallerStep ==
    ASSUME LoopInv, CallerInv, Next
    PROVE  CallerInv'
<1> USE DEF CallerInv, PullPcs, PullingPcs, memory, pull, containerd, blobs, layers, Goto, Return,
            Continue, GoOn, FailPull, unchangedCaller
<1>1. CASE StartRun
    BY <1>1 DEF StartRun
<1>2. CASE NewClient \/ ListContainers \/ EndOfContainers \/ RemoveSnapshot \/ CreateSnapshot
    BY <1>2 DEF NewClient, NewCtrdClient, ListContainers, EndOfContainers, RemoveSnapshot,
                CreateSnapshot
<1>3. CASE InspectImage
  <2>1. /\ mode # "prepare" /\ listed[k] \in Containers
        /\ UNCHANGED <<mode, images>> /\ pc = "inspect"
        /\ \/ pc' \in {"inspect", "prepare", "off"}
           \/ /\ pc' = "pull"
              /\ name' = Head(RepoTags[listed[k]] \o RepoDigests[listed[k]])
              /\ name' \notin DOMAIN images
      BY <1>3, ListedContainer DEF InspectImage, LoopInv
  <2> QED
      BY <2>1 DEF FirstNames
<1>4. CASE DoPrepare
    BY <1>4 DEF DoPrepare, LoopInv
<1>5. CASE PullImage /\ UNCHANGED <<k, listed, pulled, outcome, runs>>
  <2>1. UNCHANGED <<mode, name, k, listed, pulled>> /\ pc \in {"pull"} \union PullPcs
      BY <1>5 DEF PullImage, WithLease, Resolve, Dispatch, WriteManifest, WriteConfig,
                  RecordImage, Unpack, LabelConfig
  <2>2. CASE RecordImage
      BY <2>1, <2>2 DEF RecordImage
  <2>3. CASE Unpack \/ LabelConfig
      BY <2>1, <2>3 DEF Unpack, LabelConfig
  <2>4. CASE WithLease \/ Resolve \/ Dispatch \/ WriteManifest \/ WriteConfig
    <3>1. /\ UNCHANGED images /\ pc \notin {"unpack", "label", "release"}
          /\ pc' \in {"release"} \union PullingPcs
        BY <2>4 DEF WithLease, Resolve, Dispatch, FetchBlob, HandleSchema1, ReadChildren,
                    WriteManifest, WriteConfig, Store
    <3> QED
        BY <2>1, <3>1
  <2> QED
      BY <1>5, <2>2, <2>3, <2>4 DEF PullImage
<1>6. CASE EndPull
    BY <1>6 DEF EndPull, ForgetPull
<1>7. CASE Crash
    BY <1>7 DEF Crash, ForgetPull
<1>8. CASE CollectGarbage /\ UNCHANGED <<k, listed, pulled, outcome, runs>>
    BY <1>8 DEF CollectGarbage
<1> QED
    BY <1>1, <1>2, <1>3, <1>4, <1>5, <1>6, <1>7, <1>8 DEF Next, PrepareImages, PrepareSnapshot

LEMMA PulledAreImages ==
    ASSUME NEW n, NEW fetched, NEW b \in PulledAs(n, fetched)
    PROVE  IsImage(b)
BY ConvertedIsManifest DEF PulledAs, IsImage

LEMMA PulledConverted ==
    ASSUME NEW n, NEW fetched, NEW b \in Registry[n], b.type = "schema1", WellFormed(b),
           b.history # <<>>
    PROVE  Convert(b, fetched) \in PulledAs(n, fetched)
BY DEF PulledAs

LEMMA DescStep ==
    ASSUME LeaseInv, PullInv, CallerInv, DescInv, Next
    PROVE  DescInv'
<1> USE DEF DescInv, PullPcs, PullingPcs, memory, pull, containerd, blobs, layers, Goto, Return,
            Continue, GoOn, FailPull, unchangedCaller
<1>1. CASE pc' \notin PullingPcs \ {"resolve"}
    BY <1>1
<1>2. CASE Resolve
    BY <1>2 DEF Resolve, stored
<1>3. CASE Dispatch
  <2>1. UNCHANGED <<stored, mode>> /\ pc = "dispatch"
      BY <1>3 DEF Dispatch, stored
  <2>2. ASSUME NEW b \in todo, FetchBlob(b)
        PROVE  DescInv'
      BY <2>1, <2>2 DEF FetchBlob, Store
  <2>3. ASSUME NEW b \in todo, HandleSchema1(b)
        PROVE  DescInv'
    <3>1. CASE UNCHANGED pc
      <4>1. /\ WellFormed(b) /\ b = desc
            /\ \A x \in todo' : x \in todo \/ \E sum : x = Layer(sum)
            /\ UNCHANGED desc
          BY <2>1, <2>3, <3>1 DEF HandleSchema1
      <4> QED
          BY <2>1, <3>1, <4>1 DEF Layer
    <3> QED
        BY <1>1, <2>3, <3>1 DEF HandleSchema1
  <2>4. ASSUME NEW b \in got, ReadChildren(b)
        PROVE  DescInv'
    <3>1. CASE UNCHANGED pc
      <4>1. /\ todo' = todo \union Children(b)
            /\ \A x \in Children(b) : x.type # "schema1"
            /\ UNCHANGED desc
          BY <2>1, <2>4, <3>1, ImageParts DEF ReadChildren, PullInv, DispatchInv
      <4> QED
          BY <2>1, <3>1, <4>1
    <3> QED
        BY <1>1, <2>4, <3>1 DEF ReadChildren
  <2>5. CASE /\ todo = {} /\ UNCHANGED desc
             /\ GoOn(IF desc.type = "schema1" THEN "convert" ELSE "record")
    <3>1. CASE desc.type = "schema1"
        BY <2>1, <2>5, <3>1
    <3>2. CASE desc.type # "schema1"
      <4>1. desc \in PulledAs(stored, ~manifestOnly)
          BY <2>1, <3>2 DEF PulledAs, PullInv, DispatchInv
      <4>2. UNCHANGED manifestOnly /\ pc' = "record"
          BY <2>1, <2>5, <3>2 DEF manifestOnly
      <4> QED
          BY <2>1, <2>5, <4>1, <4>2
    <3> QED
        BY <3>1, <3>2
  <2> QED
      BY <1>1, <1>3, <2>2, <2>3, <2>4, <2>5 DEF Dispatch
<1>4. CASE WriteManifest
  <2>1. CASE pc' = "config"
    <3>1. UNCHANGED <<stored, mode>> /\ pc = "convert" /\ desc' = Convert(desc, ~manifestOnly)
          /\ desc.history # <<>>
        BY <1>4, <2>1 DEF WriteManifest, stored
    <3>2. UNCHANGED manifestOnly
        BY <3>1 DEF manifestOnly
    <3>3. desc' \in PulledAs(stored, ~manifestOnly)
        BY <3>1, PulledConverted
    <3> QED
        BY <2>1, <3>1, <3>2, <3>3
  <2> QED
      BY <1>1, <1>4, <2>1 DEF WriteManifest
<1>5. CASE WriteConfig
    BY <1>5 DEF WriteConfig, Store, stored, manifestOnly
<1>6. CASE RecordImage
    BY <1>6 DEF RecordImage, stored, manifestOnly, With
<1>7. CASE Unpack
    BY <1>7 DEF Unpack, stored, manifestOnly
<1>8. CASE CollectGarbage
    BY <1>8 DEF CollectGarbage, stored, manifestOnly
<1> QED
  <2>1. \/ StartRun \/ NewClient \/ ListContainers \/ InspectImage \/ DoPrepare
        \/ EndOfContainers \/ EndPull \/ RemoveSnapshot \/ CreateSnapshot \/ Crash
        \/ WithLease \/ LabelConfig
        => pc' \notin PullingPcs \ {"resolve"}
      BY DEF StartRun, NewClient, NewCtrdClient, ListContainers, InspectImage, DoPrepare,
             EndOfContainers, EndPull, RemoveSnapshot, CreateSnapshot, Crash, WithLease,
             LabelConfig
  <2> QED
      BY <1>1, <1>2, <1>3, <1>4, <1>5, <1>6, <1>7, <1>8, <2>1
      DEF Next, PrepareImages, PullImage, PrepareSnapshot

-----------------------------------------------------------------------------
(* The types. Roots, what they refer to, and what that refers to. *)

Placed(b) ==
    /\ b \in Blobs
    /\ b.type = "manifest" => b \in Roots \union UNION {r.refs : r \in Roots}
    /\ b.type \in {"index", "schema1"} => b \in Roots

TypeInv == TypeOK /\ \A b \in todo \union got : Placed(b)

LEMMA RootsArePlaced ==
    ASSUME NEW b \in Roots
    PROVE  Placed(b) /\ \A m \in b.refs : m \in Blobs /\ m.refs \subseteq Blobs
BY ReachableIncludes DEF Placed, Blobs

LEMMA PulledAreRoots ==
    ASSUME NEW n \in DOMAIN Registry, NEW fetched \in BOOLEAN
    PROVE  Registry[n] \union PulledAs(n, fetched) \subseteq Roots
<1>1. Registry[n] \subseteq UNION Range(Registry)
    BY DEF Range
<1> QED
    BY <1>1 DEF PulledAs, Roots

LEMMA ChildrenArePlaced ==
    ASSUME NEW b, IsImage(b), Placed(b)
    PROVE  \A m \in Children(b) : Placed(m)
<1>1. CASE IsManifest(b)
  <2>1. b \in Roots \union UNION {r.refs : r \in Roots}
      BY <1>1 DEF IsManifest, Placed
  <2>2. b.refs \subseteq Blobs
      BY <2>1, RootsArePlaced
  <2>3. \A m \in Children(b) : m \in b.refs /\ IsLeaf(m)
      BY <1>1 DEF IsManifest, Children
  <2> QED
      BY <2>2, <2>3 DEF Placed, IsLeaf, Parents
<1>2. CASE IsIndex(b)
  <2>1. b \in Roots
      BY <1>2 DEF IsIndex, Placed
  <2>2. \A m \in Children(b) : m \in b.refs /\ m.type = "manifest"
      BY <1>2 DEF IsIndex, IsManifest, Children
  <2>3. \A m \in b.refs : m \in Blobs /\ m \in UNION {r.refs : r \in Roots}
      BY <2>1, RootsArePlaced
  <2> QED
      BY <2>2, <2>3 DEF Placed
<1> QED
    BY <1>1, <1>2 DEF IsImage

LEMMA ConvertedIsRoot ==
    ASSUME NEW n \in DOMAIN Registry, NEW b \in Registry[n], b.type = "schema1", WellFormed(b),
           NEW fetched \in BOOLEAN
    PROVE  Convert(b, fetched) \in Roots
<1> DEFINE registered == UNION Range(Registry)
           old == {m \in registered : m.type = "schema1" /\ WellFormed(m)}
<1>1. b \in registered
    BY DEF Range
<1>2. b \in old
    BY <1>1
<1>3. Roots = registered \union {Convert(m, f) : m \in old, f \in BOOLEAN}
    BY DEF Roots
<1> HIDE DEF registered, old
<1>4. \A m \in old : \A f \in BOOLEAN : Convert(m, f) \in Roots
    BY <1>3
<1> QED
    BY <1>2, <1>4, Zenon

LEMMA OldLayersArePlaced ==
    ASSUME NEW n \in DOMAIN Registry, NEW b \in Registry[n], b.type = "schema1", WellFormed(b)
    PROVE  \A sum \in Range(DiffIDs(b)) : Placed(Layer(sum))
<1> DEFINE sums == DiffIDs(b)
           new == Convert(b, TRUE)
<1>1. new \in Roots
    BY ConvertedIsRoot
<1>2. /\ new.refs = {new.config} \union Range(new.layers)
      /\ new.layers = [i \in DOMAIN sums |-> Layer(sums[i])]
    BY DEF Convert, Manifest
<1> HIDE DEF new
<1>3. \A sum \in Range(sums) : Layer(sum) \in new.refs
    BY <1>2 DEF Range
<1> QED
    BY <1>1, <1>3, RootsArePlaced DEF Placed, Layer

\* What the steps that move blobs around work on.
LEMMA DescIsRoot ==
    ASSUME PullInv, DescInv, pc \in PullingPcs \ {"resolve"}
    PROVE  desc \in Roots
<1>1. stored \in DOMAIN Registry /\ (~manifestOnly) \in BOOLEAN
    BY DEF DescInv, manifestOnly
<1>2. Registry[stored] \union PulledAs(stored, ~manifestOnly) \subseteq Roots
    BY <1>1, PulledAreRoots
<1> QED
    BY <1>2 DEF DescInv, PullingPcs, PullPcs

LEMMA ControlStep ==
    ASSUME StoreInv, ControlTypes, Next
    PROVE  ControlTypes'
<1> USE DEF ControlTypes, PullPcs, memory, pull, containerd, blobs, layers, Goto, Return, Continue,
            GoOn, FailPull, unchangedCaller
<1>0. LeaseInv /\ LoopInv /\ NameInv
    BY DEF StoreInv
<1>1. name' \in Refs
    BY <1>0, NameStep DEF NameInv
<1>2. CASE StartRun
    BY <1>1, <1>2, ImagesAssumption DEF StartRun
<1>3. CASE NewClient
    BY <1>0, <1>1, <1>3 DEF NewClient, NewCtrdClient, LeaseInv
<1>4. CASE ListContainers
  <2>1. Cardinality(Containers) \in Nat
      BY FS_CardinalityType, ImagesAssumption
  <2>2. ListingsOf(Containers) \subseteq [1..Cardinality(Containers) -> Containers]
      BY DEF ListingsOf, Bijection, Injection
  <2>3. ListingsOf(Containers) \subseteq Seq(Containers)
      BY <2>1, <2>2
  <2> QED
      BY <1>1, <1>4, <2>3 DEF ListContainers
<1>5. CASE InspectImage
  <2>1. /\ UNCHANGED <<mode, listed, pulled, pull, clientLease, runs>>
        /\ \/ pc' \in {"inspect", "prepare"} /\ k' = k + 1 /\ outcome' = outcome
           \/ pc' = "pull" /\ k' = k /\ outcome' = outcome
           \/ pc' = "off" /\ k' = k /\ outcome' \in {"failed", "refused"}
      BY <1>5 DEF InspectImage
  <2> QED
      BY <1>1, <2>1
<1>6. CASE DoPrepare
    BY <1>0, <1>1, <1>6, ListedContainer, ImagesAssumption DEF DoPrepare
<1>7. CASE EndOfContainers \/ EndPull \/ RemoveSnapshot \/ CreateSnapshot \/ Crash
    BY <1>1, <1>7 DEF EndOfContainers, EndPull, ForgetPull, RemoveSnapshot, CreateSnapshot, Crash
<1>8. CASE PullImage /\ UNCHANGED <<k, listed, pulled, outcome, runs>>
    BY <1>1, <1>8 DEF PullImage, WithLease, Resolve, Dispatch, FetchBlob, HandleSchema1,
                      ReadChildren, WriteManifest, WriteConfig, Store, RecordImage, Unpack,
                      LabelConfig
<1>9. CASE CollectGarbage /\ UNCHANGED <<k, listed, pulled, outcome, runs>>
    BY <1>1, <1>9 DEF CollectGarbage
<1> QED
    BY <1>2, <1>3, <1>4, <1>5, <1>6, <1>7, <1>8, <1>9 DEF Next, PrepareImages, PrepareSnapshot

\* A lease gains nothing that is not stored.
before(l) == IF l \in DOMAIN leases THEN leases[l] ELSE NoHold

Gained(l) ==
    /\ leases'[l].content \subseteq before(l).content \union content'
    /\ leases'[l].unpacked \subseteq before(l).unpacked \union unpacked'
    /\ leases'[l].containers \subseteq before(l).containers \union Containers

LEMMA LeaseGains ==
    ASSUME StoreInv, StoreInv', Next
    PROVE  \A l \in DOMAIN leases' : Gained(l)
<1> USE DEF PullPcs, memory, pull, containerd, blobs, layers, Goto, Return, Continue, GoOn, FailPull,
            unchangedCaller
<1>0. LeaseInv /\ LoopInv /\ AreHoldings(leases)
    BY DEF StoreInv, LeaseInv
<1>1. CASE \A l \in DOMAIN leases' : l \in DOMAIN leases /\ leases'[l] = leases[l]
    BY <1>1 DEF Gained, before
<1>2. CASE \E l \in LeaseIds \ DOMAIN leases : leases' = With(leases, l, NoHold)
  <2>1. PICK l \in LeaseIds \ DOMAIN leases : leases' = With(leases, l, NoHold)
      BY <1>2
  <2> QED
      BY <1>0, <2>1, NewLease DEF Gained, before, NoHold
<1>3. ASSUME NEW l \in DOMAIN leases, NEW S, NEW kind \in {"content", "unpacked", "containers"},
             leases' = Hold(l, kind, S),
             kind = "content" => S \subseteq content',
             kind = "unpacked" => S \subseteq unpacked',
             kind = "containers" => S \subseteq Containers
      PROVE  \A m \in DOMAIN leases' : Gained(m)
  <2>1. SUFFICES ASSUME NEW m \in DOMAIN leases'
                 PROVE  Gained(m)
      OBVIOUS
  <2>2. /\ m \in DOMAIN leases /\ before(m) = leases[m]
        /\ kind # "containers" \/ m # l => leases'[m].containers = leases[m].containers
        /\ kind # "content" \/ m # l => leases'[m].content = leases[m].content
        /\ kind # "unpacked" \/ m # l => leases'[m].unpacked = leases[m].unpacked
        /\ leases'[l][kind] = leases[l][kind] \union S
      BY <1>0, <1>3, <2>1, HoldMore DEF before
  <2>3. CASE kind = "content"
      BY <1>3, <2>2, <2>3 DEF Gained
  <2>4. CASE kind = "unpacked"
      BY <1>3, <2>2, <2>4 DEF Gained
  <2>5. CASE kind = "containers"
      BY <1>3, <2>2, <2>5 DEF Gained
  <2> QED
      BY <2>3, <2>4, <2>5
<1>4. ASSUME NEW b, Store(b), pullLease \in DOMAIN leases
      PROVE  \A l \in DOMAIN leases' : Gained(l)
    BY <1>3, <1>4 DEF Store
<1>5. CASE PullImage
  <2>1. pc # "pull" /\ PullImage => pullLease \in DOMAIN leases
      BY <1>0 DEF LeaseInv, PullImage, WithLease, Resolve, Dispatch, WriteManifest, WriteConfig,
                  RecordImage, Unpack, LabelConfig
  <2>2. CASE WithLease
      BY <1>1, <1>2, <2>2 DEF WithLease
  <2>3. CASE Resolve \/ RecordImage \/ LabelConfig
      BY <1>1, <2>3 DEF Resolve, RecordImage, LabelConfig
  <2>4. CASE Dispatch
      BY <1>1, <1>4, <1>5, <2>1, <2>4 DEF Dispatch, FetchBlob, HandleSchema1, ReadChildren
  <2>5. CASE WriteManifest \/ WriteConfig
      BY <1>1, <1>4, <1>5, <2>1, <2>5 DEF WriteManifest, WriteConfig
  <2>6. CASE Unpack
    <3>1. CASE UNCHANGED leases
        BY <1>1, <3>1
    <3>2. CASE ~UNCHANGED leases
      <4> DEFINE chain == ChainOf(desc, Snapshotter)
      <4>1. /\ leases' = Hold(pullLease, "unpacked", {chain}) /\ unpacked' = unpacked \union {chain}
            /\ pullLease \in DOMAIN leases
          BY <1>5, <2>1, <2>6, <3>2 DEF Unpack
      <4> HIDE DEF chain
      <4> QED
          BY <1>3, <4>1
    <3> QED
        BY <3>1, <3>2
  <2> QED
      BY <1>5, <2>2, <2>3, <2>4, <2>5, <2>6 DEF PullImage
<1>6. CASE NewClient
    BY <1>1, <1>2, <1>6 DEF NewClient, NewCtrdClient
<1>7. CASE EndPull
    BY <1>1, <1>7 DEF EndPull, Without, Restrict
<1>8. CASE CreateSnapshot
  <2>1. listed[k] \in Containers /\ clientLease \in DOMAIN leases
      BY <1>0, <1>8, ListedContainer DEF CreateSnapshot, LoopInv, LeaseInv
  <2>2. leases' = leases \/ leases' = Hold(clientLease, "containers", {listed[k]})
      BY <1>8 DEF CreateSnapshot
  <2> QED
      BY <1>1, <1>3, <2>1, <2>2
<1>9. CASE \/ StartRun \/ ListContainers \/ InspectImage \/ DoPrepare \/ EndOfContainers
           \/ RemoveSnapshot \/ Crash \/ CollectGarbage
    BY <1>1, <1>9 DEF StartRun, ListContainers, InspectImage, DoPrepare, EndOfContainers,
                      RemoveSnapshot, Crash, CollectGarbage
<1> QED
    BY <1>5, <1>6, <1>7, <1>8, <1>9 DEF Next, PrepareImages, PrepareSnapshot

LEMMA BlobStep ==
    ASSUME StoreInv, StoreInv', TypeInv, Next
    PROVE  BlobTypes' /\ \A b \in (todo \union got)' : Placed(b)
<1> USE DEF PullPcs, PullingPcs, memory, pull, containerd, blobs, layers, Goto, Return, Continue,
            GoOn, FailPull, unchangedCaller
<1>0. /\ LeaseInv /\ LoopInv /\ NameInv /\ NameInv' /\ PullInv /\ PullInv' /\ DescInv
      /\ BlobTypes /\ ControlTypes /\ \A b \in todo \union got : Placed(b)
    BY DEF StoreInv, TypeInv, TypeOK
<1>1. ASSUME NEW b \in Roots \union {NoBlob}
      PROVE  b \in Blobs \union {NoBlob}
    BY <1>1, RootsArePlaced DEF Placed
<1>2. DOMAIN images' \subseteq Refs
    BY <1>0 DEF NameInv
<1>3. CASE /\ desc' \in {desc, NoBlob} /\ todo' \subseteq todo /\ got' \subseteq got
           /\ content' \subseteq content /\ images' = images
    BY <1>0, <1>3 DEF BlobTypes
<1>4. CASE Resolve
  <2>1. CASE pc' = "dispatch"
    <3>1. PICK b \in Registry[stored] : desc' = b /\ todo' = {b} /\ stored \in DOMAIN Registry
        BY <1>4, <2>1 DEF Resolve, stored
    <3>2. b \in Roots
        BY <3>1, PulledAreRoots
    <3> QED
        BY <1>0, <1>4, <3>1, <3>2, RootsArePlaced DEF Resolve, BlobTypes, Placed
  <2> QED
      BY <1>3, <1>4, <2>1 DEF Resolve
<1>5. CASE Dispatch
  <2>1. /\ UNCHANGED <<desc, images>>
        /\ content' \subseteq content \union todo
      BY <1>5 DEF Dispatch, FetchBlob, Store, HandleSchema1, ReadChildren
  <2>2. \A b \in (todo \union got)' : Placed(b)
    <3>1. ASSUME NEW b \in todo, FetchBlob(b)
          PROVE  todo' \union got' \subseteq todo \union got
        BY <3>1 DEF FetchBlob
    <3>2. ASSUME NEW b \in todo, HandleSchema1(b)
          PROVE  \A m \in (todo \union got)' : Placed(m)
      <4>1. /\ todo' \subseteq todo \union {Layer(sum) : sum \in Range(DiffIDs(b))} /\ got' = got
            /\ b.type = "schema1" /\ (WellFormed(b) \/ todo' = {})
          BY <3>2 DEF HandleSchema1
      <4>2. b \in Registry[stored] /\ stored \in DOMAIN Registry
          BY <1>0, <1>5, <3>2, <4>1 DEF Dispatch, DescInv
      <4> QED
          BY <1>0, <4>1, <4>2, OldLayersArePlaced
    <3>3. ASSUME NEW b \in got, ReadChildren(b)
          PROVE  \A m \in (todo \union got)' : Placed(m)
      <4>1. todo' \subseteq todo \union Children(b) /\ got' \subseteq got
          BY <3>3 DEF ReadChildren
      <4>2. IsImage(b)
          BY <1>0, <1>5 DEF PullInv, DispatchInv, Dispatch
      <4> QED
          BY <1>0, <4>1, <4>2, ChildrenArePlaced
    <3>4. CASE todo' \union got' \subseteq todo \union got
        BY <1>0, <3>4
    <3> QED
        BY <1>5, <3>1, <3>2, <3>3, <3>4 DEF Dispatch
  <2> QED
      BY <1>0, <2>1, <2>2 DEF BlobTypes, Placed
<1>6. CASE WriteManifest
  <2>1. CASE pc' = "config"
    <3>1. /\ desc' = Convert(desc, ~manifestOnly) /\ content' = content \union {desc'}
          /\ UNCHANGED <<todo, got, images>>
        BY <1>6, <2>1 DEF WriteManifest, Store
    <3>2. /\ stored \in DOMAIN Registry /\ desc \in Registry[stored]
          /\ desc.type = "schema1" /\ WellFormed(desc)
        BY <1>0, <1>6 DEF WriteManifest, DescInv
    <3>3. \A fetched \in BOOLEAN : Convert(desc, fetched) \in Roots
        BY <3>2, ConvertedIsRoot
    <3>4. desc' \in Roots
        BY <3>1, <3>3 DEF manifestOnly
    <3> QED
        BY <1>0, <1>1, <3>1, <3>4, RootsArePlaced DEF BlobTypes, Placed
  <2> QED
      BY <1>3, <1>6, <2>1 DEF WriteManifest
<1>7. CASE WriteConfig
  <2>1. desc \in Roots /\ IsManifest(desc)
      BY <1>0, <1>7, DescIsRoot DEF WriteConfig, PullInv
  <2>2. desc.config \in Blobs
      BY <2>1, RootsArePlaced DEF IsManifest
  <2> QED
      BY <1>0, <1>7, <2>2 DEF WriteConfig, Store, BlobTypes
<1>8. CASE RecordImage
  <2>1. desc \in Roots /\ IsImage(desc)
      BY <1>0, <1>8, DescIsRoot DEF RecordImage, PullInv
  <2>2. desc \in ImageBlobs
      BY <2>1, RootsArePlaced, ImageParts DEF ImageBlobs, Placed
  <2>3. \A n \in DOMAIN images' :
           \/ n \in DOMAIN images /\ images'[n] = images[n]
           \/ images'[n] = desc
      BY <1>8 DEF RecordImage, With
  <2>4. Range(images') \subseteq ImageBlobs
      BY <1>0, <2>2, <2>3 DEF BlobTypes, Range
  <2> QED
      BY <1>0, <1>2, <1>8, <2>4 DEF RecordImage, BlobTypes
<1> QED
  <2>1. \/ StartRun \/ NewClient \/ ListContainers \/ InspectImage \/ DoPrepare \/ EndOfContainers
        \/ EndPull \/ RemoveSnapshot \/ CreateSnapshot \/ Crash \/ CollectGarbage
        \/ WithLease \/ Unpack \/ LabelConfig
        => /\ desc' \in {desc, NoBlob} /\ todo' \subseteq todo /\ got' \subseteq got
           /\ content' \subseteq content /\ images' = images
      BY DEF StartRun, NewClient, ListContainers, InspectImage, DoPrepare, EndOfContainers, EndPull,
             ForgetPull, RemoveSnapshot, CreateSnapshot, Crash, CollectGarbage, WithLease, Unpack,
             LabelConfig
  <2> QED
      BY <1>3, <1>4, <1>5, <1>6, <1>7, <1>8, <2>1
      DEF Next, PrepareImages, PullImage, PrepareSnapshot

LEMMA LayerStep ==
    ASSUME StoreInv, TypeInv, Next
    PROVE  LayerTypes'
<1> USE DEF LayerTypes, PullPcs, PullingPcs, memory, pull, containerd, blobs, layers, Goto, Return,
            Continue, GoOn, FailPull, unchangedCaller
<1>0. LeaseInv /\ LoopInv /\ NameInv /\ PullInv /\ DescInv /\ LayerTypes /\ BlobTypes
    BY DEF StoreInv, TypeInv, TypeOK
<1>1. CASE UNCHANGED <<unpacked, snapshotRefs, snapshots>> /\ content \subseteq content'
    BY <1>0, <1>1
<1>2. pc \in {"unpack", "label"} => ChainOf(desc, Snapshotter) \in Chains
  <2>1. SUFFICES ASSUME pc \in {"unpack", "label"}
                 PROVE  ChainOf(desc, Snapshotter) \in Chains
      OBVIOUS
  <2>2. desc \in Roots /\ desc = images[stored] /\ stored \in DOMAIN images
      BY <1>0, <2>1, DescIsRoot DEF DescInv
  <2>3. desc \in ImageBlobs
      BY <1>0, <2>2, RootsArePlaced, ImageParts DEF ImageBlobs, Placed, PullInv
  <2>4. Snapshotter \in Snapshotters
      BY DEF Snapshotter, Snapshotters
  <2> QED
      BY <2>3, <2>4 DEF Chains
<1>3. CASE Unpack
  <2>1. unpacked' \subseteq unpacked \union {ChainOf(desc, Snapshotter)} /\ pc = "unpack"
        /\ UNCHANGED <<snapshotRefs, snapshots, content>>
      BY <1>3 DEF Unpack
  <2> QED
      BY <1>0, <1>2, <2>1
<1>4. CASE LabelConfig
  <2>1. /\ snapshotRefs' \subseteq snapshotRefs \union
              {<<ManifestOf(desc).config, ChainOf(desc, Snapshotter)>>}
        /\ pc = "label" /\ UNCHANGED <<unpacked, snapshots, content>>
      BY <1>4 DEF LabelConfig
  <2>2. ManifestOf(desc).config \in content
      BY <1>0, <2>1 DEF DescInv, PullInv, ImagesReadable, Readable
  <2> QED
      BY <1>0, <1>2, <2>1, <2>2
<1>5. CASE RemoveSnapshot
    BY <1>0, <1>5 DEF RemoveSnapshot, Restrict, Range
<1>6. CASE CreateSnapshot
  <2>1. CASE UNCHANGED snapshots
      BY <1>1, <1>6, <2>1 DEF CreateSnapshot
  <2>2. CASE ~UNCHANGED snapshots
    <3> DEFINE chain == ChainOf(images[ImageName[listed[k]]], "overlayfs")
    <3>1. /\ chain \in unpacked /\ snapshots' = With(snapshots, listed[k], chain)
          /\ UNCHANGED <<unpacked, snapshotRefs, content>>
        BY <1>6, <2>2 DEF CreateSnapshot
    <3>2. listed[k] \in Containers
        BY <1>0, <1>6, ListedContainer DEF CreateSnapshot, LoopInv
    <3> HIDE DEF chain
    <3> QED
        BY <1>0, <3>1, <3>2 DEF With, Range
  <2> QED
      BY <2>1, <2>2
<1>7. CASE CollectGarbage
  <2>1. /\ unpacked' \subseteq unpacked
        /\ snapshotRefs' \subseteq snapshotRefs /\ \A r \in snapshotRefs' : r[1] \in content'
      BY <1>7 DEF CollectGarbage
  <2>2. DOMAIN snapshots' \subseteq DOMAIN snapshots
        /\ \A c \in DOMAIN snapshots' : snapshots'[c] = snapshots[c]
      BY <1>7 DEF CollectGarbage, Restrict
  <2>3. snapshotRefs' \subseteq content' \X Chains
      BY <1>0, <2>1
  <2> QED
      BY <1>0, <2>1, <2>2, <2>3 DEF Range
<1> QED
  <2>1. \/ StartRun \/ NewClient \/ ListContainers \/ InspectImage \/ DoPrepare \/ EndOfContainers
        \/ EndPull \/ Crash \/ WithLease \/ Resolve \/ Dispatch \/ WriteManifest \/ WriteConfig
        \/ RecordImage
        => UNCHANGED <<unpacked, snapshotRefs, snapshots>> /\ content \subseteq content'
      BY DEF StartRun, NewClient, ListContainers, InspectImage, DoPrepare, EndOfContainers, EndPull,
             Crash, WithLease, Resolve, Dispatch, FetchBlob, HandleSchema1, ReadChildren,
             WriteManifest, WriteConfig, Store, RecordImage
  <2> QED
      BY <1>1, <1>3, <1>4, <1>5, <1>6, <1>7, <2>1
      DEF Next, PrepareImages, PullImage, PrepareSnapshot

LEMMA TypeStep ==
    ASSUME StoreInv, StoreInv', TypeInv, [Next]_vars
    PROVE  TypeInv'
<1>1. CASE Next
  <2>1. /\ ControlTypes' /\ BlobTypes' /\ LayerTypes'
        /\ \A b \in (todo \union got)' : Placed(b)
      BY <1>1, ControlStep, BlobStep, LayerStep DEF TypeInv, TypeOK
  <2>2. LeaseTypes'
    <3>1. \A l \in DOMAIN leases' : Gained(l)
        BY <1>1, LeaseGains
    <3>2. DOMAIN leases' \subseteq LeaseIds
        BY DEF StoreInv, LeaseInv
    <3> QED
        BY <2>1, <3>1, <3>2
        DEF TypeInv, TypeOK, LeaseTypes, BlobTypes, LayerTypes, Gained, before, NoHold
  <2> QED
      BY <2>1, <2>2 DEF TypeInv, TypeOK
<1>2. CASE UNCHANGED vars
    BY <1>2 DEF vars, memory, pull, containerd, blobs, layers, TypeInv, TypeOK, ControlTypes,
                BlobTypes, LayerTypes, LeaseTypes
<1> QED
    BY <1>1, <1>2

-----------------------------------------------------------------------------
(* The conversion. *)

\* Counting from the end of a sequence, as the converter does.
LEMMA CountedFromEnd ==
    ASSUME NEW s, NEW E, NEW n \in Nat, NEW i \in 1..n, NEW r,
           \A j \in 1..n : r[n + 1 - j] = s[j], NEW S, S = {j \in i..n : s[j] \notin E}
    PROVE  Cardinality(S) = Rank(r, E, n + 1 - i)
<1> DEFINE T == Kept(r, E, n + 1 - i)
           f == [j \in S |-> n + 1 - j]
<1>1. n + 1 - i \in Nat
    OBVIOUS
<1>2. ASSUME NEW j \in S
      PROVE  n + 1 - j \in T
  <2>1. j \in i..n /\ j \in 1..n /\ s[j] \notin E
      OBVIOUS
  <2>2. n + 1 - j \in 1..(n + 1 - i) /\ r[n + 1 - j] = s[j]
      BY <2>1
  <2> QED
      BY <2>1, <2>2 DEF Kept
<1>3. ASSUME NEW t \in T
      PROVE  n + 1 - t \in S /\ f[n + 1 - t] = t
  <2>1. t \in 1..(n + 1 - i) /\ r[t] \notin E
      BY DEF Kept
  <2>2. n + 1 - t \in i..n /\ n + 1 - t \in 1..n /\ n + 1 - (n + 1 - t) = t
      BY <2>1
  <2>3. s[n + 1 - t] = r[t]
      BY <2>2
  <2> QED
      BY <2>1, <2>2, <2>3
<1>4. f \in Bijection(S, T)
  <2>1. f \in [S -> T]
      BY <1>2
  <2>2. \A x, y \in S : f[x] = f[y] => x = y
      OBVIOUS
  <2>3. \A t \in T : \E x \in S : f[x] = t
      BY <1>3
  <2> QED
      BY <2>1, <2>2, <2>3 DEF Bijection, Injection, Surjection, IsInjective
<1>5. IsFiniteSet(S)
  <2>1. IsFiniteSet(i..n) /\ S \in SUBSET (i..n)
      BY FS_Interval
  <2> QED
      BY <2>1, FS_Subset
<1> HIDE DEF T, f
<1>6. Cardinality(T) = Cardinality(S)
    BY <1>4, <1>5, FS_Bijection DEF ExistsBijection
<1> QED
    BY <1>6 DEF Rank, T

(***************************************************************************)
(* Whatever schema 1 manifest is converted, in either way: its history is  *)
(* the old one reversed, blobs are empty wherever they occur or nowhere,   *)
(* and there is one layer and one diffID for each entry that is not empty, *)
(* in the order of the entries.                                            *)
(***************************************************************************)
LEMMA ConvertedAgrees ==
    ASSUME NEW old, IsSchema1(old), WellFormed(old), NEW fetched \in BOOLEAN
    PROVE  Agrees(old, Convert(old, fetched))
<1> DEFINE n == Len(old.history)
           E == EmptyBlobs(old)
           reversed == [i \in DOMAIN old.fsLayers |-> old.fsLayers[Len(old.fsLayers) + 1 - i]]
           sums == DiffIDs(old)
           new == Convert(old, fetched)
           Empty(i) == new.config.history[n + 1 - i].empty
           LayersFrom(i) == Cardinality({j \in i..n : ~Empty(j)})
<1>1. /\ n \in Nat /\ Len(old.fsLayers) = n
      /\ DOMAIN old.fsLayers = 1..n /\ DOMAIN old.history = 1..n
      /\ reversed \in Seq(STRING) /\ Len(reversed) = n
      /\ \A i \in 1..n : n + 1 - i \in 1..n /\ n + 1 - (n + 1 - i) = i
  <2>1. n \in Nat /\ Len(old.fsLayers) = n /\ old.fsLayers \in Seq(STRING)
        /\ DOMAIN old.history = 1..n
      BY DEF IsSchema1, WellFormed
  <2> HIDE DEF n
  <2>2. DOMAIN old.fsLayers = 1..n /\ \A i \in 1..n : old.fsLayers[i] \in STRING
      BY <2>1
  <2>3. \A i \in 1..n : n + 1 - i \in 1..n /\ n + 1 - (n + 1 - i) = i
      BY <2>1
  <2>4. reversed \in [1..n -> STRING]
      BY <2>1, <2>2, <2>3
  <2> QED
      BY <2>1, <2>2, <2>3, <2>4
<1>2. /\ new.config.history = Schema1ManifestHistory(old)
      /\ new.config.diffIDs = [i \in DOMAIN sums |-> IF fetched THEN sums[i] ELSE ""]
      /\ new.layers = [i \in DOMAIN sums |-> IF fetched THEN Layer(sums[i]) ELSE NoBlob]
    BY DEF Convert, Manifest, Config
<1> HIDE DEF new
<1>3. /\ new.config.history =
             [i \in 1..n |-> [created |-> old.history[n + 1 - i].created,
                              empty |-> old.fsLayers[n + 1 - i] \in E]]
    BY <1>1, <1>2 DEF Schema1ManifestHistory
<1>4. ASSUME NEW i \in 1..n
      PROVE  /\ Empty(i) = (old.fsLayers[i] \in E)
             /\ new.config.history[n + 1 - i].created = old.history[i].created
  <2>1. n + 1 - i \in 1..n /\ n + 1 - (n + 1 - i) = i
      BY <1>1
  <2> HIDE DEF n
  <2>2. new.config.history[n + 1 - i] =
           [created |-> old.history[i].created, empty |-> old.fsLayers[i] \in E]
      BY <1>3, <2>1
  <2> QED
      BY <2>2
<1>5. \A j \in 1..n : reversed[n + 1 - j] = old.fsLayers[j]
    BY <1>1
<1>6. sums = Skip(reversed, E)
    BY DEF DiffIDs
<1> HIDE DEF reversed, E, sums
<1>7. /\ sums \in Seq(STRING) /\ Len(sums) = Rank(reversed, E, n)
      /\ \A i \in 1..n : reversed[i] \notin E => sums[Rank(reversed, E, i)] = reversed[i]
    BY <1>1, <1>6, SkipSelects DEF IsSelection
<1> HIDE DEF n
<1>8. ASSUME NEW i \in 1..n
      PROVE  LayersFrom(i) = Rank(reversed, E, n + 1 - i)
  <2>1. {j \in i..n : ~Empty(j)} = {j \in i..n : old.fsLayers[j] \notin E}
    <3>1. \A j \in i..n : j \in 1..n
        BY <1>1
    <3> QED
        BY <1>4, <3>1
  <2> DEFINE S == {j \in i..n : old.fsLayers[j] \notin E}
  <2>2. PICK s : s = old.fsLayers
      OBVIOUS
  <2>3. /\ n \in Nat /\ S = {j \in i..n : s[j] \notin E}
        /\ \A j \in 1..n : reversed[n + 1 - j] = s[j]
      BY <1>1, <1>5, <2>2
  <2>4. LayersFrom(i) = Cardinality(S)
      BY <2>1
  <2> HIDE DEF S, LayersFrom
  <2>5. Cardinality(S) = Rank(reversed, E, n + 1 - i)
      BY <2>3, CountedFromEnd
  <2> QED
      BY <2>4, <2>5
<1>9. LayersFrom(1) = Len(sums)
  <2>1. CASE n = 0
    <3>1. {j \in 1..n : ~Empty(j)} = {}
        BY <2>1
    <3> QED
        BY <1>7, <2>1, <3>1, FS_EmptySet, RankFacts
  <2>2. CASE n # 0
    <3>1. 1 \in 1..n /\ n + 1 - 1 = n
        BY <1>1, <2>2
    <3> QED
        BY <1>7, <1>8, <3>1
  <2> QED
      BY <2>1, <2>2
<1>10. ASSUME NEW i \in 1..n, ~Empty(i)
       PROVE  new.layers[LayersFrom(i)] \in {NoBlob, Layer(old.fsLayers[i])}
  <2> DEFINE rank == Rank(reversed, E, n + 1 - i)
  <2>1. n + 1 - i \in 1..n /\ reversed[n + 1 - i] = old.fsLayers[i] /\ old.fsLayers[i] \notin E
      BY <1>1, <1>4, <1>5, <1>10
  <2>2. sums[rank] = old.fsLayers[i]
      BY <1>7, <2>1
  <2>3. rank \in DOMAIN sums
    <3>1. /\ rank \in Nat /\ rank >= 1 /\ rank <= Rank(reversed, E, n)
      <4>1. n + 1 - i \in Nat /\ n + 1 - i \in 0..n
          BY <1>1, <2>1
      <4>2. rank \in Nat
          BY <4>1, RankFacts
      <4>3. rank >= 1 /\ rank <= Rank(reversed, E, n)
          BY <1>1, <2>1, <4>1, RankFacts
      <4> QED
          BY <4>2, <4>3
    <3> QED
        BY <1>7, <3>1
  <2>4. LayersFrom(i) = rank
      BY <1>8
  <2> HIDE DEF rank
  <2> QED
      BY <1>2, <2>2, <2>3, <2>4
<1>11. /\ Len(new.layers) = Len(sums) /\ Len(new.config.diffIDs) = Len(sums)
       /\ Len(new.config.history) = n
  <2>1. DOMAIN sums = 1..Len(sums) /\ Len(sums) \in Nat
      BY <1>7
  <2>2. ASSUME NEW q, NEW m \in Nat, DOMAIN q = 1..m, q = [i \in 1..m |-> q[i]]
        PROVE  Len(q) = m
      BY <2>2
  <2> QED
      BY <1>1, <1>2, <1>3, <2>1, <2>2
<1>12. \A i, j \in 1..n : old.fsLayers[i] = old.fsLayers[j] => Empty(i) = Empty(j)
    BY <1>4
<1> QED
    BY <1>4, <1>9, <1>10, <1>11, <1>12 DEF Agrees, new, n

\* A manifest with a history was made by the converter.
Converted(b) ==
    \E n \in DOMAIN Registry : \E old \in Registry[n] : \E fetched \in BOOLEAN :
        old.type = "schema1" /\ WellFormed(old) /\ b = Convert(old, fetched)
HasOrigin(b) == b.type = "manifest" => NoHistory(b) \/ Converted(b)

OriginInv ==
    /\ \A b \in todo \union got \union content : HasOrigin(b)
    /\ \A b \in todo \union got : b.type = "index" => \A m \in b.matching : NoHistory(m)

LEMMA OriginStep ==
    ASSUME StoreInv, OriginInv, Next
    PROVE  OriginInv'
<1> USE DEF PullPcs, PullingPcs, memory, pull, containerd, blobs, layers, Goto, Return, Continue,
            GoOn, FailPull, unchangedCaller
<1>0. /\ PullInv /\ DescInv
      /\ \A b \in todo \union got \union content : HasOrigin(b)
      /\ \A b \in todo \union got : b.type = "index" => \A m \in b.matching : NoHistory(m)
    BY DEF StoreInv, OriginInv
<1>1. CASE /\ (todo \union got)' \subseteq todo \union got
           /\ content' \subseteq content \union todo
    BY <1>0, <1>1 DEF OriginInv
<1>2. CASE Resolve
  <2>1. CASE pc' = "dispatch"
    <3>1. PICK b \in Registry[stored] :
             stored \in DOMAIN Registry /\ todo' = {b} /\ got' = got /\ content' = content
        BY <1>2, <2>1 DEF Resolve, stored
    <3>2. HasOrigin(b) /\ (b.type = "index" => \A m \in b.matching : NoHistory(m))
        BY <3>1, RegisteredBlobs DEF HasOrigin
    <3> QED
        BY <1>0, <3>1, <3>2 DEF OriginInv
  <2> QED
      BY <1>1, <1>2, <2>1 DEF Resolve
<1>3. CASE Dispatch
  <2>1. ASSUME NEW b \in todo, FetchBlob(b)
        PROVE  OriginInv'
      BY <1>1, <2>1 DEF FetchBlob, Store
  <2>2. ASSUME NEW b \in todo, HandleSchema1(b)
        PROVE  OriginInv'
    <3>1. todo' \subseteq todo \union {Layer(sum) : sum \in Range(DiffIDs(b))}
          /\ UNCHANGED <<got, content>>
        BY <2>2 DEF HandleSchema1
    <3>2. \A sum : HasOrigin(Layer(sum)) /\ Layer(sum).type = "layer"
        BY DEF HasOrigin, Layer
    <3> QED
        BY <1>0, <3>1, <3>2 DEF OriginInv
  <2>3. ASSUME NEW b \in got, ReadChildren(b)
        PROVE  OriginInv'
    <3>1. todo' \subseteq todo \union Children(b) /\ got' \subseteq got /\ UNCHANGED content
        BY <2>3 DEF ReadChildren
    <3>2. IsImage(b)
        BY <1>0, <1>3 DEF PullInv, DispatchInv, Dispatch
    <3>3. \A m \in Children(b) : HasOrigin(m) /\ m.type # "index"
      <4>1. CASE IsManifest(b)
        <5>1. \A m \in Children(b) : IsLeaf(m)
            BY <4>1 DEF IsManifest, Children
        <5> QED
            BY <5>1 DEF IsLeaf, Parents, HasOrigin
      <4>2. CASE IsIndex(b)
        <5>1. \A m \in Children(b) : m.type = "manifest" /\ NoHistory(m)
            BY <1>0, <4>2 DEF IsIndex, IsManifest, Children
        <5> QED
            BY <5>1 DEF HasOrigin
      <4> QED
          BY <3>2, <4>1, <4>2 DEF IsImage
    <3> QED
        BY <1>0, <3>1, <3>3 DEF OriginInv
  <2> QED
      BY <1>1, <1>3, <2>1, <2>2, <2>3 DEF Dispatch
<1>4. CASE WriteManifest
  <2>1. CASE pc' = "config"
    <3>1. /\ content' = content \union {Convert(desc, ~manifestOnly)}
          /\ UNCHANGED <<todo, got>>
        BY <1>4, <2>1 DEF WriteManifest, Store
    <3>2. /\ stored \in DOMAIN Registry /\ desc \in Registry[stored]
          /\ desc.type = "schema1" /\ WellFormed(desc) /\ (~manifestOnly) \in BOOLEAN
        BY <1>0, <1>4 DEF WriteManifest, DescInv, manifestOnly
    <3>3. Converted(Convert(desc, ~manifestOnly))
        BY <3>2 DEF Converted
    <3> QED
        BY <1>0, <3>1, <3>3 DEF OriginInv, HasOrigin
  <2> QED
      BY <1>1, <1>4, <2>1 DEF WriteManifest
<1>5. CASE WriteConfig
  <2>1. desc.config.type # "manifest"
      BY <1>0, <1>5 DEF WriteConfig, PullInv, IsManifest, IsLeaf, Parents
  <2> QED
      BY <1>0, <1>5, <2>1 DEF WriteConfig, Store, OriginInv, HasOrigin
<1> QED
  <2>1. \/ StartRun \/ NewClient \/ ListContainers \/ InspectImage \/ DoPrepare \/ EndOfContainers
        \/ EndPull \/ RemoveSnapshot \/ CreateSnapshot \/ Crash \/ CollectGarbage
        \/ WithLease \/ RecordImage \/ Unpack \/ LabelConfig
        => todo' \subseteq todo /\ got' \subseteq got /\ content' \subseteq content
      BY DEF StartRun, NewClient, ListContainers, InspectImage, DoPrepare, EndOfContainers, EndPull,
             ForgetPull, RemoveSnapshot, CreateSnapshot, Crash, CollectGarbage, WithLease,
             RecordImage, Unpack, LabelConfig
  <2> QED
      BY <1>1, <1>2, <1>3, <1>4, <1>5, <2>1
      DEF Next, PrepareImages, PullImage, PrepareSnapshot

-----------------------------------------------------------------------------
(* The theorems. *)

LEMMA InitEstablishesInv == Init => StoreInv
<1> SUFFICES ASSUME Init
             PROVE  StoreInv
    OBVIOUS
<1> USE DEF Init, NoPull
<1>1. DOMAIN leases = {} /\ DOMAIN images = {} /\ DOMAIN snapshots = {}
    OBVIOUS
<1>2. LeaseInv
    BY <1>1 DEF LeaseInv, AreHoldings, PullPcs
<1>3. LoopInv
    BY <1>1 DEF LoopInv, AllPrepared, PullPcs
<1>4. NameInv
    BY <1>1, ImagesAssumption DEF NameInv
<1>5. PullInv
    BY <1>1 DEF PullInv, ImagesReadable, PullPcs
<1>6. CallerInv /\ DescInv
    BY DEF CallerInv, DescInv, PullingPcs, PullPcs
<1> QED
    BY <1>1, <1>2, <1>3, <1>4, <1>5, <1>6 DEF StoreInv, SnapshotInv

LEMMA StepKeepsInv == StoreInv /\ [Next]_vars => StoreInv'
<1> SUFFICES ASSUME StoreInv, [Next]_vars
             PROVE  StoreInv'
    OBVIOUS
<1>1. CASE Next
    BY <1>1, LeaseStep, SnapshotStep, LoopStep, NameStep, PullStep, CallerStep, DescStep
    DEF StoreInv
<1>2. CASE UNCHANGED vars
  <2> USE <1>2 DEF vars, memory, pull, containerd, blobs, layers, StoreInv
  <2>1. LeaseInv' /\ SnapshotInv' /\ LoopInv' /\ NameInv'
      BY DEF LeaseInv, SnapshotInv, LoopInv, AllPrepared, NameInv
  <2>2. PullInv'
      BY DEF PullInv, ImagesReadable, Readable, DispatchInv, held
  <2>3. CallerInv' /\ DescInv'
      BY DEF CallerInv, DescInv, stored, manifestOnly
  <2> QED
      BY <2>1, <2>2, <2>3
<1> QED
    BY <1>1, <1>2

(***************************************************************************)
(* StoreInv holds in every state, whatever fails, whenever the collector   *)
(* runs, in any number of runs over the same containerd.                   *)
(***************************************************************************)
THEOREM StoreInvHolds == Spec => []StoreInv
BY InitEstablishesInv, StepKeepsInv, PTL DEF Spec

(***************************************************************************)
(* Every variable keeps its type: whatever is stored, held or worked on is *)
(* in the registry or was made of what is; every committed snapshot is of  *)
(* the layers of such an image, and no label of one outlives its config.   *)
(***************************************************************************)
THEOREM ImageTypeCorrect == Spec => []TypeOK
<1>1. Init => TypeInv
  <2> SUFFICES ASSUME Init
               PROVE  TypeInv
      OBVIOUS
  <2> USE DEF Init, NoPull
  <2>1. DOMAIN leases = {} /\ DOMAIN images = {} /\ DOMAIN snapshots = {}
      OBVIOUS
  <2>2. ControlTypes
      BY ImagesAssumption DEF ControlTypes, Flags
  <2> QED
      BY <2>1, <2>2 DEF TypeInv, TypeOK, BlobTypes, LayerTypes, LeaseTypes, Range
<1>2. StoreInv /\ StoreInv' /\ TypeInv /\ [Next]_vars => TypeInv'
    BY TypeStep
<1>3. TypeInv => TypeOK
    BY DEF TypeInv
<1> QED
    BY <1>1, <1>2, <1>3, StoreInvHolds, PTL DEF Spec

(***************************************************************************)
(* Every manifest with a history that containerd stores agrees with the    *)
(* schema 1 manifest it was converted from, by PullManifest's converter or *)
(* by Pull's, of any length and with any repeated or empty layers.         *)
(***************************************************************************)
THEOREM ConvertedIsConsistent == Spec => []ConvertedConsistent
<1>1. Init => OriginInv
    BY DEF Init, NoPull, OriginInv
<1>2. StoreInv /\ OriginInv /\ [Next]_vars => OriginInv'
  <2>1. OriginInv /\ UNCHANGED vars => OriginInv'
      BY DEF vars, pull, containerd, blobs, OriginInv
  <2> QED
      BY <2>1, OriginStep
<1>3. OriginInv => ConvertedConsistent
  <2> SUFFICES ASSUME OriginInv, NEW b \in content, b.type = "manifest", ~NoHistory(b)
               PROVE  \E old \in UNION Range(Registry) :
                         old.type = "schema1" /\ WellFormed(old) /\ Agrees(old, b)
      BY DEF ConvertedConsistent
  <2>1. Converted(b)
      BY DEF OriginInv, HasOrigin
  <2>2. PICK n, old, fetched :
                /\ n \in DOMAIN Registry /\ old \in Registry[n] /\ fetched \in BOOLEAN
                /\ old.type = "schema1" /\ WellFormed(old) /\ b = Convert(old, fetched)
      BY <2>1 DEF Converted
  <2>3. IsSchema1(old) /\ old \in UNION Range(Registry)
      BY <2>2, RegisteredBlobs DEF Range
  <2> QED
      BY <2>2, <2>3, ConvertedAgrees
<1> QED
    BY <1>1, <1>2, <1>3, StoreInvHolds, PTL DEF Spec

(***************************************************************************)
(* Every image on record has one name, the one it is normalised to         *)
(* (AddDefaultRegistryIfMissing, WithDefaultTagIfMissing and               *)
(* TrimTagForDigest together are idempotent).                              *)
(***************************************************************************)
THEOREM NamesAreCanonical == Spec => []NamesCanonical
<1>1. StoreInv => NamesCanonical
    BY DEF StoreInv, NameInv, NamesCanonical
<1> QED
    BY <1>1, StoreInvHolds, PTL

(***************************************************************************)
(* The collector leaves the config of every image on record readable,      *)
(* though PullImage stores blob by blob and may fail or die in between.    *)
(***************************************************************************)
THEOREM ImagesStayReadable == Spec => []ImagesReadable
<1>1. StoreInv => ImagesReadable
    BY DEF StoreInv, PullInv
<1> QED
    BY <1>1, StoreInvHolds, PTL

(***************************************************************************)
(* A preparation that ends well has made and kept a snapshot for every     *)
(* container that docker listed (doPrepare's loop).                        *)
(***************************************************************************)
THEOREM PreparedAreAll == Spec => []AllPrepared
<1>1. StoreInv => AllPrepared
    BY DEF StoreInv, LoopInv
<1> QED
    BY <1>1, StoreInvHolds, PTL

(***************************************************************************)
(* Only doPrepare's RemoveSnapshot takes a container's snapshot away: the  *)
(* lease of NewCtrdClient holds it in this run and in every later one.     *)
(***************************************************************************)
THEOREM SnapshotsAreKept == Spec => SnapshotsKept
<1>1. StoreInv /\ StoreInv' /\ [Next]_vars
      => [\A c \in DOMAIN snapshots :
             c \notin DOMAIN snapshots' => pc = "clear" /\ listed[k] = c]_vars
  <2> SUFFICES ASSUME StoreInv, StoreInv', Next
               PROVE  \A c \in DOMAIN snapshots :
                         c \notin DOMAIN snapshots' => pc = "clear" /\ listed[k] = c
      OBVIOUS
  <2> QED
      BY SnapshotStep DEF StoreInv
<1> QED
    BY <1>1, StoreInvHolds, PTL DEF Spec, SnapshotsKept
=============================================================================
