---------------------- MODULE ImagePreparation_proofs ----------------------
(***************************************************************************)
(* Under which conditions a preparation finds what it has pulled.  Nothing *)
(* but the lease of the pull holds what Unpack has just applied, until     *)
(* LabelConfig names it in the config of an image on record; from then on  *)
(* the layers stay as long as the record does, so that all depends on who  *)
(* overwrites the record, and with what.                                   *)
(***************************************************************************)
EXTENDS ImageStore_proofs

\* The layers a schema 1 manifest will have.
OldLayers(b) == {Layer(sum) : sum \in Range(DiffIDs(b))}

\* A pull of more than manifests holds the layers as well.
LayersInv ==
    ~manifestOnly =>
    /\ pc = "dispatch" =>
          /\ \A b \in held : b.type \in Parents /\ b \notin got =>
                Children(b) \subseteq todo \union held
          /\ desc.type = "schema1" => desc \in todo \/ OldLayers(desc) \subseteq todo \union held
    /\ pc = "convert" => OldLayers(desc) \subseteq held
    /\ pc \in {"config", "record", "unpack"} => Range(ManifestOf(desc).layers) \subseteq held

RecordInv ==
    \A n \in DOMAIN images :
        n \in DOMAIN Registry /\ \E fetched \in BOOLEAN : images[n] \in PulledAs(n, fetched)

\* What keeps a committed snapshot of layers, other than the lease of the pull.
Named(chain) ==
    \E n \in DOMAIN images :
        images[n] \in PulledAs(n, TRUE) /\ <<ManifestOf(images[n]).config, chain>> \in snapshotRefs
Leased(chain) == \E l \in DOMAIN leases \ {pullLease} : chain \in leases[l].unpacked

UnpackedInv ==
    /\ \A chain \in unpacked :
          \/ Named(chain) \/ Leased(chain)
          \/ pc = "label" /\ chain = ChainOf(desc, Snapshotter)
    /\ pc = "label" => /\ ChainOf(desc, Snapshotter) \in unpacked
                       /\ ChainOf(desc, Snapshotter) \in leases[pullLease].unpacked

\* What this run has pulled is there.
Found(n) ==
    /\ StoredName(n) \in DOMAIN images
    /\ images[StoredName(n)] \in PulledAs(StoredName(n), TRUE)
    /\ ChainOf(images[StoredName(n)], Snapshotter) \in unpacked
InWork(n) ==
    /\ n = name
    /\ pc \in {"pull"} \union PullingPcs \/ (pc = "release" /\ err # "none")

FoundInv ==
    /\ pc \in {"client", "list"} => pulled = {}
    /\ pc # "off" /\ mode = "prepare" => \A n \in pulled : Found(n) \/ InWork(n)

PrepareInv ==
    /\ LayersInv /\ RecordInv /\ UnpackedInv /\ FoundInv
    /\ err # "refused" /\ outcome # "refused"

-----------------------------------------------------------------------------
(* The layers. *)

LEMMA ConvertedLayers ==
    ASSUME NEW m, NEW fetched, fetched = TRUE
    PROVE  Range(ManifestOf(Convert(m, fetched)).layers) \subseteq OldLayers(m)
<1>1. ManifestOf(Convert(m, fetched)) = Convert(m, fetched)
    BY ConvertedIsManifest DEF IsManifest, ManifestOf
<1>2. Convert(m, fetched).layers = [i \in DOMAIN DiffIDs(m) |-> Layer(DiffIDs(m)[i])]
    BY DEF Convert, Manifest
<1> QED
    BY <1>1, <1>2 DEF Range, OldLayers

LEMMA LayersStep ==
    ASSUME LeaseInv, PullInv, DescInv, LayersInv, LeaseInv', Next
    PROVE  LayersInv'
<1> USE DEF PullPcs, PullingPcs, memory, pull, containerd, blobs, layers, Goto, Return, Continue,
            GoOn, FailPull, unchangedCaller
<1>0. AreHoldings(leases)
    BY DEF LeaseInv
<1>1. CASE pc' \notin {"dispatch", "convert", "config", "record", "unpack"}
    BY <1>1 DEF LayersInv
<1>2. SUFFICES ASSUME UNCHANGED mode, ~manifestOnly,
                      pc' \in {"dispatch", "convert", "config", "record", "unpack"}
               PROVE  LayersInv'
  <2>1. CASE mode' = mode
      BY <1>1, <1>2, <2>1 DEF LayersInv, manifestOnly
  <2>2. CASE mode' # mode
    <3>1. StartRun
        BY <2>2 DEF Next, NewClient, ListContainers, PrepareImages, InspectImage, DoPrepare,
                    EndOfContainers, EndPull, PrepareSnapshot, RemoveSnapshot, CreateSnapshot,
                    Crash, CollectGarbage, PullImage, WithLease, Resolve, Dispatch,
                    WriteManifest, WriteConfig, RecordImage, Unpack, LabelConfig
    <3> QED
        BY <1>1, <3>1 DEF StartRun
  <2> QED
      BY <2>1, <2>2
<1>3. /\ pc = "dispatch" =>
            /\ \A b \in held : b.type \in Parents /\ b \notin got =>
                  Children(b) \subseteq todo \union held
            /\ desc.type = "schema1" =>
                  desc \in todo \/ OldLayers(desc) \subseteq todo \union held
      /\ pc = "convert" => OldLayers(desc) \subseteq held
      /\ pc \in {"config", "record", "unpack"} => Range(ManifestOf(desc).layers) \subseteq held
    BY <1>2 DEF LayersInv
<1> DEFINE LayersHeld ==
      /\ pc' = "dispatch" =>
            /\ \A b \in held' : b.type \in Parents /\ b \notin got' =>
                  Children(b) \subseteq todo' \union held'
            /\ desc'.type = "schema1" =>
                  desc' \in todo' \/ OldLayers(desc') \subseteq todo' \union held'
      /\ pc' = "convert" => OldLayers(desc') \subseteq held'
      /\ pc' \in {"config", "record", "unpack"} => Range(ManifestOf(desc').layers) \subseteq held'
<1> SUFFICES LayersHeld
    BY <1>2 DEF LayersInv, Children, manifestOnly, OldLayers, ManifestOf
<1>4. CASE Resolve
  <2>1. pc' = "dispatch" /\ todo' = {desc'} /\ held' = {}
      BY <1>2, <1>4 DEF Resolve, PullInv, held
  <2> QED
      BY <2>1
<1>5. CASE Dispatch
  <2>0. DispatchInv /\ pullLease \in DOMAIN leases /\ pc = "dispatch"
      BY <1>5 DEF Dispatch, LeaseInv, PullInv
  <2>1. ASSUME NEW b \in todo, FetchBlob(b)
        PROVE  LayersHeld
    <3>1. /\ leases' = Hold(pullLease, "content", {b})
          /\ todo' = todo \ {b}
          /\ got' = IF b.type \in Parents THEN got \union {b} ELSE got
          /\ b.type # "schema1"
          /\ UNCHANGED <<pc, desc, pullLease>>
        BY <2>1 DEF FetchBlob, Store
    <3>2. held' = held \union {b}
        BY <1>0, <2>0, <3>1, HoldMore DEF held
    <3> QED
        BY <1>3, <2>0, <3>1, <3>2
  <2>2. ASSUME NEW b \in todo, HandleSchema1(b)
        PROVE  LayersHeld
    <3>1. UNCHANGED pc
        BY <1>2, <2>2 DEF HandleSchema1
    <3>2. /\ b = desc /\ todo' = (todo \ {b}) \union OldLayers(b)
          /\ UNCHANGED <<got, desc, held>> /\ b.type = "schema1"
        BY <1>2, <2>0, <2>2, <3>1 DEF HandleSchema1, OldLayers, DescInv, held
    <3>3. \A x \in held : x.type \in Parents => b \notin Children(x)
        BY <2>0, <3>2, ImageParts DEF DispatchInv
    <3> QED
        BY <1>3, <2>0, <3>1, <3>2, <3>3
  <2>3. ASSUME NEW b \in got, ReadChildren(b)
        PROVE  LayersHeld
    <3>1. UNCHANGED pc
        BY <1>2, <2>3 DEF ReadChildren
    <3>2. /\ got' = got \ {b} /\ todo' = todo \union Children(b)
          /\ UNCHANGED <<desc, held>>
        BY <2>0, <2>3, <3>1 DEF ReadChildren, held
    <3> QED
        BY <1>3, <2>0, <3>1, <3>2
  <2>4. CASE /\ todo = {} /\ got = {} /\ UNCHANGED <<pull, blobs, layers, leases>>
             /\ GoOn(IF desc.type = "schema1" THEN "convert" ELSE "record")
    <3>1. UNCHANGED <<held, desc>>
        BY <2>4 DEF held
    <3>2. CASE desc.type = "schema1"
        BY <1>3, <2>0, <2>4, <3>1, <3>2
    <3>3. CASE desc.type # "schema1"
      <4>1. IsImage(desc) /\ desc \in held
          BY <2>0, <2>4, <3>3 DEF DispatchInv
      <4>2. \A b \in held : IsImage(b) => Children(b) \subseteq held
          BY <1>3, <2>0, <2>4, ImageParts
      <4>3. ManifestOf(desc) \in held /\ IsManifest(ManifestOf(desc))
          BY <4>1, <4>2, ImageManifest, ImageParts
      <4>4. Range(ManifestOf(desc).layers) \subseteq Children(ManifestOf(desc))
          BY <1>2, <4>3 DEF Children, IsManifest
      <4>5. Range(ManifestOf(desc).layers) \subseteq held
          BY <4>2, <4>3, <4>4 DEF IsImage
      <4> QED
          BY <2>4, <3>1, <3>3, <4>5
    <3> QED
        BY <3>2, <3>3
  <2> QED
      BY <1>2, <1>5, <2>1, <2>2, <2>3, <2>4 DEF Dispatch
<1>6. CASE WriteManifest
  <2>1. /\ pullLease \in DOMAIN leases /\ pc = "convert" /\ pc' = "config"
        /\ leases' = Hold(pullLease, "content", {desc'})
        /\ UNCHANGED pullLease
      BY <1>2, <1>6 DEF WriteManifest, Store, LeaseInv
  <2>2. held \subseteq held'
      BY <1>0, <2>1, HoldMore DEF held
  <2>3. desc' = Convert(desc, ~manifestOnly)
      BY <1>2, <1>6 DEF WriteManifest
  <2>4. Range(ManifestOf(desc').layers) \subseteq OldLayers(desc)
      BY <1>2, <2>3, ConvertedLayers
  <2> QED
      BY <1>3, <2>1, <2>2, <2>4
<1>7. CASE WriteConfig
  <2>1. /\ pullLease \in DOMAIN leases /\ pc = "config" /\ pc' = "record"
        /\ leases' = Hold(pullLease, "content", {desc.config})
        /\ UNCHANGED <<desc, pullLease>>
      BY <1>2, <1>7 DEF WriteConfig, Store, LeaseInv
  <2>2. held \subseteq held'
      BY <1>0, <2>1, HoldMore DEF held
  <2> QED
      BY <1>3, <2>1, <2>2
<1>8. CASE RecordImage
    BY <1>2, <1>3, <1>8 DEF RecordImage, held
<1>9. CASE CollectGarbage
    BY <1>3, <1>9 DEF CollectGarbage, held
<1> QED
  <2>1. ~(\/ StartRun \/ NewClient \/ ListContainers \/ InspectImage \/ DoPrepare
          \/ EndOfContainers \/ EndPull \/ RemoveSnapshot \/ CreateSnapshot \/ Crash
          \/ WithLease \/ Unpack \/ LabelConfig)
      BY <1>2 DEF StartRun, NewClient, NewCtrdClient, ListContainers, InspectImage, DoPrepare,
             EndOfContainers, EndPull, RemoveSnapshot, CreateSnapshot, Crash, WithLease,
             Unpack, LabelConfig
  <2> QED
      BY <1>4, <1>5, <1>6, <1>7, <1>8, <1>9, <2>1
      DEF Next, PrepareImages, PullImage, PrepareSnapshot

-----------------------------------------------------------------------------
(* The records and what they keep. *)

LEMMA OnlyRecordImage ==
    ASSUME Next
    PROVE  UNCHANGED images \/ (images' = With(images, stored, desc) /\ pc = "record")
BY DEF Next, StartRun, NewClient, ListContainers, PrepareImages, InspectImage, DoPrepare,
       EndOfContainers, EndPull, PrepareSnapshot, RemoveSnapshot, CreateSnapshot,
       Crash, CollectGarbage, PullImage, WithLease, Resolve, Dispatch, FetchBlob,
       HandleSchema1, ReadChildren, WriteManifest, WriteConfig, Store, RecordImage,
       Unpack, LabelConfig, stored, containerd, blobs, layers, memory

LEMMA RecordStep ==
    ASSUME DescInv, RecordInv, Next
    PROVE  RecordInv'
<1>1. CASE UNCHANGED images
    BY <1>1 DEF RecordInv
<1>2. CASE images' = With(images, stored, desc) /\ pc = "record"
  <2>1. stored \in DOMAIN Registry /\ desc \in PulledAs(stored, ~manifestOnly)
      BY <1>2 DEF DescInv, PullPcs, PullingPcs
  <2>2. \E fetched \in BOOLEAN : desc \in PulledAs(stored, fetched)
      BY <2>1
  <2> QED
      BY <1>2, <2>1, <2>2 DEF RecordInv, With
<1> QED
    BY <1>1, <1>2, OnlyRecordImage

LEMMA RecordKeepsConfig ==
    ASSUME Undisturbed, CallerInv, DescInv, Next,
           NEW n \in DOMAIN images, images[n] \in PulledAs(n, TRUE)
    PROVE  /\ n \in DOMAIN images' /\ images'[n] \in PulledAs(n, TRUE)
           /\ ManifestOf(images'[n]).config = ManifestOf(images[n]).config
<1>1. CASE UNCHANGED images
    BY <1>1
<1>2. CASE images' = With(images, stored, desc) /\ pc = "record"
  <2>1. CASE n # stored
      BY <1>2, <2>1 DEF With
  <2>2. CASE n = stored
    <3>1. images'[n] = desc /\ n \in DOMAIN images'
        BY <1>2, <2>2 DEF With
    <3>2. n \in DOMAIN Registry /\ desc \in PulledAs(n, ~manifestOnly)
        BY <1>2, <2>2 DEF DescInv, PullPcs, PullingPcs
    <3>3. desc \in PulledAs(n, TRUE)
      <4>1. CASE ~manifestOnly
          BY <3>2, <4>1
      <4>2. CASE manifestOnly
        <5>1. /\ name \in FirstNames \ DOMAIN images
              /\ "image-manifest-only" \in Modes
            BY <1>2, <4>2 DEF CallerInv, PullPcs, PullingPcs, manifestOnly
        <5>2. StoredName(name) # name
            BY <2>2, <5>1 DEF stored
        <5>3. PulledAs(n, FALSE) \subseteq PulledAs(n, TRUE)
            BY <2>2, <3>2, <5>1, <5>2 DEF Undisturbed, FirstNames, stored
        <5> QED
            BY <3>2, <4>2, <5>3
      <4> QED
          BY <4>1, <4>2
    <3> QED
        BY <3>1, <3>2, <3>3 DEF Undisturbed
  <2> QED
      BY <2>1, <2>2
<1> QED
    BY <1>1, <1>2, OnlyRecordImage

\* The collector leaves the config of an image on record, and what it names.
LEMMA CollectorKeepsConfigs ==
    ASSUME PullInv, CollectGarbage, NEW n \in DOMAIN images
    PROVE  /\ ManifestOf(images[n]).config \in content'
           /\ \A chain \in unpacked :
                 <<ManifestOf(images[n]).config, chain>> \in snapshotRefs => chain \in unpacked'
<1> DEFINE b == images[n]
           config == ManifestOf(b).config
<1>1. b \in Range(images) /\ IsImage(b) /\ Readable(b)
    BY DEF Range, PullInv, ImagesReadable
<1>2. ManifestOf(b) \in {b} \union b.refs /\ config \in ManifestOf(b).refs
    BY <1>1, ImageManifest DEF IsManifest
<1>3. config \in Reachable(Range(images) \union Held("content")) /\ config \in content
    BY <1>1, <1>2, ReachableIncludes DEF Readable
<1> HIDE DEF b, config
<1>4. config \in content'
    BY <1>3 DEF CollectGarbage
<1>5. ASSUME NEW chain \in unpacked, <<config, chain>> \in snapshotRefs
      PROVE  chain \in unpacked'
  <2> DEFINE r == <<config, chain>>
  <2>1. r \in snapshotRefs /\ r[1] \in content' /\ r[2] = chain
      BY <1>4, <1>5
  <2> HIDE DEF r
  <2> QED
      BY <1>5, <2>1 DEF CollectGarbage
<1> QED
    BY <1>4, <1>5 DEF b, config

LEMMA NamedStays ==
    ASSUME Undisturbed, PullInv, CallerInv, DescInv, Next, NEW chain, Named(chain)
    PROVE  Named(chain)'
<1>1. PICK n \in DOMAIN images : /\ images[n] \in PulledAs(n, TRUE)
                                 /\ <<ManifestOf(images[n]).config, chain>> \in snapshotRefs
    BY DEF Named
<1>2. /\ n \in DOMAIN images' /\ images'[n] \in PulledAs(n, TRUE)
      /\ ManifestOf(images'[n]).config = ManifestOf(images[n]).config
    BY <1>1, RecordKeepsConfig
<1>3. <<ManifestOf(images[n]).config, chain>> \in snapshotRefs'
  <2> DEFINE r == <<ManifestOf(images[n]).config, chain>>
  <2>1. CASE CollectGarbage
    <3>1. r \in snapshotRefs /\ r[1] = ManifestOf(images[n]).config
        BY <1>1
    <3>2. ManifestOf(images[n]).config \in content'
        BY <2>1, CollectorKeepsConfigs
    <3> QED
        BY <2>1, <3>1, <3>2 DEF CollectGarbage
  <2>2. CASE ~CollectGarbage
    <3>1. snapshotRefs \subseteq snapshotRefs'
        BY <2>2
        DEF Next, StartRun, NewClient, ListContainers, PrepareImages, InspectImage, DoPrepare,
            EndOfContainers, EndPull, PrepareSnapshot, RemoveSnapshot, CreateSnapshot,
            Crash, PullImage, WithLease, Resolve, Dispatch, FetchBlob, HandleSchema1,
            ReadChildren, WriteManifest, WriteConfig, Store, RecordImage, Unpack, LabelConfig,
            containerd, layers
    <3> QED
        BY <1>1, <3>1
  <2> QED
      BY <2>1, <2>2
<1> QED
    BY <1>2, <1>3 DEF Named

\* The leases of earlier pulls stay.
LEMMA LeasedStays ==
    ASSUME LeaseInv, Next, NEW chain, Leased(chain)
    PROVE  Leased(chain)'
<1> USE DEF PullPcs, memory, pull, containerd, blobs, layers, Goto, Return, Continue, GoOn,
            FailPull, unchangedCaller
<1>0. AreHoldings(leases) /\ DOMAIN leases \subseteq LeaseIds
    BY DEF LeaseInv
<1>1. PICK l \in DOMAIN leases \ {pullLease} : chain \in leases[l].unpacked
    BY DEF Leased
<1>2. SUFFICES l \in DOMAIN leases' \ {pullLease'} /\ leases[l].unpacked \subseteq leases'[l].unpacked
    BY <1>1 DEF Leased
<1>3. CASE UNCHANGED <<leases, pullLease>>
    BY <1>1, <1>3
<1>4. CASE NewClient
    BY <1>1, <1>3, <1>4 DEF NewClient, NewCtrdClient
<1>5. CASE WithLease
  <2>1. ASSUME NEW m \in LeaseIds \ DOMAIN leases, leases' = With(leases, m, NoHold),
               pullLease' = m
        PROVE  l \in DOMAIN leases' \ {pullLease'} /\ leases'[l] = leases[l]
      BY <1>0, <1>1, <2>1, NewLease
  <2> QED
      BY <1>3, <1>5, <2>1 DEF WithLease
<1>6. ASSUME NEW S, NEW kind \in {"content", "unpacked", "containers"}, NEW m \in DOMAIN leases,
             leases' = Hold(m, kind, S), UNCHANGED pullLease, kind = "unpacked" => m = pullLease
      PROVE  l \in DOMAIN leases' \ {pullLease'} /\ leases'[l].unpacked = leases[l].unpacked
    BY <1>0, <1>1, <1>6, HoldMore
<1>7. CASE \E b \in todo : Dispatch /\ FetchBlob(b)
    BY <1>6, <1>7 DEF Dispatch, FetchBlob, Store, LeaseInv
<1>8. CASE WriteManifest
    BY <1>3, <1>6, <1>8 DEF WriteManifest, Store, LeaseInv
<1>9. CASE WriteConfig
    BY <1>3, <1>6, <1>9 DEF WriteConfig, Store, LeaseInv
<1>10. CASE Unpack
    BY <1>3, <1>6, <1>10 DEF Unpack, LeaseInv
<1>11. CASE CreateSnapshot
    BY <1>3, <1>6, <1>11 DEF CreateSnapshot, LeaseInv
<1>12. CASE EndPull
    BY <1>0, <1>1, <1>12, LeaseAssumption DEF EndPull, ForgetPull, Without, Restrict
<1>13. CASE Crash
    BY <1>0, <1>1, <1>13, LeaseAssumption DEF Crash, ForgetPull
<1> QED
  <2>1. \/ StartRun \/ ListContainers \/ InspectImage \/ DoPrepare \/ EndOfContainers
        \/ Resolve \/ RecordImage \/ LabelConfig \/ RemoveSnapshot \/ CollectGarbage
        => UNCHANGED <<leases, pullLease>>
      BY DEF StartRun, ListContainers, InspectImage, DoPrepare, EndOfContainers, Resolve,
             RecordImage, LabelConfig, RemoveSnapshot, CollectGarbage
  <2>2. CASE Dispatch
      BY <1>3, <1>7, <2>2 DEF Dispatch, HandleSchema1, ReadChildren
  <2> QED
      BY <1>3, <1>4, <1>5, <1>8, <1>9, <1>10, <1>11, <1>12, <1>13, <2>1, <2>2
      DEF Next, PrepareImages, PullImage, PrepareSnapshot

\* The layers that some pull has unpacked are never taken again.
LEMMA UnpackedGrows ==
    ASSUME LeaseInv, PullInv, UnpackedInv, Next
    PROVE  unpacked \subseteq unpacked'
<1>1. CASE CollectGarbage
  <2> SUFFICES ASSUME NEW chain \in unpacked
               PROVE  chain \in unpacked'
      OBVIOUS
  <2>1. CASE Named(chain)
      BY <1>1, <2>1, CollectorKeepsConfigs DEF Named
  <2>2. ASSUME NEW l \in DOMAIN leases, chain \in leases[l].unpacked
        PROVE  chain \in unpacked'
    <3>1. chain \in Held("unpacked")
        BY <2>2 DEF Held
    <3> QED
        BY <1>1, <3>1 DEF CollectGarbage
  <2>3. CASE Leased(chain)
      BY <2>2, <2>3 DEF Leased
  <2>4. CASE pc = "label" /\ chain = ChainOf(desc, Snapshotter)
      BY <2>2, <2>4 DEF UnpackedInv, LeaseInv, PullPcs
  <2> QED
      BY <2>1, <2>3, <2>4 DEF UnpackedInv
<1>2. CASE ~CollectGarbage
    BY <1>2
    DEF Next, StartRun, NewClient, ListContainers, PrepareImages, InspectImage, DoPrepare,
        EndOfContainers, EndPull, PrepareSnapshot, RemoveSnapshot, CreateSnapshot, Crash,
        PullImage, WithLease, Resolve, Dispatch, FetchBlob, HandleSchema1, ReadChildren,
        WriteManifest, WriteConfig, Store, RecordImage, Unpack, LabelConfig, containerd, layers
<1> QED
    BY <1>1, <1>2

LEMMA UnpackedStep ==
    ASSUME Undisturbed, LeaseInv, PullInv, CallerInv, DescInv, UnpackedInv, Next
    PROVE  UnpackedInv'
<1> USE DEF PullPcs, PullingPcs, memory, pull, containerd, blobs, layers, Goto, Return, Continue,
            GoOn, FailPull, unchangedCaller
<1>0. AreHoldings(leases)
    BY DEF LeaseInv
<1>1. \A chain \in unpacked : Named(chain) \/ Leased(chain) => Named(chain)' \/ Leased(chain)'
    BY NamedStays, LeasedStays
<1>2. CASE pc # "label" /\ pc' # "label" /\ unpacked' \subseteq unpacked
    BY <1>1, <1>2 DEF UnpackedInv
<1>3. CASE Unpack
  <2>1. CASE pc' = "label"
    <3>1. /\ pullLease \in DOMAIN leases /\ pc = "unpack"
          /\ unpacked' = unpacked \union {ChainOf(desc, Snapshotter)}
          /\ leases' = Hold(pullLease, "unpacked", {ChainOf(desc, Snapshotter)})
          /\ UNCHANGED <<desc, pullLease>>
        BY <1>3, <2>1 DEF Unpack, LeaseInv
    <3>2. ChainOf(desc, Snapshotter) \in leases'[pullLease].unpacked
      <4> DEFINE chain == ChainOf(desc, Snapshotter)
      <4>1. leases' = Hold(pullLease, "unpacked", {chain}) /\ pullLease \in DOMAIN leases
          BY <3>1
      <4> HIDE DEF chain
      <4>2. leases'[pullLease]["unpacked"] = leases[pullLease]["unpacked"] \union {chain}
          BY <1>0, <4>1, HoldMore
      <4> QED
          BY <4>2 DEF chain
    <3>3. \A chain \in unpacked' :
              Named(chain)' \/ Leased(chain)' \/ chain = ChainOf(desc', Snapshotter)
        BY <1>1, <3>1 DEF UnpackedInv
    <3> QED
        BY <2>1, <3>1, <3>2, <3>3 DEF UnpackedInv, ChainOf, ManifestOf
  <2>2. CASE pc' # "label"
      BY <1>2, <1>3, <2>2 DEF Unpack
  <2> QED
      BY <2>1, <2>2
<1>4. CASE LabelConfig
  <2>1. /\ pc = "label" /\ pc' = "release" /\ ~manifestOnly
        /\ UNCHANGED <<images, unpacked>>
        /\ stored \in DOMAIN images /\ images[stored] = desc
        /\ snapshotRefs' = snapshotRefs \union
              {<<ManifestOf(desc).config, ChainOf(desc, Snapshotter)>>}
      BY <1>4 DEF LabelConfig, Undisturbed, DescInv
  <2>2. desc \in PulledAs(stored, TRUE)
      BY <2>1 DEF DescInv
  <2>3. ASSUME NEW chain, chain = ChainOf(desc, Snapshotter)
        PROVE  Named(chain)'
    <3>1. /\ stored \in DOMAIN images' /\ images'[stored] \in PulledAs(stored, TRUE)
          /\ <<ManifestOf(images'[stored]).config, chain>> \in snapshotRefs'
        BY <2>1, <2>2, <2>3
    <3> QED
        BY <3>1 DEF Named
  <2> QED
      BY <1>1, <2>1, <2>3 DEF UnpackedInv
<1>5. CASE Crash
  <2>1. pc' = "off" /\ pullLease' = "none" /\ UNCHANGED <<unpacked, leases>>
      BY <1>5 DEF Crash, ForgetPull
  <2>2. ASSUME pc = "label", NEW chain, chain = ChainOf(desc, Snapshotter)
        PROVE  Leased(chain)'
    <3>1. pullLease \in DOMAIN leases' \ {pullLease'}
        BY <2>1, <2>2, LeaseAssumption DEF LeaseInv
    <3>2. chain \in leases'[pullLease].unpacked
        BY <2>1, <2>2 DEF UnpackedInv
    <3> QED
        BY <3>1, <3>2 DEF Leased
  <2> QED
      BY <1>1, <2>1, <2>2 DEF UnpackedInv
<1>6. CASE CollectGarbage
  <2>1. UNCHANGED <<pc, desc, pullLease, leases>> /\ unpacked' \subseteq unpacked
      BY <1>6 DEF CollectGarbage
  <2>2. unpacked \subseteq unpacked'
      BY UnpackedGrows
  <2>3. UNCHANGED ChainOf(desc, Snapshotter)
      BY <2>1 DEF ChainOf, ManifestOf
  <2> QED
      BY <1>1, <2>1, <2>2, <2>3 DEF UnpackedInv
<1> QED
  <2>1. \/ StartRun \/ NewClient \/ ListContainers \/ InspectImage \/ DoPrepare
        \/ EndOfContainers \/ WithLease \/ Resolve \/ WriteManifest \/ WriteConfig
        \/ RecordImage \/ EndPull \/ RemoveSnapshot \/ CreateSnapshot
        => pc # "label" /\ pc' # "label" /\ unpacked' = unpacked
      BY DEF StartRun, NewClient, NewCtrdClient, ListContainers, InspectImage, DoPrepare,
             EndOfContainers, WithLease, Resolve, WriteManifest, WriteConfig, Store,
             RecordImage, EndPull, RemoveSnapshot, CreateSnapshot
  <2>2. Dispatch => pc # "label" /\ pc' # "label" /\ unpacked' = unpacked
      BY DEF Dispatch, FetchBlob, HandleSchema1, ReadChildren, Store
  <2> QED
      BY <1>2, <1>3, <1>4, <1>5, <1>6, <2>1, <2>2
      DEF Next, PrepareImages, PullImage, PrepareSnapshot

-----------------------------------------------------------------------------
(* What a run has pulled. *)

LEMMA FoundStays ==
    ASSUME Undisturbed, LeaseInv, PullInv, CallerInv, DescInv, UnpackedInv, Next,
           NEW n, Found(n)
    PROVE  Found(n)'
<1> DEFINE s == StoredName(n)
<1>1. /\ s \in DOMAIN images' /\ images'[s] \in PulledAs(s, TRUE)
      /\ ManifestOf(images'[s]).config = ManifestOf(images[s]).config
    BY RecordKeepsConfig DEF Found
<1>2. ChainOf(images'[s], Snapshotter) = ChainOf(images[s], Snapshotter)
    BY <1>1 DEF ChainOf
<1>3. ChainOf(images'[s], Snapshotter) \in unpacked'
    BY <1>2, UnpackedGrows DEF Found
<1> QED
    BY <1>1, <1>3 DEF Found, ChainOf, ManifestOf

LEMMA FoundStep ==
    ASSUME Undisturbed, LeaseInv, LoopInv, PullInv, CallerInv, DescInv, UnpackedInv, FoundInv,
           Next
    PROVE  FoundInv'
<1> USE DEF PullPcs, PullingPcs, memory, pull, containerd, blobs, layers, Goto, Return, Continue,
            GoOn, FailPull, unchangedCaller
<1>1. \A n : Found(n) => Found(n)'
    BY FoundStays
<1>2. CASE pc' = "off"
    BY <1>2 DEF FoundInv
<1>3. CASE pulled' = {}
    BY <1>3 DEF FoundInv
<1>4. ASSUME pc # "off", pc' \notin {"client", "list"}, UNCHANGED <<mode, pulled>>,
             mode = "prepare" => \A n \in pulled : InWork(n) => InWork(n)' \/ Found(n)'
      PROVE  FoundInv'
    BY <1>1, <1>4 DEF FoundInv
<1>5. CASE InspectImage
    BY <1>4, <1>5 DEF InspectImage, LoopInv
<1>6. CASE DoPrepare
  <2>1. /\ pc = "prepare" /\ pc' \in {"clear", "pull"}
        /\ pulled' = pulled \union {name'} /\ UNCHANGED mode
        /\ pc' = "clear" => name' \in pulled
      BY <1>6 DEF DoPrepare
  <2>2. mode = "prepare" /\ \A n \in pulled : Found(n)'
      BY <1>1, <2>1 DEF FoundInv, InWork, LoopInv
  <2> QED
      BY <2>1, <2>2 DEF FoundInv, InWork
<1>7. CASE EndPull
  <2>1. /\ pc = "release" /\ UNCHANGED <<mode, pulled, name>>
        /\ pc' \notin {"client", "list"} /\ (err # "none" => pc' = "off")
      BY <1>7 DEF EndPull
  <2> QED
      BY <1>2, <1>4, <2>1 DEF InWork
<1>8. CASE EndOfContainers \/ RemoveSnapshot \/ CreateSnapshot
    BY <1>2, <1>4, <1>8 DEF EndOfContainers, RemoveSnapshot, CreateSnapshot, InWork
<1>9. CASE CollectGarbage /\ UNCHANGED <<k, listed, pulled, outcome, runs>>
  <2>1. UNCHANGED <<pc, mode, name, err, pulled>>
      BY <1>9 DEF CollectGarbage
  <2> QED
      BY <1>1, <2>1 DEF FoundInv, InWork
<1>10. CASE PullImage /\ UNCHANGED <<k, listed, pulled, outcome, runs>>
  <2>1. pc \in {"pull"} \union PullingPcs /\ UNCHANGED <<mode, name, pulled>>
      BY <1>10 DEF PullImage, WithLease, Resolve, Dispatch, WriteManifest, WriteConfig,
                   RecordImage, Unpack, LabelConfig
  <2>2. \/ pc' \in {"pull"} \union PullingPcs
        \/ pc' = "release" /\ err' # "none"
        \/ pc' = "release" /\ pc = "record" /\ manifestOnly
        \/ /\ pc' = "release" /\ pc \in {"unpack", "label"} /\ UNCHANGED <<images, unpacked>>
           /\ pc = "unpack" => ChainOf(desc, Snapshotter) \in unpacked
    <3>1. CASE WithLease \/ Resolve \/ WriteManifest \/ WriteConfig
        BY <3>1 DEF WithLease, Resolve, WriteManifest, WriteConfig
    <3>2. CASE Dispatch
        BY <3>2 DEF Dispatch, FetchBlob, HandleSchema1, ReadChildren
    <3>3. CASE RecordImage
        BY <3>3 DEF RecordImage
    <3>4. CASE Unpack \/ LabelConfig
        BY <3>4 DEF Unpack, LabelConfig
    <3> QED
        BY <1>10, <3>1, <3>2, <3>3, <3>4 DEF PullImage
  <2>3. ASSUME pc \in {"unpack", "label"}, ChainOf(desc, Snapshotter) \in unpacked
        PROVE  Found(name)
    <3>1. /\ ~manifestOnly /\ desc \in PulledAs(stored, ~manifestOnly)
          /\ stored \in DOMAIN images /\ images[stored] = desc
        BY <2>3 DEF DescInv
    <3>2. desc \in PulledAs(stored, TRUE)
        BY <3>1
    <3> QED
        BY <2>3, <3>1, <3>2 DEF Found, stored
  <2>4. pc' = "release" /\ err' = "none" /\ mode = "prepare" => Found(name)
      BY <2>1, <2>2, <2>3 DEF UnpackedInv, manifestOnly
  <2>5. mode = "prepare" => \A n \in pulled : InWork(n) => InWork(n)' \/ Found(n)'
      BY <1>1, <2>1, <2>2, <2>4 DEF InWork, manifestOnly
  <2> QED
      BY <1>4, <2>1, <2>2, <2>5
<1> QED
  <2>1. NewClient \/ ListContainers => pulled = {} /\ UNCHANGED pulled
      BY DEF NewClient, ListContainers, FoundInv
  <2>2. StartRun => pulled' = {}
      BY DEF StartRun
  <2>3. Crash => pc' = "off"
      BY DEF Crash
  <2> QED
      BY <1>2, <1>3, <1>5, <1>6, <1>7, <1>8, <1>9, <1>10, <2>1, <2>2, <2>3
      DEF Next, PrepareImages, PrepareSnapshot

-----------------------------------------------------------------------------
(* Nothing is refused. *)

LEMMA RefusedStep ==
    ASSUME Undisturbed, StoreInv, PrepareInv, Next
    PROVE  err' # "refused" /\ outcome' # "refused"
<1> USE DEF PullPcs, PullingPcs, memory, pull, containerd, blobs, layers, Goto, Return, Continue,
            GoOn, FailPull, unchangedCaller
<1>0. /\ StoreInv /\ LeaseInv /\ LoopInv /\ PullInv /\ NameInv
      /\ CallerInv /\ DescInv /\ LayersInv /\ UnpackedInv /\ FoundInv
      /\ err # "refused" /\ outcome # "refused"
    BY DEF StoreInv, PrepareInv
<1>1. CASE InspectImage
  <2>1. listed[k] \in Containers /\ ~(Modes \subseteq {"prepare"})
      BY <1>0, <1>1, ListedContainer DEF InspectImage, LoopInv, CallerInv
  <2>2. RepoTags[listed[k]] \o RepoDigests[listed[k]] # <<>>
      BY <2>1 DEF Undisturbed
  <2> QED
      BY <1>0, <1>1, <2>2 DEF InspectImage
<1>2. ASSUME Dispatch PROVE err' # "refused"
  <2>1. ASSUME NEW b \in got, ReadChildren(b)
        PROVE  err' # "refused"
    <3>1. b \in content
        BY <1>0, <1>2 DEF Dispatch, PullInv, DispatchInv, LeaseInv, held
    <3> QED
        BY <1>0, <2>1, <3>1 DEF ReadChildren
  <2> QED
      BY <1>0, <1>2, <2>1 DEF Dispatch, FetchBlob, HandleSchema1
<1>3. ASSUME Unpack PROVE err' # "refused"
  <2>1. /\ stored \in DOMAIN images /\ images[stored] = desc /\ ~manifestOnly
        /\ pc = "unpack"
      BY <1>0, <1>3 DEF Unpack, DescInv
  <2>2. Readable(desc)
      BY <1>0, <2>1 DEF PullInv, ImagesReadable
  <2>3. Range(ManifestOf(desc).layers) \subseteq content
      BY <1>0, <2>1 DEF LayersInv, LeaseInv, held
  <2> QED
      BY <1>0, <1>3, <2>2, <2>3 DEF Unpack
<1>4. CASE CreateSnapshot
  <2> DEFINE ref == ImageName[listed[k]]
  <2>1. /\ pc = "snapshot" /\ mode = "prepare" /\ listed[k] \in Containers
        /\ name = ref /\ name \in pulled
      BY <1>0, <1>4, ListedContainer DEF CreateSnapshot, LoopInv, CallerInv
  <2>2. Found(ref) /\ StoredName(ref) = ref
      BY <1>0, <2>1 DEF FoundInv, InWork, Undisturbed
  <2>3. /\ ref \in DOMAIN images /\ Readable(images[ref])
        /\ ChainOf(images[ref], "overlayfs") \in unpacked
      BY <1>0, <2>2 DEF Found, PullInv, ImagesReadable, Undisturbed
  <2> QED
      BY <1>0, <1>4, <2>3 DEF CreateSnapshot
<1>5. CASE PullImage /\ UNCHANGED <<k, listed, pulled, outcome, runs>>
  <2>1. err' # "refused"
      BY <1>0, <1>2, <1>3, <1>5
      DEF PullImage, WithLease, Resolve, WriteManifest, WriteConfig, RecordImage, LabelConfig
  <2> QED
      BY <1>0, <1>5, <2>1
<1>6. CASE StartRun \/ NewClient \/ ListContainers \/ DoPrepare \/ EndOfContainers
    BY <1>0, <1>6
    DEF StartRun, NewClient, NewCtrdClient, ListContainers, DoPrepare, EndOfContainers
<1>7. CASE EndPull \/ RemoveSnapshot \/ Crash
    BY <1>0, <1>7 DEF EndPull, ForgetPull, RemoveSnapshot, Crash
<1>8. CASE CollectGarbage /\ UNCHANGED <<k, listed, pulled, outcome, runs>>
    BY <1>0, <1>8 DEF CollectGarbage
<1> QED
    BY <1>1, <1>4, <1>5, <1>6, <1>7, <1>8 DEF Next, PrepareImages, PrepareSnapshot

-----------------------------------------------------------------------------
(* The theorem. *)

LEMMA PrepareInitially == Init => PrepareInv
<1> SUFFICES ASSUME Init
             PROVE  PrepareInv
    OBVIOUS
<1> USE DEF Init, NoPull
<1>1. pc = "off" /\ DOMAIN images = {} /\ unpacked = {}
    OBVIOUS
<1> QED
    BY <1>1 DEF PrepareInv, LayersInv, RecordInv, UnpackedInv, FoundInv, PullPcs, PullingPcs

LEMMA PrepareStep ==
    ASSUME Undisturbed, StoreInv, StoreInv', PrepareInv, [Next]_vars
    PROVE  PrepareInv'
<1>1. CASE Next
  <2>1. RecordInv'
      BY <1>1, RecordStep DEF StoreInv, PrepareInv
  <2>2. LayersInv'
      BY <1>1, LayersStep DEF StoreInv, PrepareInv
  <2>3. UnpackedInv' /\ FoundInv'
      BY <1>1, UnpackedStep, FoundStep DEF StoreInv, PrepareInv
  <2> QED
      BY <1>1, <2>1, <2>2, <2>3, RefusedStep DEF PrepareInv
<1>2. CASE UNCHANGED vars
  <2> USE <1>2 DEF vars, memory, pull, containerd, blobs, layers, PrepareInv
  <2>1. RecordInv'
      BY DEF RecordInv
  <2>2. LayersInv'
      BY DEF LayersInv, held, manifestOnly, Children, ManifestOf, OldLayers
  <2>3. UNCHANGED <<images, snapshotRefs, leases, pullLease, unpacked, pc, desc, pulled, name,
                    mode, err>>
      OBVIOUS
  <2>4. UnpackedInv'
      BY <2>3 DEF UnpackedInv, Named, Leased
  <2>5. FoundInv'
      BY <2>3 DEF FoundInv, Found, InWork
  <2> QED
      BY <2>1, <2>2, <2>4, <2>5
<1> QED
    BY <1>1, <1>2

(***************************************************************************)
(* A preparation never stops for want of what it has pulled itself, as     *)
(* long as it is undisturbed: whatever else fails, whenever the collector  *)
(* runs, and whatever earlier runs of any mode have left - a part of an    *)
(* image, its manifest only, its layers under a lease of a run that died - *)
(* doPrepare's CreateSnapshot finds the image and its unpacked layers, and *)
(* ends with a snapshot for every container.                               *)
(***************************************************************************)
THEOREM PreparationsSucceed ==
    ASSUME Undisturbed
    PROVE  Spec => []PreparationSucceeds
<1>1. Init => PrepareInv
    BY PrepareInitially
<1>2. StoreInv /\ StoreInv' /\ PrepareInv /\ [Next]_vars => PrepareInv'
    BY PrepareStep
<1>3. StoreInv /\ PrepareInv => PreparationSucceeds
    BY DEF StoreInv, PrepareInv, LoopInv, PreparationSucceeds
<1> QED
    BY <1>1, <1>2, <1>3, StoreInvHolds, PTL DEF Spec

(***************************************************************************)
(* Layers that were unpacked once are never taken by the collector, for    *)
(* CreateSnapshot to miss them, under the same conditions.                 *)
(***************************************************************************)
THEOREM LayersAreKept ==
    ASSUME Undisturbed
    PROVE  Spec => [][unpacked \subseteq unpacked']_vars
<1>1. Init => PrepareInv
    BY PrepareInitially
<1>2. StoreInv /\ StoreInv' /\ PrepareInv /\ [Next]_vars => PrepareInv'
    BY PrepareStep
<1>3. StoreInv /\ PrepareInv /\ [Next]_vars => [unpacked \subseteq unpacked']_vars
    BY UnpackedGrows DEF StoreInv, PrepareInv
<1> QED
    BY <1>1, <1>2, <1>3, StoreInvHolds, PTL DEF Spec
=============================================================================
