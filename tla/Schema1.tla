------------------------------- MODULE Schema1 -------------------------------
(***************************************************************************)
(* The conversion of docker's schema 1 manifests, which have no config: a  *)
(* list of layers, the newest first, and beside it a history with what was *)
(* known of each.  Blobs are values: two with the same content are one.    *)
(* A blob's refs are those its gc labels name.                             *)
(***************************************************************************)
EXTENDS Naturals, Functions, Selection

NoBlob == [type |-> "none", refs |-> {}] \* ocispec.Descriptor{}
Layer(sum) == [type |-> "layer", refs |-> {}, sum |-> sum]
Config(history, diffIDs) ==
    [type |-> "config", refs |-> {}, history |-> history, diffIDs |-> diffIDs]
Manifest(config, layers) ==
    [type |-> "manifest", refs |-> {config} \union Range(layers), config |-> config,
     layers |-> layers]

\* fsLayers are blob sums; an entry of history is [created, throwaway, size].
Schema1Manifest(fsLayers, history, signatures) ==
    [type |-> "schema1", refs |-> {}, fsLayers |-> fsLayers, history |-> history,
     signatures |-> signatures]

HistoryEntry ==
    [created : Nat, throwaway : {"unset", "true", "false"}, size : {"unset", "zero", "some"}]

IsSchema1(m) ==
    m.type = "schema1" /\ m.fsLayers \in Seq(STRING) /\ m.history \in Seq(HistoryEntry)

\* What was signed is taken from the first signature's protected block, whose
\* length may not exceed that of the manifest.
StripSignature(m) == m.signatures # <<>> /\ m.signatures[1] \in {"shorter", "equal"}

WellFormed(m) == StripSignature(m) /\ Len(m.fsLayers) = Len(m.history)

IsEmptyLayer(h) ==
    IF h.throwaway # "unset" THEN h.throwaway = "true" ELSE h.size = "zero"

\* blobMap: of the entries with the same blob sum the first decides.
EmptyBlobs(m) ==
    LET First(i) == \A j \in 1..(i - 1) : m.fsLayers[j] # m.fsLayers[i]
    IN  {m.fsLayers[i] : i \in {j \in DOMAIN m.fsLayers :
                                   First(j) /\ IsEmptyLayer(m.history[j])}}

\* Mutant: each entry decides for itself.
Schema1ManifestHistory_Each(m) ==
    [i \in DOMAIN m.history |->
        LET j == Len(m.history) + 1 - i IN
        [created |-> m.history[j].created, empty |-> IsEmptyLayer(m.history[j])]]

\* The history of the config, the oldest entry first.
Schema1ManifestHistory(m) ==
    [i \in DOMAIN m.history |->
        LET j == Len(m.history) + 1 - i IN
        [created |-> m.history[j].created, empty |-> m.fsLayers[j] \in EmptyBlobs(m)]]

\* The blob sums of the layers that are not empty, the oldest first.
DiffIDs(m) ==
    LET oldestFirst == [i \in DOMAIN m.fsLayers |-> m.fsLayers[Len(m.fsLayers) + 1 - i]]
    IN  Skip(oldestFirst, EmptyBlobs(m))

\* The converter of PullManifest fetches no layer and knows no diffID: it has
\* empty ones, and empty descriptors for the layers.  Pull uses containerd's own
\* converter, which has both; that it also takes a layer for empty whose content
\* is, once fetched, is left out.
Convert(m, fetched) ==
    LET sums == DiffIDs(m)
        Known(sum) == IF fetched THEN sum ELSE ""
        Described(sum) == IF fetched THEN Layer(sum) ELSE NoBlob
    IN  Manifest(Config(Schema1ManifestHistory(m), [i \in DOMAIN sums |-> Known(sums[i])]),
                 [i \in DOMAIN sums |-> Described(sums[i])])
=============================================================================
