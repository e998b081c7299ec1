------------------------- MODULE PouchStores_proofs -------------------------
(***************************************************************************)
(* Proofs about PouchStores, for every host, any faults, any number of     *)
(* runs and whatever users do: what a run that reports success has stored  *)
(* of volumes and sandboxes, and that the boltdb is closed.                *)
(***************************************************************************)
EXTENDS PouchStores, Selection_proofs, SequenceTheorems

LockedPcs == {"refs", "put", "close", "closeFailed"}

\* What a container is in docker, whatever its state.
DockerInv ==
    /\ conts \subseteq Containers
    /\ vols \subseteq Volumes
    /\ DOMAIN docker = Containers
    /\ \A c \in Containers :
          /\ {"id", "name", "mounts"} \subseteq DOMAIN docker[c]
          /\ docker[c].id = c
          /\ {"slash", "attempt"} \subseteq DOMAIN docker[c].name

\* The name of a container without its slash.
Canonical(c) == [docker[c].name EXCEPT !.slash = FALSE]

LockInv == boltLock = (pc \in LockedPcs)

\* The references to v of the first n - 1 containers listed.
RefsUpTo(v, n) ==
    /\ volumeRefs[v] \in Seq(Containers)
    /\ IsInjective(volumeRefs[v])
    /\ Range(volumeRefs[v]) =
          {c \in {listed[i] : i \in {j \in DOMAIN listed : j < n}} : v \in Mounts(c)}

\* The sandboxes among them are kept for CRI, under the names docker has.
SandboxesUpTo(n) ==
    \A i \in DOMAIN listed : i < n /\ SandboxName(Canonical(listed[i])) =>
        \E j \in DOMAIN sandboxContainers : sandboxContainers[j].id = listed[i]

\* The first n - 1 volumes are in the store with all their references.
StoredUpTo(n) ==
    \A i \in DOMAIN pouchVolumes : i < n =>
        /\ pouchVolumes[i] \in DOMAIN volumeDb
        /\ volumeDb[pouchVolumes[i]].ref = volumeRefs[pouchVolumes[i]]

\* The first n - 1 sandboxes are in CRI's.
CreatedUpTo(n) ==
    \A j \in DOMAIN sandboxContainers : j < n =>
        /\ sandboxContainers[j].id \in DOMAIN sandboxDb
        /\ sandboxDb[sandboxContainers[j].id].config.metadata.attempt
             = docker[sandboxContainers[j].id].name.attempt

Inspected == pc \in {"open", "refs", "put", "close", "closeFailed", "sandboxes"}
             \/ outcome = "prepared"
AllStored == pc \in {"close", "sandboxes"} \/ outcome = "prepared"

CollectInv ==
    /\ k \in Nat \ {0}
    /\ pc # "off" => outcome = "none"
    /\ listed \in Seq(Containers)
    /\ IsInjective(listed)
    /\ pouchVolumes \in Seq({v \in Volumes : VolumeDriver[v] \in {"local", "alilocal"}})
    /\ pc \in {"list", "volumes"} => sandboxContainers = <<>> /\ k = 1
    /\ pc = "list" => listed = <<>> /\ pouchVolumes = <<>>
    /\ DOMAIN volumeRefs = Volumes
    /\ pc \in {"list", "volumes"} => \A v \in Volumes : volumeRefs[v] = <<>>
    /\ pc = "inspect" => \A v \in Volumes : RefsUpTo(v, k)
    /\ Inspected => \A v \in Volumes : RefsUpTo(v, Len(listed) + 1)

VolumeInv ==
    /\ DOMAIN specs = Volumes
    /\ pc \in {"list", "volumes", "inspect", "open"} => \A v \in Volumes : specs[v] = Spec0
    /\ pc \in {"refs", "put", "close"} =>
          \A v \in Volumes : specs[v].ref \in {<<>>, volumeRefs[v]}
    /\ pc = "refs" => \A i \in DOMAIN pouchVolumes : i < k =>
          specs[pouchVolumes[i]].ref = volumeRefs[pouchVolumes[i]]
    /\ pc = "put" => \A i \in DOMAIN pouchVolumes :
          specs[pouchVolumes[i]].ref = volumeRefs[pouchVolumes[i]]
    /\ pc = "put" => StoredUpTo(k)
    /\ AllStored => StoredUpTo(Len(pouchVolumes) + 1)

SandboxInv ==
    /\ sandboxContainers \in Seq(Range(sandboxContainers))
    /\ \A j \in DOMAIN sandboxContainers :
          /\ sandboxContainers[j].id \in Containers
          /\ sandboxContainers[j].name = Canonical(sandboxContainers[j].id)
    /\ pc = "inspect" => SandboxesUpTo(k)
    /\ Inspected => SandboxesUpTo(Len(listed) + 1)
    /\ pc = "sandboxes" => CreatedUpTo(k)
    /\ outcome = "prepared" => CreatedUpTo(Len(sandboxContainers) + 1)

StoresInv == DockerInv /\ LockInv /\ CollectInv /\ VolumeInv /\ SandboxInv

-----------------------------------------------------------------------------
(* docker *)

LEMMA DockerStep ==
    ASSUME DockerInv, Next
    PROVE  /\ DockerInv'
           /\ \A c \in Containers :
                 docker'[c].name = docker[c].name /\ docker'[c].mounts = docker[c].mounts
<1> USE DEF DockerInv, dockerVars
<1>1. CASE UNCHANGED <<conts, vols, docker>>
    BY <1>1
<1>2. CASE UserStep
  <2>1. conts' \subseteq conts /\ vols' \subseteq vols
      BY <1>2 DEF UserStep
  <2>2. CASE UNCHANGED docker
      BY <2>1, <2>2
  <2>3. ASSUME NEW c \in conts, NEW s, docker' = [docker EXCEPT ![c].state = s]
        PROVE  /\ DockerInv'
               /\ \A d \in Containers :
                     docker'[d].name = docker[d].name /\ docker'[d].mounts = docker[d].mounts
    <3>1. DOMAIN docker' = Containers /\ \A d \in Containers \ {c} : docker'[d] = docker[d]
        BY <2>3
    <3>2. docker'[c] = [docker[c] EXCEPT !.state = s]
        BY <2>3
    <3>3. /\ DOMAIN docker'[c] = DOMAIN docker[c]
          /\ \A f \in DOMAIN docker[c] : f # "state" => docker'[c][f] = docker[c][f]
        BY <3>2
    <3>4. /\ docker'[c].id = docker[c].id /\ docker'[c].name = docker[c].name
          /\ docker'[c].mounts = docker[c].mounts
        BY <3>3
    <3> QED
        BY <2>1, <3>1, <3>3, <3>4
  <2>4. \/ UNCHANGED docker
        \/ \E c \in conts : \E s : docker' = [docker EXCEPT ![c].state = s]
      BY <1>2 DEF UserStep
  <2> QED
      BY <2>2, <2>3, <2>4
<1> QED
    BY <1>1, <1>2
    DEF Next, StartRun, PreMigrate, ListContainers, ToVolumes, InspectContainer, EndOfContainers,
        NewVolumeStore, SetRefAndSize, EndOfRefs, PutVolume, EndOfPuts, Shutdown, CreateSandbox,
        EndOfSandboxes, Crash

\* What InspectContainer keeps of a container's description.
LEMMA Converted ==
    ASSUME DockerInv, NEW c \in Containers
    PROVE  LET meta == ToPouchContainerMeta(docker[c]) IN
           /\ meta.id = c
           /\ meta.name = Canonical(c)
           /\ \A v : v \in {m.name : m \in {n \in Range(meta.mounts) : n.driver # ""}}
                        <=> v \in Mounts(c)
<1> DEFINE meta == ToPouchContainerMeta(docker[c])
<1>1. meta.id = c /\ meta.name = Canonical(c) /\ meta.mounts = ToMountPoints(docker[c].mounts)
    BY DEF ToPouchContainerMeta, DockerInv, Canonical
<1> HIDE DEF meta
<1>2. /\ DOMAIN meta.mounts = DOMAIN docker[c].mounts
      /\ \A i \in DOMAIN meta.mounts : /\ meta.mounts[i].name = docker[c].mounts[i].name
                                       /\ meta.mounts[i].driver = docker[c].mounts[i].driver
    BY <1>1 DEF ToMountPoints
<1>3. ASSUME NEW v
      PROVE  v \in {m.name : m \in {n \in Range(meta.mounts) : n.driver # ""}} <=> v \in Mounts(c)
  <2>1. v \in Mounts(c) <=> \E i \in DOMAIN docker[c].mounts :
            docker[c].mounts[i].driver # "" /\ docker[c].mounts[i].name = v
      BY DEF Range, Mounts
  <2>2. v \in {m.name : m \in {n \in Range(meta.mounts) : n.driver # ""}}
            <=> \E i \in DOMAIN meta.mounts :
                   meta.mounts[i].driver # "" /\ meta.mounts[i].name = v
      BY DEF Range
  <2> QED
      BY <1>2, <2>1, <2>2
<1> QED
    BY <1>1, <1>3 DEF meta

-----------------------------------------------------------------------------
(* The boltdb *)

LEMMA LockStep ==
    ASSUME LockInv, Next
    PROVE  LockInv'
<1> USE DEF LockInv, LockedPcs, stores, Goto, Enter, Again, Return
<1>1. CASE UNCHANGED boltLock /\ (pc' \in LockedPcs <=> pc \in LockedPcs)
    BY <1>1
<1>2. CASE boltLock' = FALSE /\ pc' \notin LockedPcs
  <2>1. (pc' \in LockedPcs) = FALSE
      BY <1>2
  <2> QED
      BY <1>2, <2>1
<1>3. CASE boltLock' = TRUE /\ pc' \in LockedPcs
    BY <1>3
<1>4. CASE StartRun \/ ListContainers \/ ToVolumes \/ InspectContainer \/ EndOfContainers
    BY <1>1, <1>4 DEF StartRun, ListContainers, ToVolumes, InspectContainer, EndOfContainers
<1>5. CASE NewVolumeStore
    BY <1>1, <1>3, <1>5 DEF NewVolumeStore
<1>6. CASE SetRefAndSize \/ EndOfRefs \/ PutVolume \/ EndOfPuts
    BY <1>1, <1>6 DEF SetRefAndSize, EndOfRefs, PutVolume, EndOfPuts
<1>7. CASE Shutdown \/ Crash
    BY <1>2, <1>7 DEF Shutdown, Crash
<1>8. CASE CreateSandbox \/ EndOfSandboxes \/ UserStep
    BY <1>1, <1>8 DEF CreateSandbox, EndOfSandboxes, UserStep
<1> QED
    BY <1>4, <1>5, <1>6, <1>7, <1>8 DEF Next, PreMigrate

-----------------------------------------------------------------------------
(* The references *)

LEMMA EmptySequence == Range(<<>>) = {} /\ IsInjective(<<>>) /\ \A S : <<>> \in Seq(S)
BY DEF Range, IsInjective

LEMMA AppendRange ==
    ASSUME NEW S, NEW q \in Seq(S), NEW x \in S
    PROVE  /\ Append(q, x) \in Seq(S)
           /\ Range(Append(q, x)) = Range(q) \union {x}
           /\ IsInjective(q) /\ x \notin Range(q) => IsInjective(Append(q, x))
<1>1. /\ DOMAIN Append(q, x) = 1..(Len(q) + 1) /\ DOMAIN q = 1..Len(q)
      /\ \A i \in DOMAIN q : Append(q, x)[i] = q[i]
      /\ Append(q, x)[Len(q) + 1] = x /\ Len(q) \in Nat
    OBVIOUS
<1>2. DOMAIN Append(q, x) = DOMAIN q \union {Len(q) + 1}
    BY <1>1
<1> QED
    BY <1>1, <1>2 DEF Range, IsInjective

\* A listing of a set has each of its elements once.
LEMMA ListingIsInjective ==
    ASSUME NEW S, IsFiniteSet(S), NEW q \in ListingsOf(S)
    PROVE  q \in Seq(S) /\ IsInjective(q)
BY FS_CardinalityType DEF ListingsOf, Bijection, Injection

\* InspectContainer goes on from k to k + 1.
LEMMA RefsOfNext ==
    ASSUME DockerInv, CollectInv, NEW v \in Volumes, RefsUpTo(v, k), k \in DOMAIN listed,
           volumeRefs' =
               ContainerVolumeRefsCount(ToPouchContainerMeta(docker[listed[k]]), volumeRefs),
           UNCHANGED <<listed, docker>>, k' = k + 1
    PROVE  RefsUpTo(v, k)'
<1> DEFINE c == listed[k]
           meta == ToPouchContainerMeta(docker[c])
           before == {listed[i] : i \in {j \in DOMAIN listed : j < k}}
           upto == {listed[i] : i \in {j \in DOMAIN listed : j < k + 1}}
<1>1. c \in Containers /\ upto = before \union {c} /\ c \notin before
    BY DEF CollectInv, IsInjective
<1>2. /\ meta.id = c
      /\ v \in {m.name : m \in {n \in Range(meta.mounts) : n.driver # ""}} <=> v \in Mounts(c)
    BY <1>1, Converted
<1> HIDE DEF c, meta, before, upto
<1>3. /\ volumeRefs[v] \in Seq(Containers) /\ IsInjective(volumeRefs[v])
      /\ Range(volumeRefs[v]) = {d \in before : v \in Mounts(d)}
    BY DEF RefsUpTo, before
<1>4. volumeRefs'[v] = IF v \in Mounts(c) /\ c \notin Range(volumeRefs[v])
                       THEN Append(volumeRefs[v], c) ELSE volumeRefs[v]
    BY <1>2 DEF ContainerVolumeRefsCount, c, meta
<1>5. /\ volumeRefs'[v] \in Seq(Containers) /\ IsInjective(volumeRefs'[v])
      /\ Range(volumeRefs'[v]) = {d \in upto : v \in Mounts(d)}
  <2>1. CASE v \in Mounts(c)
      BY <1>1, <1>3, <1>4, <2>1, AppendRange
  <2>2. CASE v \notin Mounts(c)
      BY <1>1, <1>3, <1>4, <2>2
  <2> QED
      BY <2>1, <2>2
<1>6. {d \in upto : v \in Mounts(d)}
         = {d \in {listed'[i] : i \in {j \in DOMAIN listed' : j < k'}} : v \in Mounts(d)'}
    BY DEF upto, Mounts
<1> QED
    BY <1>5, <1>6 DEF RefsUpTo

\* Steps that leave alone what CollectInv is about.
LEMMA CollectStep ==
    ASSUME DockerInv, CollectInv, Next,
           \A c \in Containers : docker'[c].mounts = docker[c].mounts
    PROVE  CollectInv'
<1> USE DEF CollectInv, Inspected, Goto, Enter, Again, Return
<1>1. \A c \in Range(listed) : Mounts(c)' = Mounts(c)
  <2>1. Range(listed) \subseteq Containers
      BY DEF Range
  <2> QED
      BY <2>1 DEF Mounts
<1>2. ASSUME UNCHANGED <<listed, volumeRefs>>, NEW v \in Volumes, NEW n \in Nat, RefsUpTo(v, n)
      PROVE  RefsUpTo(v, n)'
  <2>1. {listed[i] : i \in {j \in DOMAIN listed : j < n}} \subseteq Range(listed)
      BY DEF Range
  <2> QED
      BY <1>1, <1>2, <2>1 DEF RefsUpTo
<1>3. CASE StartRun
    BY <1>3, EmptySequence DEF StartRun
<1>4. CASE ListContainers
  <2>1. CASE UNCHANGED listed
    <3>1. ASSUME NEW v \in Volumes, pc' = "off"
          PROVE  RefsUpTo(v, Len(listed) + 1)'
      <4>1. volumeRefs'[v] = <<>> /\ listed' = <<>>
          BY <1>4, <2>1 DEF ListContainers
      <4> QED
          BY <4>1, EmptySequence DEF RefsUpTo
    <3> QED
        BY <1>4, <2>1, <3>1 DEF ListContainers
  <2>2. CASE listed' \in ListingsOf(conts) /\ pc' = "volumes"
    <3>1. listed' \in Seq(Containers) /\ IsInjective(listed')
      <4>1. IsFiniteSet(conts) /\ conts \subseteq Containers
          BY FS_Subset, StoresAssumption DEF DockerInv
      <4>2. listed' \in Seq(conts) /\ IsInjective(listed')
          BY <2>2, <4>1, ListingIsInjective
      <4> QED
          BY <4>1, <4>2
    <3> QED
        BY <1>4, <2>2, <3>1 DEF ListContainers
  <2> QED
      BY <1>4, <2>1, <2>2 DEF ListContainers
<1>5. CASE ToVolumes
  <2>1. CASE pc' = "off"
      BY <1>5, <2>1 DEF ToVolumes
  <2>2. CASE pc' = "inspect"
    <3> DEFINE S == {v \in vols : VolumeDriver[v] # "ultron"}
    <3>1. /\ \A v \in S : v \in Volumes /\ VolumeDriver[v] \in {"local", "alilocal"}
          /\ IsFiniteSet(S)
        BY <1>5, <2>2, StoresAssumption, FS_Subset
        DEF ToVolumes, DockerInv, SupportVolumeDrivers
    <3>2. pouchVolumes' \in Seq(S)
        BY <1>5, <2>2, <3>1, ListingIsInjective DEF ToVolumes
    <3>3. pouchVolumes' \in Seq({v \in Volumes : VolumeDriver[v] \in {"local", "alilocal"}})
      <4> HIDE DEF S
      <4> QED
          BY <3>1, <3>2
    <3>4. ASSUME NEW v \in Volumes
          PROVE  RefsUpTo(v, 1)'
      <4>1. volumeRefs'[v] = <<>> /\ listed' = listed
          BY <1>5 DEF ToVolumes
      <4>2. {j \in DOMAIN listed' : j < 1} = {}
          BY <4>1
      <4> QED
          BY <4>1, <4>2, EmptySequence DEF RefsUpTo
    <3> QED
        BY <1>5, <2>2, <3>3, <3>4 DEF ToVolumes
  <2> QED
      BY <1>5, <2>1, <2>2 DEF ToVolumes
<1>6. CASE InspectContainer
  <2>1. CASE pc' = "off"
      BY <1>6, <2>1 DEF InspectContainer
  <2>2. CASE pc' = pc
    <3>1. k \in DOMAIN listed
        BY <1>6 DEF InspectContainer
    <3>2. /\ volumeRefs' =
                ContainerVolumeRefsCount(ToPouchContainerMeta(docker[listed[k]]), volumeRefs)
          /\ k' = k + 1 /\ pc = "inspect" /\ outcome' = outcome
          /\ UNCHANGED <<listed, docker, pouchVolumes>>
        BY <1>6, <2>2 DEF InspectContainer, dockerVars
    <3>3. ASSUME NEW v \in Volumes
          PROVE  RefsUpTo(v, k)'
        BY <3>1, <3>2, RefsOfNext
    <3>4. DOMAIN volumeRefs' = Volumes
        BY <3>2 DEF ContainerVolumeRefsCount
    <3> QED
        BY <2>2, <3>2, <3>3, <3>4
  <2> QED
      BY <1>6, <2>1, <2>2 DEF InspectContainer
<1>7. CASE EndOfContainers
  <2>1. ASSUME NEW v \in Volumes
        PROVE  RefsUpTo(v, Len(listed) + 1)'
    <3>1. RefsUpTo(v, Len(listed) + 1)
        BY <1>7 DEF EndOfContainers, RefsUpTo
    <3> QED
        BY <1>2, <1>7, <3>1 DEF EndOfContainers, memory
  <2> QED
      BY <1>7, <2>1 DEF EndOfContainers, memory
<1>8. CASE /\ UNCHANGED <<listed, pouchVolumes, volumeRefs, sandboxContainers>>
           /\ pc' \notin {"list", "volumes", "inspect"} /\ k' \in Nat \ {0}
           /\ Inspected' => Inspected
           /\ pc' # "off" => outcome' = outcome /\ pc # "off"
  <2>1. ASSUME Inspected', NEW v \in Volumes
        PROVE  RefsUpTo(v, Len(listed) + 1)'
      BY <1>2, <1>8, <2>1
  <2> QED
      BY <1>8, <2>1
<1>9. CASE UserStep
  <2>1. ASSUME NEW v \in Volumes, NEW n \in Nat, RefsUpTo(v, n)
        PROVE  RefsUpTo(v, n)'
      BY <1>2, <1>9, <2>1 DEF UserStep, memory
  <2> QED
      BY <1>9, <2>1 DEF UserStep, memory
<1>10. CASE NewVolumeStore
    BY <1>8, <1>10 DEF NewVolumeStore, memory
<1>11. CASE SetRefAndSize
    BY <1>8, <1>11 DEF SetRefAndSize
<1>12. CASE EndOfRefs
    BY <1>8, <1>12 DEF EndOfRefs, memory
<1>13. CASE PutVolume
    BY <1>8, <1>13 DEF PutVolume, memory
<1>14. CASE EndOfPuts
    BY <1>8, <1>14 DEF EndOfPuts, memory
<1>15. CASE Shutdown
    BY <1>8, <1>15 DEF Shutdown, memory
<1>16. CASE CreateSandbox
  <2>1. /\ pc = "sandboxes" /\ UNCHANGED <<listed, pouchVolumes, volumeRefs, sandboxContainers>>
        /\ \/ k' = k + 1 /\ pc' = pc /\ outcome' = outcome
           \/ k' = k /\ pc' = "off" /\ outcome' = "failed"
      BY <1>16 DEF CreateSandbox, memory
  <2> QED
      BY <1>8, <2>1
<1>17. CASE EndOfSandboxes
    BY <1>8, <1>17 DEF EndOfSandboxes, memory
<1>18. CASE Crash
    BY <1>8, <1>18 DEF Crash, memory
<1> QED
    BY <1>3, <1>4, <1>5, <1>6, <1>7, <1>9, <1>10, <1>11, <1>12, <1>13, <1>14,
       <1>15, <1>16, <1>17, <1>18 DEF Next, PreMigrate

-----------------------------------------------------------------------------
(* The volumes *)

\* Steps of other phases leave the volumes alone, and their references.
LEMMA VolumeStep ==
    ASSUME CollectInv, VolumeInv, Next, CollectInv'
    PROVE  VolumeInv'
<1> USE DEF VolumeInv, AllStored, StoredUpTo, Goto, Enter, Again, Return
<1>1. CASE StartRun
    BY <1>1 DEF StartRun
<1>2. CASE ListContainers
    BY <1>2 DEF ListContainers, CollectInv, stores
<1>3. CASE ToVolumes
    BY <1>3 DEF ToVolumes, CollectInv, stores
<1>4. CASE InspectContainer
    BY <1>4 DEF InspectContainer, CollectInv
<1>5. CASE EndOfContainers
    BY <1>5 DEF EndOfContainers, CollectInv, memory, stores
<1>6. CASE NewVolumeStore
    BY <1>6 DEF NewVolumeStore, CollectInv, memory, Spec0
<1>7. CASE SetRefAndSize
  <2> DEFINE v == pouchVolumes[k]
  <2>1. /\ v \in Volumes /\ pc = "refs" /\ pc' = "refs" /\ k' = k + 1 /\ k \in DOMAIN pouchVolumes
        /\ outcome' = outcome /\ UNCHANGED <<pouchVolumes, volumeRefs, volumeDb>>
      BY <1>7 DEF SetRefAndSize, CollectInv, stores
  <2>2. DOMAIN specs' = Volumes /\ \A w \in Volumes \ {v} : specs'[w] = specs[w]
      BY <1>7, <2>1 DEF SetRefAndSize
  <2>3. specs'[v].ref = volumeRefs[v]
    <3>1. CASE volumeRefs[v] = <<>>
        BY <1>7, <2>1, <3>1 DEF SetRefAndSize
    <3>2. CASE volumeRefs[v] # <<>>
        BY <1>7, <2>1, <3>2 DEF SetRefAndSize
    <3> QED
        BY <3>1, <3>2
  <2> HIDE DEF v
  <2>4. \A w \in Volumes : specs'[w].ref \in {<<>>, volumeRefs'[w]}
      BY <2>1, <2>2, <2>3
  <2>5. \A i \in DOMAIN pouchVolumes' :
           i < k' => specs'[pouchVolumes'[i]].ref = volumeRefs'[pouchVolumes'[i]]
    <3>1. SUFFICES ASSUME NEW i \in DOMAIN pouchVolumes, i < k + 1
                   PROVE  specs'[pouchVolumes[i]].ref = volumeRefs[pouchVolumes[i]]
        BY <2>1
    <3>2. i < k \/ i = k
        BY <3>1 DEF CollectInv
    <3>3. pouchVolumes[i] \in Volumes
        BY DEF CollectInv
    <3> QED
        BY <2>1, <2>2, <2>3, <3>2, <3>3 DEF v
  <2> QED
      BY <2>1, <2>2, <2>4, <2>5 DEF CollectInv
<1>8. CASE EndOfRefs
    BY <1>8 DEF EndOfRefs, CollectInv, memory, stores
<1>9. CASE PutVolume
  <2>1. CASE pc' = "closeFailed"
      BY <1>9, <2>1 DEF PutVolume, CollectInv, memory
  <2>2. CASE pc' = pc
      BY <1>9, <2>2 DEF PutVolume, CollectInv, memory
  <2> QED
      BY <1>9, <2>1, <2>2 DEF PutVolume
<1>10. CASE EndOfPuts
    BY <1>10 DEF EndOfPuts, CollectInv, memory, stores
<1>11. CASE Shutdown
    BY <1>11 DEF Shutdown, CollectInv, memory
<1>12. CASE CreateSandbox
    BY <1>12 DEF CreateSandbox, CollectInv, memory
<1>13. CASE EndOfSandboxes
    BY <1>13 DEF EndOfSandboxes, CollectInv, memory, stores
<1>14. CASE Crash
    BY <1>14 DEF Crash, CollectInv, memory
<1>15. CASE UserStep
    BY <1>15 DEF UserStep, CollectInv, memory, stores
<1> QED
    BY <1>1, <1>2, <1>3, <1>4, <1>5, <1>6, <1>7, <1>8, <1>9, <1>10, <1>11, <1>12, <1>13,
       <1>14, <1>15 DEF Next, PreMigrate

-----------------------------------------------------------------------------
(* The sandboxes *)

LEMMA SandboxStep ==
    ASSUME DockerInv, DockerInv', CollectInv, SandboxInv, Next,
           \A c \in Containers : docker'[c].name = docker[c].name
    PROVE  SandboxInv'
<1> USE DEF SandboxInv, Inspected, Goto, Enter, Again, Return
<1>1. \A c \in Containers : Canonical(c)' = Canonical(c)
    BY DEF Canonical
<1>2. \A i \in DOMAIN listed : listed[i] \in Containers
    BY DEF CollectInv
<1>3. ASSUME UNCHANGED <<listed, sandboxContainers, sandboxDb>>
      PROVE  /\ \A j \in DOMAIN sandboxContainers' :
                   /\ sandboxContainers'[j].id \in Containers
                   /\ sandboxContainers'[j].name = Canonical(sandboxContainers[j].id)'
             /\ \A n \in Nat : SandboxesUpTo(n) => SandboxesUpTo(n)'
             /\ \A n \in Nat : CreatedUpTo(n) => CreatedUpTo(n)'
    BY <1>1, <1>2, <1>3 DEF SandboxesUpTo, CreatedUpTo
<1>4. ASSUME UNCHANGED <<listed, sandboxContainers, sandboxDb>>, k' \in Nat,
             pc' = "inspect" => SandboxesUpTo(k'),
             Inspected' => SandboxesUpTo(Len(listed) + 1),
             pc' = "sandboxes" => CreatedUpTo(k'),
             outcome' = "prepared" => CreatedUpTo(Len(sandboxContainers) + 1)
      PROVE  SandboxInv'
  <2>1. Len(listed) + 1 \in Nat /\ Len(sandboxContainers) + 1 \in Nat
      BY DEF CollectInv
  <2> QED
      BY <1>3, <1>4, <2>1
<1>5. CASE StartRun
    BY <1>5 DEF StartRun
<1>6. CASE ListContainers
  <2>1. CASE pc' = "volumes" /\ outcome' = "none"
      BY <1>6, <2>1 DEF ListContainers, CollectInv
  <2>2. CASE pc' = "off" /\ UNCHANGED listed
    <3>1. listed = <<>> /\ sandboxContainers = <<>>
        BY <1>6 DEF ListContainers, CollectInv
    <3>2. SandboxesUpTo(Len(listed) + 1) /\ CreatedUpTo(Len(sandboxContainers) + 1)
        BY <3>1 DEF SandboxesUpTo, CreatedUpTo
    <3> QED
        BY <1>4, <1>6, <2>2, <3>2 DEF ListContainers, CollectInv, stores, sandboxes
  <2> QED
      BY <1>6, <2>1, <2>2 DEF ListContainers, CollectInv
<1>7. CASE ToVolumes
  <2>1. SandboxesUpTo(1)
      BY <1>7 DEF SandboxesUpTo, CollectInv
  <2>2. UNCHANGED <<listed, sandboxContainers, sandboxDb>>
      BY <1>7 DEF ToVolumes, stores, sandboxes
  <2>3. \/ pc' = "inspect" /\ k' = 1 /\ outcome' = outcome /\ pc # "off"
        \/ pc' = "off" /\ k' = k /\ outcome' = "failed"
      BY <1>7 DEF ToVolumes
  <2> QED
      BY <1>4, <2>1, <2>2, <2>3 DEF CollectInv
<1>8. CASE InspectContainer
  <2>1. CASE pc' = "off"
      BY <1>4, <1>8, <2>1 DEF InspectContainer, CollectInv, sandboxes
  <2>2. CASE pc' = pc
    <3> DEFINE c == listed[k]
               meta == ToPouchContainerMeta(docker[c])
    <3>1. /\ c \in Containers /\ k \in DOMAIN listed
          /\ sandboxContainers' = IF SandboxName(meta.name) THEN Append(sandboxContainers, meta)
                                  ELSE sandboxContainers
          /\ UNCHANGED <<listed, docker, sandboxDb, outcome>>
          /\ k' = k + 1 /\ pc' = "inspect" /\ outcome = "none"
        BY <1>8, <2>2 DEF InspectContainer, CollectInv, dockerVars, sandboxes
    <3>2. meta.id = c /\ meta.name = Canonical(c)
        BY <3>1, Converted
    <3> HIDE DEF c, meta
    <3>3. \A i \in DOMAIN listed : i < k + 1 => i < k \/ listed[i] = c
        BY DEF CollectInv, c
    <3>4. CASE SandboxName(meta.name)
      <4>1. /\ DOMAIN sandboxContainers' =
                  DOMAIN sandboxContainers \union {Len(sandboxContainers) + 1}
            /\ \A j \in DOMAIN sandboxContainers : sandboxContainers'[j] = sandboxContainers[j]
            /\ sandboxContainers'[Len(sandboxContainers) + 1] = meta
            /\ sandboxContainers' \in Seq(Range(sandboxContainers'))
          BY <3>1, <3>4 DEF Range
      <4>2. SandboxesUpTo(k)'
        <5>1. SUFFICES ASSUME NEW i \in DOMAIN listed, i < k + 1, SandboxName(Canonical(listed[i]))
                       PROVE  \E j \in DOMAIN sandboxContainers' :
                                 sandboxContainers'[j].id = listed[i]
            BY <1>1, <1>2, <3>1 DEF SandboxesUpTo
        <5>2. CASE listed[i] = c
            BY <3>2, <4>1, <5>2
        <5>3. CASE i < k
          <6>1. \E j \in DOMAIN sandboxContainers : sandboxContainers[j].id = listed[i]
              BY <2>2, <3>1, <5>1, <5>3 DEF SandboxesUpTo
          <6> QED
              BY <4>1, <6>1
        <5> QED
            BY <3>3, <5>1, <5>2, <5>3
      <4> QED
          BY <1>1, <3>1, <3>2, <4>1, <4>2
    <3>5. CASE ~SandboxName(meta.name)
      <4>1. SandboxesUpTo(k + 1)
          BY <2>2, <3>1, <3>2, <3>3, <3>5 DEF SandboxesUpTo
      <4> QED
          BY <1>4, <3>1, <3>5, <4>1 DEF CollectInv
    <3> QED
        BY <3>4, <3>5
  <2> QED
      BY <1>8, <2>1, <2>2 DEF InspectContainer
<1>9. CASE EndOfContainers
  <2>1. SandboxesUpTo(Len(listed) + 1)
      BY <1>9 DEF EndOfContainers, SandboxesUpTo, CollectInv
  <2> QED
      BY <1>4, <1>9, <2>1 DEF EndOfContainers, CollectInv, memory, stores, sandboxes
<1>10. CASE NewVolumeStore
    BY <1>4, <1>10 DEF NewVolumeStore, CollectInv, memory, sandboxes
<1>11. CASE SetRefAndSize
    BY <1>4, <1>11 DEF SetRefAndSize, CollectInv, stores, sandboxes
<1>12. CASE EndOfRefs
    BY <1>4, <1>12 DEF EndOfRefs, CollectInv, memory, stores, sandboxes
<1>13. CASE PutVolume
    BY <1>4, <1>13 DEF PutVolume, CollectInv, memory, sandboxes
<1>14. CASE EndOfPuts
    BY <1>4, <1>14 DEF EndOfPuts, CollectInv, memory, stores, sandboxes
<1>15. CASE Shutdown
  <2>1. CreatedUpTo(1)
      BY DEF CreatedUpTo
  <2> QED
      BY <1>4, <1>15, <2>1 DEF Shutdown, CollectInv, memory, sandboxes
<1>16. CASE CreateSandbox
  <2>1. CASE pc' = "off"
      BY <1>4, <1>16, <2>1 DEF CreateSandbox, CollectInv, memory, sandboxes
  <2>2. CASE pc' = pc
    <3> DEFINE c == sandboxContainers[k]
    <3>1. /\ k \in DOMAIN sandboxContainers
          /\ sandboxDb' = Put(sandboxDb, c.id, ToCRIMetaJSON(c))
          /\ UNCHANGED <<listed, docker, sandboxContainers, outcome>>
          /\ k' = k + 1 /\ pc = "sandboxes" /\ outcome = "none"
      <4>1. pc = "sandboxes" /\ k <= Len(sandboxContainers) /\ k \in Nat \ {0}
          BY <1>16 DEF CreateSandbox, CollectInv
      <4>2. k \in DOMAIN sandboxContainers
          BY <4>1
      <4>3. sandboxDb' = Put(sandboxDb, c.id, ToCRIMetaJSON(c)) /\ k' = k + 1 /\ outcome' = outcome
          BY <1>16, <2>2, <4>1 DEF CreateSandbox
      <4> QED
          BY <1>16, <4>1, <4>2, <4>3 DEF CreateSandbox, CollectInv, memory, dockerVars
    <3>2. c.id \in Containers /\ c.name = Canonical(c.id)
        BY <3>1
    <3>3. ToCRIMetaJSON(c).config.metadata.attempt = docker[c.id].name.attempt
        BY <3>2 DEF ToCRIMetaJSON, ToPodSandboxConfig, Canonical, DockerInv
    <3>4. /\ DOMAIN sandboxDb' = DOMAIN sandboxDb \union {c.id}
          /\ sandboxDb'[c.id] = ToCRIMetaJSON(c)
          /\ \A d \in DOMAIN sandboxDb \ {c.id} : sandboxDb'[d] = sandboxDb[d]
        BY <3>1 DEF Put
    <3>5. CreatedUpTo(k)'
      <4>1. SUFFICES ASSUME NEW j \in DOMAIN sandboxContainers, j < k + 1
                     PROVE  LET id == sandboxContainers[j].id IN
                            /\ id \in DOMAIN sandboxDb'
                            /\ sandboxDb'[id].config.metadata.attempt = docker[id].name.attempt
          BY <3>1 DEF CreatedUpTo
      <4>2. j < k \/ j = k
          BY <4>1 DEF CollectInv
      <4>3. CASE sandboxContainers[j].id = c.id
          BY <3>3, <3>4, <4>3
      <4>4. CASE sandboxContainers[j].id # c.id
          BY <3>1, <3>4, <4>2, <4>4 DEF CreatedUpTo
      <4> QED
          BY <4>3, <4>4
    <3>6. SandboxesUpTo(Len(listed) + 1)'
        BY <1>1, <1>2, <3>1 DEF SandboxesUpTo
    <3> QED
        BY <1>1, <2>2, <3>1, <3>5, <3>6
  <2> QED
      BY <1>16, <2>1, <2>2 DEF CreateSandbox
<1>17. CASE EndOfSandboxes
  <2>1. CreatedUpTo(Len(sandboxContainers) + 1)
      BY <1>17 DEF EndOfSandboxes, CreatedUpTo, CollectInv
  <2> QED
      BY <1>4, <1>17, <2>1 DEF EndOfSandboxes, CollectInv, memory, stores, sandboxes
<1>18. CASE Crash
    BY <1>4, <1>18 DEF Crash, CollectInv, memory, sandboxes
<1>19. CASE UserStep
    BY <1>4, <1>19 DEF UserStep, CollectInv, memory, stores, sandboxes
<1> QED
    BY <1>5, <1>6, <1>7, <1>8, <1>9, <1>10, <1>11, <1>12, <1>13, <1>14, <1>15, <1>16, <1>17,
       <1>18, <1>19 DEF Next, PreMigrate

-----------------------------------------------------------------------------
(* The theorems *)

LEMMA InitEstablishesInv == Init => StoresInv
<1> SUFFICES ASSUME Init
             PROVE  StoresInv
    OBVIOUS
<1> USE DEF Init
<1>1. DockerInv
    BY StoresAssumption, DescriptionAssumption DEF DockerInv
<1>2. LockInv
  <2>1. (pc \in LockedPcs) = FALSE
      BY DEF LockedPcs
  <2> QED
      BY <2>1 DEF LockInv
<1>3. CollectInv
    BY EmptySequence DEF CollectInv, Inspected
<1>4. VolumeInv
    BY DEF VolumeInv, AllStored
<1>5. SandboxInv
    BY DEF SandboxInv, Inspected
<1> QED
    BY <1>1, <1>2, <1>3, <1>4, <1>5 DEF StoresInv

LEMMA StepKeepsInv == StoresInv /\ [Next]_vars => StoresInv'
<1> SUFFICES ASSUME StoresInv, [Next]_vars
             PROVE  StoresInv'
    OBVIOUS
<1>1. CASE Next
  <2>1. CollectInv'
      BY <1>1, DockerStep, CollectStep DEF StoresInv
  <2> QED
      BY <1>1, <2>1, DockerStep, LockStep, VolumeStep, SandboxStep DEF StoresInv
<1>2. CASE UNCHANGED vars
  <2> USE <1>2 DEF vars, dockerVars, memory, stores, sandboxes, StoresInv
  <2>1. DockerInv' /\ LockInv'
      BY DEF DockerInv, LockInv
  <2>2. CollectInv'
    <3>1. \A c : Mounts(c)' = Mounts(c)
        BY DEF Mounts
    <3>2. \A v, n : RefsUpTo(v, n) => RefsUpTo(v, n)'
        BY <3>1 DEF RefsUpTo
    <3> QED
        BY <3>2 DEF CollectInv, Inspected
  <2>3. VolumeInv'
      BY DEF VolumeInv, StoredUpTo, AllStored
  <2>4. SandboxInv'
      BY DEF SandboxInv, SandboxesUpTo, CreatedUpTo, Canonical, Inspected
  <2> QED
      BY <2>1, <2>2, <2>3, <2>4
<1> QED
    BY <1>1, <1>2

(***************************************************************************)
(* StoresInv holds in every state, whatever the host, the faults, the      *)
(* users and the runs before.                                              *)
(***************************************************************************)
THEOREM StoresInvHolds == Spec => []StoresInv
BY InitEstablishesInv, StepKeepsInv, PTL DEF Spec

\* What the types add to StoresInv.
LEMMA TypeStep ==
    ASSUME StoresInv, StoresInv', TypeOK, Next
    PROVE  TypeOK'
<1> DEFINE Steps == {"off", "list", "volumes", "inspect", "open", "refs", "put", "close",
                     "closeFailed", "sandboxes"}
           Ends == {"none", "prepared", "failed", "killed"}
<1> USE DEF Goto, Enter, Again, Return, dockerVars, memory, sandboxes, stores
<1>1. pc' \in Steps /\ outcome' \in Ends
    BY DEF TypeOK, Next, StartRun, PreMigrate, ListContainers, ToVolumes, InspectContainer,
           EndOfContainers, NewVolumeStore, SetRefAndSize, EndOfRefs, PutVolume, EndOfPuts,
           Shutdown, CreateSandbox, EndOfSandboxes, Crash, UserStep
<1>2. runs' \in 0..MaxRuns /\ acts' \in 0..MaxActs
  <2>1. runs' = runs \/ (runs < MaxRuns /\ runs' = runs + 1)
      BY DEF Next, StartRun, PreMigrate, ListContainers, ToVolumes, InspectContainer,
             EndOfContainers, NewVolumeStore, SetRefAndSize, EndOfRefs, PutVolume, EndOfPuts,
             Shutdown, CreateSandbox, EndOfSandboxes, Crash, UserStep
  <2>2. acts' = acts \/ (acts < MaxActs /\ acts' = acts + 1)
      BY DEF Next, StartRun, PreMigrate, ListContainers, ToVolumes, InspectContainer,
             EndOfContainers, NewVolumeStore, SetRefAndSize, EndOfRefs, PutVolume, EndOfPuts,
             Shutdown, CreateSandbox, EndOfSandboxes, Crash, UserStep
  <2>3. runs \in 0..MaxRuns /\ acts \in 0..MaxActs
      BY DEF TypeOK
  <2> QED
      BY <2>1, <2>2, <2>3, StoresAssumption
<1>3. /\ conts' \subseteq Containers /\ vols' \subseteq Volumes /\ DOMAIN docker' = Containers
      /\ k' \in Nat \ {0} /\ listed' \in Seq(Containers) /\ pouchVolumes' \in Seq(Volumes)
  <2>1. pouchVolumes' \in Seq({v \in Volumes : VolumeDriver[v] \in {"local", "alilocal"}})
      BY DEF StoresInv, CollectInv
  <2>2. pouchVolumes' \in Seq(Volumes)
      BY <2>1
  <2> QED
      BY <2>2 DEF StoresInv, DockerInv, CollectInv
<1>4. boltLock' \in BOOLEAN
    BY DEF TypeOK, Next, StartRun, PreMigrate, ListContainers, ToVolumes, InspectContainer,
           EndOfContainers, NewVolumeStore, SetRefAndSize, EndOfRefs, PutVolume, EndOfPuts,
           Shutdown, CreateSandbox, EndOfSandboxes, Crash, UserStep
<1>5. volumeRefs' \in [Volumes -> Seq(Containers)]
  <2>1. CASE UNCHANGED volumeRefs
      BY <2>1 DEF TypeOK
  <2>2. CASE StartRun
      BY <2>2, EmptySequence DEF StartRun
  <2>3. CASE InspectContainer /\ ~UNCHANGED volumeRefs
    <3>1. listed[k] \in Containers
        BY <2>3 DEF InspectContainer, TypeOK
    <3>2. volumeRefs' = ContainerVolumeRefsCount(ToPouchContainerMeta(docker[listed[k]]),
                                                 volumeRefs)
        BY <2>3 DEF InspectContainer
    <3>3. ToPouchContainerMeta(docker[listed[k]]).id = listed[k]
        BY <3>1, Converted DEF StoresInv
    <3> HIDE DEF TypeOK
    <3>4. \A v \in Volumes : volumeRefs[v] \in Seq(Containers)
        BY DEF TypeOK
    <3>5. \A v \in Volumes : Append(volumeRefs[v], listed[k]) \in Seq(Containers)
        BY <3>1, <3>4
    <3> QED
        BY <3>2, <3>3, <3>4, <3>5 DEF ContainerVolumeRefsCount
  <2> QED
      BY <2>1, <2>2, <2>3
      DEF Next, PreMigrate, ListContainers, ToVolumes, InspectContainer, EndOfContainers,
          NewVolumeStore, SetRefAndSize, EndOfRefs, PutVolume, EndOfPuts, Shutdown,
          CreateSandbox, EndOfSandboxes, Crash, UserStep
<1>6. specs' \in [Volumes -> Specs]
  <2>1. CASE UNCHANGED specs
      BY <2>1 DEF TypeOK
  <2>2. CASE StartRun
      BY <2>2, EmptySequence DEF StartRun, Spec0, Specs
  <2>3. CASE SetRefAndSize
    <3>1. pouchVolumes[k] \in Volumes
        BY <2>3 DEF SetRefAndSize, TypeOK
    <3>2. volumeRefs[pouchVolumes[k]] \in Seq(Containers)
        BY <3>1 DEF TypeOK
    <3>3. \A size \in BOOLEAN : [ref |-> volumeRefs[pouchVolumes[k]], sized |-> size] \in Specs
        BY <3>2 DEF Specs
    <3> QED
        BY <2>3, <3>1, <3>3 DEF SetRefAndSize, TypeOK
  <2> QED
      BY <2>1, <2>2, <2>3
      DEF Next, PreMigrate, ListContainers, ToVolumes, InspectContainer, EndOfContainers,
          NewVolumeStore, EndOfRefs, PutVolume, EndOfPuts, Shutdown,
          CreateSandbox, EndOfSandboxes, Crash, UserStep
<1>7. \A i \in DOMAIN sandboxContainers' : SandboxName(sandboxContainers'[i].name)
  <2>1. CASE UNCHANGED sandboxContainers
      BY <2>1 DEF TypeOK
  <2>2. CASE StartRun
      BY <2>2 DEF StartRun
  <2>3. CASE InspectContainer /\ ~UNCHANGED sandboxContainers
    <3> DEFINE meta == ToPouchContainerMeta(docker[listed[k]])
    <3>1. sandboxContainers' = Append(sandboxContainers, meta) /\ SandboxName(meta.name)
        BY <2>3 DEF InspectContainer
    <3> HIDE DEF meta
    <3>2. sandboxContainers \in Seq(Range(sandboxContainers))
        BY DEF StoresInv, SandboxInv
    <3>3. /\ Len(sandboxContainers) \in Nat
          /\ DOMAIN sandboxContainers = 1..Len(sandboxContainers)
          /\ DOMAIN sandboxContainers' = 1..Len(sandboxContainers) + 1
          /\ \A i \in 1..Len(sandboxContainers) : sandboxContainers'[i] = sandboxContainers[i]
          /\ sandboxContainers'[Len(sandboxContainers) + 1] = meta
        BY <3>1, <3>2
    <3> QED
        BY <3>1, <3>3 DEF TypeOK
  <2> QED
      BY <2>1, <2>2, <2>3
      DEF Next, PreMigrate, ListContainers, ToVolumes, EndOfContainers,
          NewVolumeStore, SetRefAndSize, EndOfRefs, PutVolume, EndOfPuts, Shutdown,
          CreateSandbox, EndOfSandboxes, Crash, UserStep
<1>8. \E stored \in SUBSET Volumes : volumeDb' \in [stored -> Specs]
  <2>1. CASE UNCHANGED volumeDb
      BY <2>1 DEF TypeOK
  <2>2. CASE PutVolume /\ ~UNCHANGED volumeDb
    <3>1. PICK stored \in SUBSET Volumes : volumeDb \in [stored -> Specs]
        BY DEF TypeOK
    <3>2. pouchVolumes[k] \in Volumes
        BY <2>2 DEF PutVolume, TypeOK
    <3>3. specs[pouchVolumes[k]] \in Specs
        BY <3>2 DEF TypeOK
    <3>4. volumeDb' = [w \in DOMAIN volumeDb \union {pouchVolumes[k]} |->
                          IF w = pouchVolumes[k] THEN specs[w] ELSE volumeDb[w]]
        BY <2>2 DEF PutVolume
    <3>5. volumeDb' \in [stored \union {pouchVolumes[k]} -> Specs]
        BY <3>1, <3>3, <3>4
    <3> QED
        BY <3>2, <3>5
  <2> QED
      BY <2>1, <2>2
      DEF Next, StartRun, PreMigrate, ListContainers, ToVolumes, InspectContainer,
          EndOfContainers, NewVolumeStore, SetRefAndSize, EndOfRefs, EndOfPuts, Shutdown,
          CreateSandbox, EndOfSandboxes, Crash, UserStep
<1>9. DOMAIN containerDb' \subseteq Containers
  <2>1. CASE UNCHANGED containerDb
      BY <2>1 DEF TypeOK
  <2>2. CASE InspectContainer
    <3>1. listed[k] \in Containers
        BY <2>2 DEF InspectContainer, TypeOK
    <3> QED
        BY <2>2, <3>1 DEF InspectContainer, Put, Restrict, TypeOK
  <2> QED
      BY <2>1, <2>2
      DEF Next, StartRun, PreMigrate, ListContainers, ToVolumes, EndOfContainers,
          NewVolumeStore, SetRefAndSize, EndOfRefs, PutVolume, EndOfPuts, Shutdown,
          CreateSandbox, EndOfSandboxes, Crash, UserStep
<1>10. DOMAIN sandboxDb' \subseteq Containers /\ resolvConf' \subseteq DOMAIN sandboxDb'
  <2>1. CASE UNCHANGED sandboxes
      BY <2>1 DEF TypeOK
  <2>2. CASE CreateSandbox /\ ~UNCHANGED sandboxes
    <3>1. k \in DOMAIN sandboxContainers
      <4>1. k \in Nat \ {0} /\ k <= Len(sandboxContainers)
          BY <2>2 DEF CreateSandbox, TypeOK
      <4>2. sandboxContainers \in Seq(Range(sandboxContainers))
          BY DEF StoresInv, SandboxInv
      <4> HIDE DEF memory
      <4> QED
          BY <4>1, <4>2
    <3>2. sandboxContainers[k].id \in Containers
        BY <3>1 DEF StoresInv, SandboxInv
    <3>3. DOMAIN sandboxDb' = DOMAIN sandboxDb \union {sandboxContainers[k].id}
        BY <2>2 DEF CreateSandbox, Put
    <3>4. resolvConf' \subseteq resolvConf \union {sandboxContainers[k].id}
        BY <2>2 DEF CreateSandbox
    <3> QED
        BY <3>2, <3>3, <3>4 DEF TypeOK
  <2> QED
      BY <2>1, <2>2
      DEF Next, StartRun, PreMigrate, ListContainers, ToVolumes, InspectContainer,
          EndOfContainers, NewVolumeStore, SetRefAndSize, EndOfRefs, PutVolume, EndOfPuts,
          Shutdown, EndOfSandboxes, Crash, UserStep
<1> QED
    BY <1>1, <1>2, <1>3, <1>4, <1>5, <1>6, <1>7, <1>8, <1>9, <1>10 DEF TypeOK

(***************************************************************************)
(* Every variable keeps its type: the stores hold containers and volumes   *)
(* of docker's, and CRI's only what is named as a sandbox.                 *)
(***************************************************************************)
THEOREM StoresTypeCorrect == Spec => []TypeOK
<1>1. ASSUME Init
      PROVE  TypeOK
  <2>1. volumeRefs \in [Volumes -> Seq(Containers)] /\ specs \in [Volumes -> Specs]
      BY <1>1, EmptySequence DEF Init, Spec0, Specs
  <2>2. \E stored \in SUBSET Volumes : volumeDb \in [stored -> Specs]
    <3>1. volumeDb \in [{} -> Specs]
        BY <1>1 DEF Init
    <3> QED
        BY <3>1
  <2>3. /\ conts \subseteq Containers /\ vols \subseteq Volumes /\ DOMAIN docker = Containers
        /\ acts \in 0..MaxActs /\ runs \in 0..MaxRuns
      BY <1>1, StoresAssumption DEF Init
  <2>4. listed \in Seq(Containers) /\ pouchVolumes \in Seq(Volumes)
      BY <1>1, EmptySequence DEF Init
  <2>5. DOMAIN containerDb \subseteq Containers /\ DOMAIN sandboxDb \subseteq Containers
      BY <1>1 DEF Init
  <2>6. \A i \in DOMAIN sandboxContainers : SandboxName(sandboxContainers[i].name)
      BY <1>1 DEF Init
  <2>7. pc = "off" /\ outcome = "none" /\ k \in Nat \ {0}
      BY <1>1 DEF Init
  <2>8. boltLock \in BOOLEAN /\ resolvConf \subseteq DOMAIN sandboxDb
      BY <1>1 DEF Init
  <2> QED
      BY <2>1, <2>2, <2>3, <2>4, <2>5, <2>6, <2>7, <2>8 DEF TypeOK
<1>2. StoresInv /\ StoresInv' /\ TypeOK /\ [Next]_vars => TypeOK'
  <2>1. ASSUME TypeOK, UNCHANGED vars
        PROVE  TypeOK'
      BY <2>1 DEF TypeOK, vars, dockerVars, memory, stores, sandboxes
  <2> QED
      BY <2>1, TypeStep
<1> QED
    BY <1>1, <1>2, StoresInvHolds, PTL DEF Spec

(***************************************************************************)
(* PrepareVolumes leaves no lock on volume.db, on whatever path it ends.   *)
(***************************************************************************)
THEOREM StoreIsClosed == Spec => []StoreClosed
<1>1. StoresInv => StoreClosed
    BY DEF StoresInv, LockInv, LockedPcs, StoreClosed
<1> QED
    BY <1>1, StoresInvHolds, PTL

(***************************************************************************)
(* After a successful PreMigrate each volume listed is in volume.db with   *)
(* the containers that mount it, once each and no others.                  *)
(***************************************************************************)
THEOREM RefsAreMounts == Spec => []RefsMatchMounts
<1>1. StoresInv => RefsMatchMounts
  <2>1. SUFFICES ASSUME StoresInv, outcome = "prepared", NEW v \in Range(pouchVolumes)
                 PROVE  /\ v \in DOMAIN volumeDb /\ VolumeDriver[v] \in {"local", "alilocal"}
                        /\ Range(volumeDb[v].ref) = {c \in Range(listed) : v \in Mounts(c)}
                        /\ IsInjective(volumeDb[v].ref)
      BY DEF RefsMatchMounts
  <2>2. v \in Volumes /\ VolumeDriver[v] \in {"local", "alilocal"}
      BY <2>1 DEF StoresInv, CollectInv, Range
  <2>3. PICK i \in DOMAIN pouchVolumes : pouchVolumes[i] = v
      BY <2>1 DEF Range
  <2>4. v \in DOMAIN volumeDb /\ volumeDb[v].ref = volumeRefs[v]
      BY <2>1, <2>3 DEF StoresInv, CollectInv, VolumeInv, AllStored, StoredUpTo
  <2>5. RefsUpTo(v, Len(listed) + 1)
      BY <2>1, <2>2 DEF StoresInv, CollectInv, Inspected
  <2>6. {listed[i_1] : i_1 \in {j \in DOMAIN listed : j < Len(listed) + 1}} = Range(listed)
      BY <2>1 DEF StoresInv, CollectInv, Range
  <2> QED
      BY <2>2, <2>4, <2>5, <2>6 DEF RefsUpTo
<1> QED
    BY <1>1, StoresInvHolds, PTL

(***************************************************************************)
(* After a successful PreMigrate every sandbox among the containers is in  *)
(* the CRI store, with the attempt that its name says.                     *)
(***************************************************************************)
THEOREM SandboxesAreComplete == Spec => []SandboxesComplete
<1>1. StoresInv => SandboxesComplete
  <2>1. SUFFICES ASSUME StoresInv, outcome = "prepared", NEW c \in Range(listed),
                        SandboxName(Canonical(c))
                 PROVE  /\ c \in DOMAIN sandboxDb
                        /\ sandboxDb[c].config.metadata.attempt = docker[c].name.attempt
      BY DEF SandboxesComplete, Canonical
  <2>2. PICK i \in DOMAIN listed : listed[i] = c /\ i < Len(listed) + 1
      BY <2>1 DEF StoresInv, CollectInv, Range
  <2>3. PICK j \in DOMAIN sandboxContainers : sandboxContainers[j].id = c
      BY <2>1, <2>2 DEF StoresInv, SandboxInv, Inspected, SandboxesUpTo
  <2>4. j < Len(sandboxContainers) + 1
      BY <2>1 DEF StoresInv, SandboxInv
  <2> QED
      BY <2>1, <2>3, <2>4 DEF StoresInv, SandboxInv, CreatedUpTo
<1> QED
    BY <1>1, StoresInvHolds, PTL
-----------------------------------------------------------------------------
(* What pouchd and its CRI manager are told *)

\* Labels are as kubernetes and docker set them: none says what pouch's own
\* says, no sandbox is labelled as a container of one, and a key is a prefix,
\* perhaps empty, and the rest.
Labels(d) ==
    /\ PouchType \notin DOMAIN d.labels
    /\ ContainerOfSandbox(d.labels) => ~SandboxName([d.name EXCEPT !.slash = FALSE])
    /\ \A key \in DOMAIN d.labels : key = <<key[1], key[2]>>

Described(d) ==
    /\ {"labels", "state"} \subseteq DOMAIN d
    /\ "pid" \in DOMAIN d.state /\ d.state.pid \in Nat
    /\ Labels(d)

KubernetesLabels == \A h \in Hosts : \A c \in Containers : Described(h.containers[c])

\* The metadata m is of c, in whatever state c was.
MetaOf(c, m) ==
    /\ m.id = c
    /\ m.labels = ToLabels(Canonical(c), docker[c].labels)
    /\ m.state.pid \in Nat

SavedUpTo(n) ==
    \A i \in DOMAIN listed : i < n =>
        listed[i] \in DOMAIN containerDb /\ MetaOf(listed[i], containerDb[listed[i]])

\* The sandboxes kept are those of the first n - 1 containers, as they are saved.
SameUpTo(n) ==
    \A j \in DOMAIN sandboxContainers :
        /\ \E i \in DOMAIN listed : i < n /\ sandboxContainers[j].id = listed[i]
        /\ sandboxContainers[j].id \in DOMAIN containerDb
        /\ sandboxContainers[j] = containerDb[sandboxContainers[j].id]

ToldUpTo(n) ==
    \A j \in DOMAIN sandboxContainers : j < n =>
        /\ sandboxContainers[j].id \in DOMAIN sandboxDb
        /\ sandboxDb[sandboxContainers[j].id] = ToCRIMetaJSON(sandboxContainers[j])

AgreeInv ==
    /\ \A c \in Containers : Described(docker[c])
    /\ \A c \in DOMAIN sandboxDb : c \in Containers /\ SandboxName(Canonical(c))
    /\ pc = "inspect" => SavedUpTo(k) /\ SameUpTo(k)
    /\ Inspected => SavedUpTo(Len(listed) + 1) /\ SameUpTo(Len(listed) + 1)
    /\ pc = "sandboxes" => ToldUpTo(k)
    /\ outcome = "prepared" => ToldUpTo(Len(sandboxContainers) + 1)

\* Users change no label.
LEMMA LabelStep ==
    ASSUME DockerInv, Next, \A c \in Containers : Described(docker[c]), acts \in Nat
    PROVE  \A c \in Containers :
              /\ Described(docker'[c])
              /\ docker'[c].labels = docker[c].labels /\ docker'[c].name = docker[c].name
<1> USE DEF dockerVars
<1>1. CASE UNCHANGED docker
    BY <1>1
<1>2. ASSUME NEW c \in conts, NEW s, docker' = [docker EXCEPT ![c].state = s],
             "pid" \in DOMAIN s, s.pid \in Nat
      PROVE  \A d \in Containers :
                /\ Described(docker'[d])
                /\ docker'[d].labels = docker[d].labels /\ docker'[d].name = docker[d].name
  <2>1. c \in Containers /\ \A d \in Containers \ {c} : docker'[d] = docker[d]
      BY <1>2 DEF DockerInv
  <2>2. docker'[c] = [docker[c] EXCEPT !.state = s]
      BY <1>2, <2>1 DEF DockerInv
  <2>3. /\ DOMAIN docker'[c] = DOMAIN docker[c]
        /\ docker'[c].labels = docker[c].labels /\ docker'[c].name = docker[c].name
        /\ docker'[c].state = s
      BY <2>1, <2>2 DEF DockerInv, Described
  <2>4. Described(docker'[c])
      BY <1>2, <2>1, <2>3 DEF Described, Labels
  <2> QED
      BY <2>1, <2>3, <2>4
<1>3. \/ UNCHANGED docker
      \/ \E c \in conts : \E s : /\ docker' = [docker EXCEPT ![c].state = s]
                                 /\ "pid" \in DOMAIN s /\ s.pid \in Nat
  <2>1. CASE UserStep /\ ~UNCHANGED docker
    <3>1. acts' \in Nat
        BY <2>1 DEF UserStep
    <3>2. PICK c \in conts :
             docker' = [docker EXCEPT ![c].state =
                   IF @.pid > 0 THEN [running |-> FALSE, pid |-> 0, status |-> "exited"]
                   ELSE [running |-> TRUE, pid |-> acts', status |-> "running"]]
        BY <2>1 DEF UserStep
    <3> DEFINE s == IF docker[c].state.pid > 0
                    THEN [running |-> FALSE, pid |-> 0, status |-> "exited"]
                    ELSE [running |-> TRUE, pid |-> acts', status |-> "running"]
    <3>3. "pid" \in DOMAIN s /\ s.pid \in Nat
        BY <3>1
    <3>4. docker' = [docker EXCEPT ![c].state = s]
        BY <3>2
    <3> HIDE DEF s
    <3> QED
        BY <3>3, <3>4
  <2>2. ~UserStep => UNCHANGED docker
      BY DEF Next, StartRun, PreMigrate, ListContainers, ToVolumes, InspectContainer,
             EndOfContainers, NewVolumeStore, SetRefAndSize, EndOfRefs, PutVolume, EndOfPuts,
             Shutdown, CreateSandbox, EndOfSandboxes, Crash
  <2> QED
      BY <2>1, <2>2
<1> QED
    BY <1>1, <1>2, <1>3

\* What InspectContainer saves of a container.
LEMMA SavedMeta ==
    ASSUME DockerInv, NEW c \in Containers, Described(docker[c])
    PROVE  MetaOf(c, ToPouchContainerMeta(docker[c]))
<1> DEFINE meta == ToPouchContainerMeta(docker[c])
<1>1. /\ meta.id = docker[c].id
      /\ meta.labels = ToLabels([docker[c].name EXCEPT !.slash = FALSE], docker[c].labels)
      /\ meta.state = [docker[c].state EXCEPT !.status = ToContainerStatus(@)]
    BY DEF ToPouchContainerMeta
<1> HIDE DEF meta
<1>2. meta.state.pid = docker[c].state.pid
    BY <1>1 DEF Described
<1>3. MetaOf(c, meta)
    BY <1>1, <1>2 DEF MetaOf, Canonical, Described, DockerInv
<1> QED
    BY <1>3 DEF meta

LEMMA AgreeStep ==
    ASSUME StoresInv, StoresInv', TypeOK, AgreeInv, Next
    PROVE  AgreeInv'
<1> USE DEF Goto, Enter, Again, Return, Inspected
<1>1. \A c \in Containers :
         /\ Described(docker'[c])
         /\ docker'[c].labels = docker[c].labels /\ Canonical(c)' = Canonical(c)
  <2>1. acts \in Nat
      BY StoresAssumption DEF TypeOK
  <2> QED
      BY <2>1, LabelStep DEF StoresInv, AgreeInv, Canonical
<1>2. /\ listed \in Seq(Containers) /\ IsInjective(listed)
      /\ \A i \in DOMAIN listed : listed[i] \in Containers
      /\ k \in Nat \ {0} /\ Len(listed) + 1 \in Nat /\ Len(sandboxContainers) + 1 \in Nat
      /\ pc # "off" => outcome = "none"
      /\ \A j \in DOMAIN sandboxContainers : j \in Nat \ {0}
      /\ \A j \in DOMAIN sandboxContainers : sandboxContainers[j].id \in Containers
  <2>1. sandboxContainers \in Seq(Range(sandboxContainers))
      BY DEF StoresInv, SandboxInv
  <2>2. \A j \in DOMAIN sandboxContainers : j \in Nat \ {0}
      BY <2>1
  <2>3. Len(sandboxContainers) + 1 \in Nat
      BY <2>1
  <2> QED
      BY <2>2, <2>3 DEF StoresInv, CollectInv, SandboxInv
<1>3. \A c \in Containers : \A m : MetaOf(c, m) => MetaOf(c, m)'
    BY <1>1 DEF MetaOf
<1>4. ASSUME UNCHANGED <<listed, sandboxContainers, containerDb>>
      PROVE  \A n \in Nat : (SavedUpTo(n) => SavedUpTo(n)') /\ (SameUpTo(n) => SameUpTo(n)')
    BY <1>2, <1>3, <1>4 DEF SavedUpTo, SameUpTo
<1>5. ASSUME UNCHANGED <<sandboxContainers, sandboxDb>>
      PROVE  \A n \in Nat : ToldUpTo(n) => ToldUpTo(n)'
    BY <1>5 DEF ToldUpTo
<1>6. ASSUME UNCHANGED sandboxDb
      PROVE  \A c \in DOMAIN sandboxDb' : c \in Containers /\ SandboxName(Canonical(c)')
    BY <1>1, <1>6 DEF AgreeInv
\* A step that touches none of it.
<1>7. ASSUME UNCHANGED <<listed, sandboxContainers, containerDb, sandboxDb>>,
             pc' = "inspect" => SavedUpTo(k') /\ SameUpTo(k') /\ k' \in Nat,
             Inspected' => SavedUpTo(Len(listed) + 1) /\ SameUpTo(Len(listed) + 1),
             pc' = "sandboxes" => ToldUpTo(k') /\ k' \in Nat,
             outcome' = "prepared" => ToldUpTo(Len(sandboxContainers) + 1)
      PROVE  AgreeInv'
    BY <1>1, <1>2, <1>4, <1>5, <1>6, <1>7 DEF AgreeInv
<1>8. ASSUME UNCHANGED sandboxDb, pc' \notin {"inspect", "sandboxes"}, ~Inspected'
      PROVE  AgreeInv'
    BY <1>1, <1>6, <1>8 DEF AgreeInv
<1>9. CASE StartRun
    BY <1>8, <1>9 DEF StartRun, stores, sandboxes
<1>10. CASE ListContainers
  <2>1. CASE pc' = "off" /\ outcome' = "prepared"
    <3>1. listed = <<>> /\ sandboxContainers = <<>>
        BY <1>10 DEF ListContainers, StoresInv, CollectInv
    <3>2. /\ SavedUpTo(Len(listed) + 1) /\ SameUpTo(Len(listed) + 1)
          /\ ToldUpTo(Len(sandboxContainers) + 1)
        BY <3>1 DEF SavedUpTo, SameUpTo, ToldUpTo
    <3>3. UNCHANGED <<listed, sandboxContainers, containerDb, sandboxDb>>
        BY <1>10, <2>1, <1>2 DEF ListContainers, stores, sandboxes
    <3> QED
        BY <1>7, <2>1, <3>2, <3>3
  <2>2. CASE pc' \in {"off", "volumes"} /\ outcome' # "prepared"
      BY <1>8, <1>10, <2>2 DEF ListContainers, stores, sandboxes
  <2> QED
      BY <1>2, <1>10, <2>1, <2>2 DEF ListContainers
<1>11. CASE ToVolumes
  <2>1. sandboxContainers = <<>>
      BY <1>11 DEF ToVolumes, StoresInv, CollectInv
  <2>2. SavedUpTo(1) /\ SameUpTo(1)
      BY <1>2, <2>1 DEF SavedUpTo, SameUpTo
  <2>3. CASE pc' = "off"
      BY <1>8, <1>11, <2>3 DEF ToVolumes, stores, sandboxes
  <2>4. CASE pc' = "inspect"
      BY <1>2, <1>7, <1>11, <2>2, <2>4 DEF ToVolumes, stores, sandboxes
  <2> QED
      BY <1>11, <2>3, <2>4 DEF ToVolumes
<1>12. CASE InspectContainer
  <2>1. CASE pc' = "off"
      BY <1>8, <1>12, <2>1 DEF InspectContainer, sandboxes
  <2>2. CASE pc' = pc
    <3> DEFINE c == listed[k]
               meta == ToPouchContainerMeta(docker[c])
    <3>1. /\ k \in DOMAIN listed /\ pc = "inspect"
          /\ sandboxContainers' = IF SandboxName(meta.name) THEN Append(sandboxContainers, meta)
                                  ELSE sandboxContainers
          /\ containerDb' = Put(containerDb, c, meta)
          /\ UNCHANGED <<listed, sandboxDb, outcome>>
          /\ k' = k + 1 /\ pc' = "inspect"
        BY <1>2, <1>12, <2>2 DEF InspectContainer, sandboxes
    <3>2. c \in Containers
        BY <1>2, <3>1
    <3>3. MetaOf(c, meta)
      <4>1. Described(docker[c])
          BY <3>2 DEF AgreeInv
      <4> QED
          BY <3>2, <4>1, SavedMeta DEF StoresInv
    <3>4. meta.id = c
        BY <3>3 DEF MetaOf
    <3>5. UNCHANGED docker
        BY <1>12 DEF InspectContainer, dockerVars
    <3> HIDE DEF c, meta
    <3>6. /\ c \in DOMAIN containerDb' /\ containerDb'[c] = meta
          /\ \A d \in DOMAIN containerDb :
                d \in DOMAIN containerDb' /\ (d # c => containerDb'[d] = containerDb[d])
        BY <3>1 DEF Put
    <3>7. \A i \in DOMAIN listed : i < k + 1 => i < k \/ listed[i] = c
        BY <1>2 DEF c
    <3>8. \A i \in DOMAIN listed : i < k => listed[i] # c
        BY <1>2, <3>1 DEF c, IsInjective
    <3>9. SavedUpTo(k)'
      <4>1. SUFFICES ASSUME NEW i \in DOMAIN listed, i < k + 1
                     PROVE  /\ listed[i] \in DOMAIN containerDb'
                            /\ MetaOf(listed[i], containerDb'[listed[i]])
          BY <3>1, <3>5 DEF SavedUpTo, MetaOf, Canonical
      <4>2. CASE listed[i] = c
          BY <3>3, <3>6, <4>2
      <4>3. CASE i < k
          BY <3>1, <3>6, <3>8, <4>3 DEF AgreeInv, SavedUpTo
      <4> QED
          BY <3>7, <4>1, <4>2, <4>3
    <3>10. ASSUME NEW j \in DOMAIN sandboxContainers
           PROVE  /\ \E i \in DOMAIN listed : i < k + 1 /\ sandboxContainers[j].id = listed[i]
                  /\ sandboxContainers[j].id \in DOMAIN containerDb'
                  /\ sandboxContainers[j] = containerDb'[sandboxContainers[j].id]
      <4>1. PICK i \in DOMAIN listed : i < k /\ sandboxContainers[j].id = listed[i]
          BY <3>1, <3>10 DEF AgreeInv, SameUpTo
      <4>2. /\ sandboxContainers[j].id # c
            /\ sandboxContainers[j].id \in DOMAIN containerDb
            /\ sandboxContainers[j] = containerDb[sandboxContainers[j].id]
          BY <3>1, <3>8, <3>10, <4>1 DEF AgreeInv, SameUpTo
      <4>3. i < k + 1
          BY <1>2, <4>1
      <4> QED
          BY <3>6, <4>1, <4>2, <4>3
    <3>11. SameUpTo(k)'
      <4>1. CASE ~SandboxName(meta.name)
          BY <3>1, <3>10, <4>1 DEF SameUpTo
      <4>2. CASE SandboxName(meta.name)
        <5>1. sandboxContainers \in Seq(Range(sandboxContainers))
            BY DEF StoresInv, SandboxInv
        <5>2. /\ DOMAIN sandboxContainers' =
                    DOMAIN sandboxContainers \union {Len(sandboxContainers) + 1}
              /\ \A j \in DOMAIN sandboxContainers : sandboxContainers'[j] = sandboxContainers[j]
              /\ sandboxContainers'[Len(sandboxContainers) + 1] = meta
            BY <3>1, <4>2, <5>1
        <5>3. k < k + 1 /\ listed[k] = c
            BY <1>2 DEF c
        <5> QED
            BY <3>1, <3>4, <3>6, <3>10, <5>2, <5>3 DEF SameUpTo
      <4> QED
          BY <4>1, <4>2
    <3> QED
        BY <1>1, <1>2, <1>6, <3>1, <3>9, <3>11 DEF AgreeInv
  <2> QED
      BY <1>12, <2>1, <2>2 DEF InspectContainer
<1>13. CASE EndOfContainers
  <2>1. SavedUpTo(Len(listed) + 1) /\ SameUpTo(Len(listed) + 1)
    <3>1. \A i \in DOMAIN listed : i < k /\ i < Len(listed) + 1
        BY <1>2, <1>13 DEF EndOfContainers
    <3>2. SavedUpTo(k) /\ SameUpTo(k)
        BY <1>13 DEF EndOfContainers, AgreeInv
    <3> QED
        BY <3>1, <3>2 DEF SavedUpTo, SameUpTo
  <2> QED
      BY <1>2, <1>7, <1>13, <2>1 DEF EndOfContainers, memory, stores, sandboxes
<1>14. CASE NewVolumeStore
    BY <1>2, <1>7, <1>8, <1>14 DEF NewVolumeStore, memory, sandboxes, AgreeInv
<1>15. CASE SetRefAndSize \/ EndOfRefs \/ PutVolume \/ EndOfPuts
    BY <1>2, <1>7, <1>15
    DEF SetRefAndSize, EndOfRefs, PutVolume, EndOfPuts, memory, stores, sandboxes, AgreeInv
<1>16. CASE Shutdown
  <2>1. ToldUpTo(1)
      BY <1>2 DEF ToldUpTo
  <2>2. CASE pc' = "sandboxes" /\ k' = 1
      BY <1>2, <1>7, <1>16, <2>1, <2>2 DEF Shutdown, memory, sandboxes, AgreeInv
  <2>3. CASE pc' = "off" /\ outcome' = "failed"
      BY <1>8, <1>16, <2>3 DEF Shutdown, sandboxes
  <2> QED
      BY <1>16, <2>2, <2>3 DEF Shutdown
<1>17. CASE CreateSandbox
  <2>1. CASE pc' = "off"
      BY <1>8, <1>17, <2>1 DEF CreateSandbox, sandboxes
  <2>2. CASE pc' = pc
    <3> DEFINE c == sandboxContainers[k]
    <3>1. pc = "sandboxes" /\ k <= Len(sandboxContainers)
        BY <1>17 DEF CreateSandbox
    <3>2. k \in DOMAIN sandboxContainers
      <4>1. sandboxContainers \in Seq(Range(sandboxContainers))
          BY DEF StoresInv, SandboxInv
      <4> QED
          BY <1>2, <3>1, <4>1
    <3>3. /\ sandboxDb' = Put(sandboxDb, c.id, ToCRIMetaJSON(c))
          /\ UNCHANGED <<listed, sandboxContainers, containerDb, outcome>>
          /\ k' = k + 1 /\ pc' = pc
        BY <1>17, <2>2, <3>1 DEF CreateSandbox, memory
    <3>4. c.id \in Containers /\ SandboxName(Canonical(c.id))
        BY <1>2, <3>2 DEF StoresInv, SandboxInv, TypeOK
    <3>5. \A j \in DOMAIN sandboxContainers :
             sandboxContainers[j].id = c.id => sandboxContainers[j] = c
        BY <3>1, <3>2 DEF AgreeInv, SameUpTo
    <3> HIDE DEF c
    <3>6. /\ DOMAIN sandboxDb' = DOMAIN sandboxDb \union {c.id}
          /\ sandboxDb'[c.id] = ToCRIMetaJSON(c)
          /\ \A d \in DOMAIN sandboxDb \ {c.id} : sandboxDb'[d] = sandboxDb[d]
        BY <3>3 DEF Put
    <3>7. ToldUpTo(k)'
      <4>1. SUFFICES ASSUME NEW j \in DOMAIN sandboxContainers, j < k + 1
                     PROVE  /\ sandboxContainers[j].id \in DOMAIN sandboxDb'
                            /\ sandboxDb'[sandboxContainers[j].id]
                                 = ToCRIMetaJSON(sandboxContainers[j])
          BY <3>3 DEF ToldUpTo
      <4>2. CASE sandboxContainers[j].id = c.id
          BY <3>5, <3>6, <4>2
      <4>3. CASE sandboxContainers[j].id # c.id
        <5>1. j < k
            BY <1>2, <4>1, <4>3 DEF c
        <5> QED
            BY <3>1, <3>6, <4>3, <5>1 DEF AgreeInv, ToldUpTo
      <4> QED
          BY <4>2, <4>3
    <3>8. \A d \in DOMAIN sandboxDb' : d \in Containers /\ SandboxName(Canonical(d)')
        BY <1>1, <3>4, <3>6 DEF AgreeInv
    <3>9. (SavedUpTo(Len(listed) + 1) /\ SameUpTo(Len(listed) + 1))'
        BY <1>2, <1>4, <3>1, <3>3 DEF AgreeInv
    <3> QED
        BY <1>1, <1>2, <3>1, <3>3, <3>7, <3>8, <3>9 DEF AgreeInv
  <2> QED
      BY <1>17, <2>1, <2>2 DEF CreateSandbox
<1>18. CASE EndOfSandboxes
  <2>1. ToldUpTo(Len(sandboxContainers) + 1)
    <3>1. sandboxContainers \in Seq(Range(sandboxContainers))
        BY DEF StoresInv, SandboxInv
    <3>2. \A j \in DOMAIN sandboxContainers : j < k
        BY <1>2, <1>18, <3>1 DEF EndOfSandboxes
    <3> QED
        BY <1>18, <3>2 DEF EndOfSandboxes, AgreeInv, ToldUpTo
  <2> QED
      BY <1>2, <1>7, <1>18, <2>1 DEF EndOfSandboxes, memory, stores, sandboxes, AgreeInv
<1>19. CASE Crash
    BY <1>8, <1>19 DEF Crash, sandboxes
<1>20. CASE UserStep
    BY <1>2, <1>7, <1>20 DEF UserStep, memory, stores, sandboxes, AgreeInv
<1> QED
    BY <1>9, <1>10, <1>11, <1>12, <1>13, <1>14, <1>15, <1>16, <1>17, <1>18, <1>19, <1>20
    DEF Next, PreMigrate

\* Each label of a sandbox that marks no type goes to the pod or its annotations.
LEMMA LabelsOfPod ==
    ASSUME NEW c, NEW key \in DOMAIN c.labels \ {PouchType, DockerType}, key = <<key[1], key[2]>>
    PROVE  LET pod == ToPodSandboxConfig(c) IN
           \/ key \in DOMAIN pod.labels /\ pod.labels[key] = c.labels[key]
           \/ pod.annotations[key[2]] = c.labels[key]
<1> DEFINE marked == {l \in DOMAIN c.labels : IsAnnotation(l)}
           own == {m[2] : m \in marked}
           pod == ToPodSandboxConfig(c)
<1>1. /\ pod.labels =
            Restrict(c.labels, DOMAIN c.labels \ (marked \union {PouchType, DockerType}))
      /\ pod.annotations =
            [l \in own \union DOMAIN c.annotations |->
                IF l \in own THEN c.labels[<<"annotation.", l>>] ELSE c.annotations[l]]
    BY DEF ToPodSandboxConfig
<1> HIDE DEF pod
<1>2. CASE ~IsAnnotation(key)
    BY <1>1, <1>2 DEF Restrict, pod
<1>3. CASE IsAnnotation(key)
  <2>1. key[2] \in own /\ key = <<"annotation.", key[2]>>
      BY <1>3 DEF IsAnnotation
  <2> HIDE DEF marked, own
  <2>2. pod.annotations[key[2]] = c.labels[<<"annotation.", key[2]>>]
      BY <1>1, <2>1
  <2> QED
      BY <2>1, <2>2 DEF pod
<1> QED
    BY <1>2, <1>3 DEF pod

LEMMA SuccessAgrees == StoresInv /\ AgreeInv => StoresAgree
<1>1. SUFFICES ASSUME StoresInv, AgreeInv, outcome = "prepared", NEW c \in Range(listed)
               PROVE  LET meta == containerDb[c]
                          typed == /\ PouchType \in DOMAIN meta.labels
                                   /\ meta.labels[PouchType] = "sandbox"
                          pod == sandboxDb[c].config
                      IN  /\ typed <=> c \in DOMAIN sandboxDb
                          /\ typed =>
                                /\ sandboxDb[c].netNS = meta.state.pid
                                /\ \A key \in DOMAIN meta.labels \ {PouchType, DockerType} :
                                      \/ /\ key \in DOMAIN pod.labels
                                         /\ pod.labels[key] = meta.labels[key]
                                      \/ pod.annotations[key[2]] = meta.labels[key]
    BY DEF StoresAgree
<1> DEFINE meta == containerDb[c]
           old == docker[c].labels
<1>2. PICK i \in DOMAIN listed : listed[i] = c /\ i < Len(listed) + 1
    BY DEF Range, StoresInv, CollectInv
<1>3. c \in Containers /\ MetaOf(c, meta) /\ Labels(docker[c])
    BY <1>1, <1>2 DEF StoresInv, CollectInv, AgreeInv, Inspected, SavedUpTo, Described
<1> HIDE DEF meta
<1>4. /\ meta.labels = ToLabels(Canonical(c), old) /\ meta.state.pid \in Nat
      /\ PouchType \notin DOMAIN old
      /\ ContainerOfSandbox(old) => ~SandboxName(Canonical(c))
      /\ \A key \in DOMAIN old : key = <<key[1], key[2]>>
    BY <1>3 DEF MetaOf, Labels, Canonical
<1>5. (PouchType \in DOMAIN meta.labels /\ meta.labels[PouchType] = "sandbox")
         <=> SandboxName(Canonical(c))
    BY <1>4 DEF ToLabels, Put
<1>6. \A key \in DOMAIN meta.labels \ {PouchType} : key = <<key[1], key[2]>>
    BY <1>4 DEF ToLabels, Put
<1>7. c \in DOMAIN sandboxDb => SandboxName(Canonical(c))
    BY <1>1 DEF AgreeInv
<1>8. ASSUME SandboxName(Canonical(c))
      PROVE  c \in DOMAIN sandboxDb /\ sandboxDb[c] = ToCRIMetaJSON(meta)
  <2>1. PICK j \in DOMAIN sandboxContainers : sandboxContainers[j].id = c
      BY <1>1, <1>2, <1>8 DEF StoresInv, SandboxInv, SandboxesUpTo, Inspected
  <2>2. j < Len(sandboxContainers) + 1
    <3>1. sandboxContainers \in Seq(Range(sandboxContainers))
        BY <1>1 DEF StoresInv, SandboxInv
    <3> QED
        BY <3>1
  <2>3. sandboxContainers[j] = meta
      BY <1>1, <2>1 DEF AgreeInv, Inspected, SameUpTo, meta
  <2> QED
      BY <1>1, <2>1, <2>2, <2>3 DEF AgreeInv, ToldUpTo
<1>9. ASSUME SandboxName(Canonical(c))
      PROVE  sandboxDb[c].netNS = meta.state.pid /\ sandboxDb[c].config = ToPodSandboxConfig(meta)
    BY <1>4, <1>8, <1>9 DEF ToCRIMetaJSON
<1> QED
    BY <1>5, <1>6, <1>7, <1>8, <1>9, LabelsOfPod DEF meta

(***************************************************************************)
(* After a successful PreMigrate pouchd and its CRI manager are told the   *)
(* same of every container, if kubernetes has set the labels: the records  *)
(* of sandboxes that earlier runs left are all replaced.                   *)
(***************************************************************************)
THEOREM StoresAreInAgreement ==
    ASSUME KubernetesLabels
    PROVE  Spec => []StoresAgree
<1>1. ASSUME Init
      PROVE  AgreeInv
  <2>1. \A c \in Containers : Described(docker[c])
      BY <1>1 DEF Init, KubernetesLabels
  <2>2. DOMAIN sandboxDb = {}
      BY <1>1 DEF Init
  <2>3. pc = "off" /\ outcome = "none"
      BY <1>1 DEF Init
  <2> QED
      BY <2>1, <2>2, <2>3 DEF AgreeInv, Inspected
<1>2. /\ StoresInv /\ StoresInv' /\ TypeOK /\ AgreeInv /\ [Next]_vars
      => AgreeInv'
  <2>1. ASSUME AgreeInv, UNCHANGED vars
        PROVE  AgreeInv'
      BY <2>1 DEF vars, dockerVars, memory, stores, sandboxes, AgreeInv, Inspected, SavedUpTo,
                  SameUpTo, ToldUpTo, MetaOf, Canonical
  <2> QED
      BY <2>1, AgreeStep
<1> QED
    BY <1>1, <1>2, SuccessAgrees, StoresInvHolds, StoresTypeCorrect, PTL DEF Spec

-----------------------------------------------------------------------------
(* What a container is set up with *)

\* Whether an entry of an environment is the value of a variable.
ValueOf(entry, var) == Len(entry) = 2 /\ entry[1] = var

\* docker describes environments, binds and capabilities as lists of strings
\* taken apart, and its client names the run mode no more than once.
SetUpAs(d) ==
    /\ {"env", "host"} \subseteq DOMAIN d
    /\ d.env \in Seq(Seq(STRING))
    /\ \A i, j \in DOMAIN d.env :
          ValueOf(d.env[i], "ali_run_mode") /\ ValueOf(d.env[j], "ali_run_mode") => i = j
    /\ d.host.caps \in Seq(STRING)
    /\ d.host.binds \in Seq(Seq(STRING))

OneRunMode == \A h \in Hosts : \A c \in Containers : SetUpAs(h.containers[c])

Library(d) ==
    LET envs == ParseEnv(d.env) IN IF "LD_PRELOAD" \in DOMAIN envs THEN envs["LD_PRELOAD"] ELSE ""

Binds(d) ==
    LET lib == Library(d)
    IN  IF lib = "" \/ <<lib, lib, "ro">> \in Range(d.host.binds) THEN d.host.binds
        ELSE Append(d.host.binds, <<lib, lib, "ro">>)

\* The metadata m was saved of a container that is set up as d says.
SavedOf(d, m) ==
    /\ m.env = ToVMMode(d.env)
    /\ m.host.caps = AddCaps(d.host.caps)
    /\ m.host.binds = Binds(d)

SettingsInv ==
    /\ \A c \in Containers : SetUpAs(docker[c])
    /\ \A c \in DOMAIN containerDb : SavedOf(docker[c], containerDb[c])

\* The i-th entry is the only value of a variable.
OnlyValue(env, var, i) ==
    /\ i \in DOMAIN env
    /\ ValueOf(env[i], var)
    /\ \A j \in DOMAIN env : ValueOf(env[j], var) => j = i

\* A variable with one value has it.
LEMMA ParsedValue ==
    ASSUME NEW env \in Seq(Seq(STRING)), NEW var, NEW i, OnlyValue(env, var, i)
    PROVE  var \in DOMAIN ParseEnv(env) /\ ParseEnv(env)[var] = env[i][2]
<1> DEFINE pairs == {j \in DOMAIN env : Len(env[j]) = 2}
           Wins(j) == env[j][1] = var /\ \A l \in pairs : env[l][1] = var => l <= j
           winner == CHOOSE j \in pairs : Wins(j)
<1>1. i \in pairs /\ env[i][1] = var /\ \A j \in pairs : env[j][1] = var => j = i
    BY DEF ValueOf, OnlyValue
<1>2. i \in pairs /\ Wins(i)
    BY <1>1
<1>3. winner \in pairs /\ Wins(winner)
    BY <1>2
<1>4. winner = i
    BY <1>1, <1>3
<1>5. /\ DOMAIN ParseEnv(env) = {env[j][1] : j \in pairs}
      /\ var \in {env[j][1] : j \in pairs} => ParseEnv(env)[var] = env[winner][2]
    BY DEF ParseEnv
<1>6. var \in {env[j][1] : j \in pairs}
    BY <1>1
<1> QED
    BY <1>4, <1>5, <1>6

\* A variable that is parsed has a value.
LEMMA ParsedHasValue ==
    ASSUME NEW env \in Seq(Seq(STRING)), NEW var \in DOMAIN ParseEnv(env)
    PROVE  \E i \in DOMAIN env : ValueOf(env[i], var)
BY DEF ParseEnv, ValueOf

\* The run mode is the one entry that changes.
LEMMA VMMode ==
    ASSUME NEW env \in Seq(Seq(STRING)),
           \A i, j \in DOMAIN env :
              ValueOf(env[i], "ali_run_mode") /\ ValueOf(env[j], "ali_run_mode") => i = j
    PROVE  /\ Len(ToVMMode(env)) = Len(env)
           /\ \A i \in DOMAIN env :
                 ToVMMode(env)[i] = IF ValueOf(env[i], "ali_run_mode")
                                    THEN <<"ali_run_mode", "vm">> ELSE env[i]
<1> DEFINE envs == ParseEnv(env)
           old == <<"ali_run_mode", envs["ali_run_mode"]>>
           I == {j \in 1..Len(env) : env[j] = old}
           first == IF I # {} THEN Min(I) ELSE 0
<1>1. ToVMMode(env) = IF "ali_run_mode" \in DOMAIN envs
                      THEN [env EXCEPT ![first] = <<"ali_run_mode", "vm">>] ELSE env
    BY DEF ToVMMode, SelectInSeq
<1>2. CASE "ali_run_mode" \notin DOMAIN envs
  <2>1. \A i \in DOMAIN env : ~ValueOf(env[i], "ali_run_mode")
    <3>1. SUFFICES ASSUME NEW i \in DOMAIN env, ValueOf(env[i], "ali_run_mode")
                   PROVE  FALSE
        OBVIOUS
    <3>2. OnlyValue(env, "ali_run_mode", i)
        BY <3>1 DEF OnlyValue
    <3> QED
        BY <1>2, <3>2, ParsedValue
  <2> QED
      BY <1>1, <1>2, <2>1
<1>3. CASE "ali_run_mode" \in DOMAIN envs
  <2>1. PICK i \in DOMAIN env : ValueOf(env[i], "ali_run_mode")
      BY <1>3, ParsedHasValue
  <2>2. envs["ali_run_mode"] = env[i][2]
    <3>1. OnlyValue(env, "ali_run_mode", i)
        BY <2>1 DEF OnlyValue
    <3> QED
        BY <3>1, ParsedValue
  <2>3. env[i] = old
      BY <2>1, <2>2 DEF ValueOf
  <2>4. i \in Nat /\ DOMAIN env = 1..Len(env)
      OBVIOUS
  <2>5. Len(old) = 2 /\ old[1] = "ali_run_mode"
      OBVIOUS
  <2> HIDE DEF old
  <2>6. I = {i}
    <3>1. ASSUME NEW j \in I
          PROVE  j = i
      <4>1. j \in DOMAIN env /\ env[j] = old
          BY <2>4
      <4>2. ValueOf(env[j], "ali_run_mode")
          BY <2>5, <4>1 DEF ValueOf
      <4> QED
          BY <2>1, <4>1, <4>2
    <3> QED
        BY <2>3, <2>4, <3>1
  <2> HIDE DEF I
  <2>7. Min(I) = i
      BY <2>4, <2>6 DEF Min
  <2>8. first = i
      BY <2>6, <2>7
  <2> HIDE DEF envs, first
  <2>9. ToVMMode(env) = [env EXCEPT ![i] = <<"ali_run_mode", "vm">>]
      BY <1>1, <1>3, <2>8 DEF old, I
  <2>10. Len(ToVMMode(env)) = Len(env)
      BY <2>9
  <2> QED
      BY <2>1, <2>9, <2>10
<1> QED
    BY <1>2, <1>3

\* Every default capability is there, and none twice.
LEMMA AddedCaps ==
    ASSUME NEW caps \in Seq(STRING)
    PROVE  /\ Range(AddCaps(caps)) = Range(caps) \union Range(DefaultCaps)
           /\ IsInjective(caps) => IsInjective(AddCaps(caps))
<1> DEFINE more == Skip(DefaultCaps, Range(caps))
<1> DEFINE X == Range(DefaultCaps)
<1>1. DefaultCaps \in Seq(X) /\ IsInjective(DefaultCaps)
  <2>1. Len(DefaultCaps) = 6 /\ DefaultCaps = [i \in 1..6 |-> DefaultCaps[i]]
      BY DEF DefaultCaps
  <2>2. /\ DefaultCaps[1] = "SYS_RESOURCE" /\ DefaultCaps[2] = "SYS_MODULE"
        /\ DefaultCaps[3] = "SYS_PTRACE" /\ DefaultCaps[4] = "SYS_PACCT"
        /\ DefaultCaps[5] = "NET_ADMIN" /\ DefaultCaps[6] = "SYS_ADMIN"
      BY DEF DefaultCaps
  <2>3. DOMAIN DefaultCaps = 1..6
      BY <2>1
  <2>4. DefaultCaps \in [1..6 -> X]
      BY <2>1, <2>3 DEF Range
  <2>5. DefaultCaps \in Seq(X)
    <3>1. 6 \in Nat /\ DefaultCaps \in [1..6 -> X]
        BY <2>4
    <3> HIDE DEF X
    <3>2. DefaultCaps \in UNION {[1..n -> X] : n \in Nat}
        BY <3>1
    <3>3. Seq(X) = UNION {[1..n -> X] : n \in Nat}
        BY SeqDef, Zenon
    <3> QED
        BY <3>2, <3>3, Zenon
  <2>6. \A i \in 1..6 : i = 1 \/ i = 2 \/ i = 3 \/ i = 4 \/ i = 5 \/ i = 6
      OBVIOUS
  <2>7. IsInjective(DefaultCaps)
      BY <2>2, <2>3, <2>6 DEF IsInjective
  <2> QED
      BY <2>5, <2>7
<1>2. /\ more \in Seq(X)
      /\ Range(more) = Range(DefaultCaps) \ Range(caps)
      /\ IsInjective(more)
    BY <1>1, SkipEntries
<1>3. AddCaps(caps) = caps \o more
    BY DEF AddCaps
<1> HIDE DEF more, X
<1>4. /\ DOMAIN (caps \o more) = 1..(Len(caps) + Len(more))
      /\ \A i \in DOMAIN caps : (caps \o more)[i] = caps[i]
      /\ \A i \in 1..Len(more) : (caps \o more)[Len(caps) + i] = more[i]
      /\ \A i \in 1..(Len(caps) + Len(more)) : i \in DOMAIN caps \/ i - Len(caps) \in DOMAIN more
      /\ DOMAIN caps = 1..Len(caps) /\ DOMAIN more = 1..Len(more)
      /\ Len(caps) \in Nat /\ Len(more) \in Nat
    BY <1>2
<1>5. Range(caps \o more) = Range(caps) \union Range(more)
  <2> DEFINE all == caps \o more
             n == Len(caps)
  <2>1. \A i \in DOMAIN caps : i \in DOMAIN all /\ all[i] = caps[i]
      BY <1>4
  <2>2. \A i \in DOMAIN more : n + i \in DOMAIN all /\ all[n + i] = more[i]
      BY <1>4
  <2>3. \A i \in DOMAIN all : i \in DOMAIN caps \/ \E j \in DOMAIN more : i = n + j
    <3>1. \A i \in DOMAIN all : i = n + (i - n)
        BY <1>4
    <3> QED
        BY <1>4, <3>1
  <2> HIDE DEF all, n
  <2>4. \A x : x \in Range(all) <=> x \in Range(caps) \/ x \in Range(more)
    <3>1. \A f, x : x \in Range(f) <=> \E i \in DOMAIN f : x = f[i]
        BY DEF Range
    <3> QED
        BY <2>1, <2>2, <2>3, <3>1
  <2> QED
      BY <2>4 DEF all
<1>6. ASSUME IsInjective(caps), NEW i \in DOMAIN (caps \o more), NEW j \in DOMAIN (caps \o more),
             (caps \o more)[i] = (caps \o more)[j]
      PROVE  i = j
  <2> DEFINE all == caps \o more
             n == Len(caps)
  <2>1. ASSUME NEW x \in DOMAIN all, x \notin DOMAIN caps
        PROVE  x - n \in DOMAIN more /\ all[x] = more[x - n] /\ x \in Nat
    <3>1. x \in 1..(n + Len(more)) /\ x - n \in DOMAIN more
        BY <1>4, <2>1
    <3>2. x = n + (x - n)
        BY <1>4, <3>1
    <3>3. all[n + (x - n)] = more[x - n]
        BY <1>4, <3>1
    <3> QED
        BY <3>1, <3>2, <3>3
  <2>2. \A x \in DOMAIN caps : all[x] = caps[x] /\ caps[x] \in Range(caps)
      BY <1>4 DEF Range
  <2>3. \A x \in DOMAIN more : more[x] \notin Range(caps)
      BY <1>2 DEF Range
  <2> HIDE DEF all
  <2>4. all[i] = all[j] /\ i \in DOMAIN all /\ j \in DOMAIN all
      BY <1>6 DEF all
  <2>5. CASE i \in DOMAIN caps /\ j \in DOMAIN caps
      BY <1>6, <2>2, <2>4, <2>5 DEF IsInjective
  <2>6. CASE i \notin DOMAIN caps /\ j \notin DOMAIN caps
    <3>1. i - n = j - n /\ i \in Nat /\ j \in Nat
        BY <1>2, <2>1, <2>4, <2>6 DEF IsInjective
    <3> QED
        BY <1>4, <3>1
  <2>7. (i \in DOMAIN caps) = (j \in DOMAIN caps)
      BY <2>1, <2>2, <2>3, <2>4
  <2> QED
      BY <2>5, <2>6, <2>7
<1>7. IsInjective(caps) => IsInjective(caps \o more)
    BY <1>6 DEF IsInjective
<1> QED
    BY <1>2, <1>3, <1>5, <1>7

\* What InspectContainer saves of what a container is set up with.
LEMMA SavedSettings ==
    ASSUME NEW d
    PROVE  SavedOf(d, ToPouchContainerMeta(d))
BY DEF SavedOf, ToPouchContainerMeta, ToHostConfig, Binds, Library

LEMMA SettingsStep ==
    ASSUME DockerInv, TypeOK, SettingsInv, Next
    PROVE  SettingsInv'
<1> USE DEF dockerVars
<1>1. \A c \in Containers : /\ SetUpAs(docker'[c])
                            /\ docker'[c].env = docker[c].env /\ docker'[c].host = docker[c].host
  <2>1. CASE UNCHANGED docker
      BY <2>1 DEF SettingsInv
  <2>2. ASSUME NEW c \in conts, NEW s, docker' = [docker EXCEPT ![c].state = s]
        PROVE  \A d \in Containers :
                  /\ SetUpAs(docker'[d])
                  /\ docker'[d].env = docker[d].env /\ docker'[d].host = docker[d].host
    <3>1. c \in Containers /\ \A d \in Containers \ {c} : docker'[d] = docker[d]
        BY <2>2 DEF DockerInv
    <3>2. docker'[c] = [docker[c] EXCEPT !.state = s]
        BY <2>2, <3>1 DEF DockerInv
    <3>3. /\ DOMAIN docker'[c] = DOMAIN docker[c]
          /\ docker'[c].env = docker[c].env /\ docker'[c].host = docker[c].host
        BY <3>1, <3>2 DEF SettingsInv, SetUpAs
    <3>4. SetUpAs(docker'[c])
        BY <3>1, <3>3 DEF SettingsInv, SetUpAs
    <3> QED
        BY <3>1, <3>3, <3>4 DEF SettingsInv
  <2>3. \/ UNCHANGED docker
        \/ \E c \in conts : \E s : docker' = [docker EXCEPT ![c].state = s]
      BY DEF Next, UserStep, StartRun, PreMigrate, ListContainers, ToVolumes, InspectContainer,
             EndOfContainers, NewVolumeStore, SetRefAndSize, EndOfRefs, PutVolume, EndOfPuts,
             Shutdown, CreateSandbox, EndOfSandboxes, Crash
  <2> QED
      BY <2>1, <2>2, <2>3
<1>2. \A c \in Containers : \A m : SavedOf(docker[c], m) => SavedOf(docker'[c], m)
  <2> SUFFICES ASSUME NEW c \in Containers, NEW m, SavedOf(docker[c], m)
               PROVE  SavedOf(docker'[c], m)
      OBVIOUS
  <2>1. docker'[c].env = docker[c].env /\ docker'[c].host = docker[c].host
      BY <1>1
  <2>2. Library(docker'[c]) = Library(docker[c])
      BY <2>1 DEF Library
  <2>3. Binds(docker'[c]) = Binds(docker[c])
      BY <2>1, <2>2 DEF Binds
  <2> QED
      BY <2>1, <2>3 DEF SavedOf
<1>3. DOMAIN containerDb \subseteq Containers
    BY DEF TypeOK
<1>4. CASE UNCHANGED containerDb
    BY <1>1, <1>2, <1>3, <1>4 DEF SettingsInv
<1>5. CASE InspectContainer
  <2> DEFINE c == listed[k]
             meta == ToPouchContainerMeta(docker[c])
  <2>1. \/ UNCHANGED containerDb
        \/ containerDb' = Put(containerDb, c, meta)
        \/ containerDb' = Restrict(containerDb, DOMAIN containerDb \ {c})
      BY <1>5 DEF InspectContainer
  <2>2. SavedOf(docker[c], meta) /\ UNCHANGED docker
      BY <1>5, SavedSettings DEF InspectContainer
  <2> HIDE DEF c, meta
  <2>3. CASE containerDb' = Put(containerDb, c, meta)
    <3>1. \A d \in DOMAIN containerDb' :
             \/ d = c /\ containerDb'[d] = meta
             \/ d \in DOMAIN containerDb /\ containerDb'[d] = containerDb[d]
        BY <2>3 DEF Put
    <3> QED
        BY <1>1, <2>2, <3>1 DEF SettingsInv
  <2>4. CASE containerDb' = Restrict(containerDb, DOMAIN containerDb \ {c})
    <3>1. \A d \in DOMAIN containerDb' :
             d \in DOMAIN containerDb /\ containerDb'[d] = containerDb[d]
        BY <2>4 DEF Restrict
    <3> QED
        BY <1>1, <2>2, <3>1 DEF SettingsInv
  <2> QED
      BY <1>4, <2>1, <2>3, <2>4
<1> QED
    BY <1>4, <1>5
    DEF Next, UserStep, StartRun, PreMigrate, ListContainers, ToVolumes, EndOfContainers,
        NewVolumeStore, SetRefAndSize, EndOfRefs, PutVolume, EndOfPuts, Shutdown, CreateSandbox,
        EndOfSandboxes, Crash, stores

LEMMA PrefixOfAppend ==
    ASSUME NEW S, NEW s \in Seq(S), NEW x
    PROVE  IsPrefix(s, s) /\ IsPrefix(s, Append(s, x))
<1> DEFINE n == Len(s)
           t == Append(s, x)
<1>1. n \in Nat /\ Len(t) = n + 1 /\ n <= Len(t) /\ n <= n
    OBVIOUS
<1>2. SubSeq(s, 1, n) = [i \in 1..n |-> s[i]]
    OBVIOUS
<1>3. SubSeq(t, 1, n) = [i \in 1..n |-> s[i]]
    OBVIOUS
<1> QED
    BY <1>1, <1>2, <1>3 DEF IsPrefix

\* A preloaded library that is not among the binds is added to them.
LEMMA LibraryIsBound ==
    ASSUME NEW d, SetUpAs(d)
    PROVE  /\ IsPrefix(d.host.binds, Binds(d))
           /\ \A i \in DOMAIN d.env :
                 /\ ValueOf(d.env[i], "LD_PRELOAD") /\ d.env[i][2] # ""
                 /\ \A j \in DOMAIN d.env : ValueOf(d.env[j], "LD_PRELOAD") => i = j
                 => \E bind \in Range(Binds(d)) : bind[2] = d.env[i][2]
<1> DEFINE binds == d.host.binds
           lib == Library(d)
           bind0 == <<lib, lib, "ro">>
           added == Append(binds, bind0)
<1>1. Binds(d) = IF lib = "" \/ bind0 \in Range(binds) THEN binds ELSE added
    BY DEF Binds
<1>2. binds \in Seq(Seq(STRING))
    BY DEF SetUpAs
<1>3. bind0[2] = lib
    OBVIOUS
<1> HIDE DEF binds, lib, bind0
<1>4. /\ Len(added) = Len(binds) + 1 /\ Len(binds) \in Nat
      /\ DOMAIN added = 1..(Len(binds) + 1)
      /\ \A i \in 1..Len(binds) : added[i] = binds[i]
      /\ added[Len(binds) + 1] = bind0
    BY <1>2
<1>5. bind0 \in Range(added)
    BY <1>4 DEF Range
<1>6. IsPrefix(binds, binds) /\ IsPrefix(binds, added)
    BY <1>2, PrefixOfAppend
<1>7. ASSUME NEW i \in DOMAIN d.env, ValueOf(d.env[i], "LD_PRELOAD"), d.env[i][2] # "",
             \A j \in DOMAIN d.env : ValueOf(d.env[j], "LD_PRELOAD") => i = j
      PROVE  \E bind \in Range(Binds(d)) : bind[2] = d.env[i][2]
  <2>1. /\ "LD_PRELOAD" \in DOMAIN ParseEnv(d.env)
        /\ ParseEnv(d.env)["LD_PRELOAD"] = d.env[i][2]
    <3> DEFINE env == d.env
    <3>1. env \in Seq(Seq(STRING))
        BY DEF SetUpAs
    <3>2. OnlyValue(env, "LD_PRELOAD", i)
        BY <1>7 DEF OnlyValue
    <3> HIDE DEF added, env
    <3>3. "LD_PRELOAD" \in DOMAIN ParseEnv(env) /\ ParseEnv(env)["LD_PRELOAD"] = env[i][2]
        BY <3>1, <3>2, ParsedValue
    <3> QED
        BY <3>3 DEF env
  <2>2. lib = d.env[i][2]
      BY <2>1 DEF lib, Library
  <2>3. bind0 \in Range(Binds(d))
      BY <1>1, <1>5, <1>7, <2>2
  <2> QED
      BY <1>3, <2>2, <2>3
<1> QED
    BY <1>1, <1>6, <1>7 DEF binds

\* What is said of what was saved.
LEMMA SettingsOfSaved ==
    ASSUME NEW old, SetUpAs(old), NEW new, SavedOf(old, new)
    PROVE  /\ Len(new.env) = Len(old.env)
           /\ \A i \in DOMAIN old.env :
                 new.env[i] = IF ValueOf(old.env[i], "ali_run_mode") THEN <<"ali_run_mode", "vm">>
                              ELSE old.env[i]
           /\ IsPrefix(old.host.binds, new.host.binds)
           /\ \A i \in DOMAIN old.env :
                 /\ ValueOf(old.env[i], "LD_PRELOAD") /\ old.env[i][2] # ""
                 /\ \A j \in DOMAIN old.env : ValueOf(old.env[j], "LD_PRELOAD") => i = j
                 => \E bind \in Range(new.host.binds) : bind[2] = old.env[i][2]
           /\ Range(new.host.caps) = Range(old.host.caps) \union Range(DefaultCaps)
           /\ IsInjective(old.host.caps) => IsInjective(new.host.caps)
<1>1. /\ Len(new.env) = Len(old.env)
      /\ \A i \in DOMAIN old.env :
            new.env[i] = IF ValueOf(old.env[i], "ali_run_mode") THEN <<"ali_run_mode", "vm">>
                         ELSE old.env[i]
    BY VMMode DEF SetUpAs, SavedOf
<1>2. /\ Range(new.host.caps) = Range(old.host.caps) \union Range(DefaultCaps)
      /\ IsInjective(old.host.caps) => IsInjective(new.host.caps)
    BY AddedCaps DEF SetUpAs, SavedOf
<1>3. /\ IsPrefix(old.host.binds, Binds(old))
      /\ \A i \in DOMAIN old.env :
            /\ ValueOf(old.env[i], "LD_PRELOAD") /\ old.env[i][2] # ""
            /\ \A j \in DOMAIN old.env : ValueOf(old.env[j], "LD_PRELOAD") => i = j
            => \E bind \in Range(Binds(old)) : bind[2] = old.env[i][2]
    BY LibraryIsBound
<1>4. new.host.binds = Binds(old)
    BY DEF SavedOf
<1> QED
    BY <1>1, <1>2, <1>3, <1>4

(***************************************************************************)
(* A container goes on in pouch as it was set up in docker, if docker's    *)
(* client has left one run mode in its environment: all of its             *)
(* environment but the run mode, its binds and the preloaded library, its  *)
(* capabilities and pouch's, whatever its run did before and after.        *)
(***************************************************************************)
THEOREM SettingsAreKept ==
    ASSUME OneRunMode
    PROVE  Spec => []SettingsKept
<1>1. Init => SettingsInv
    BY DEF Init, SettingsInv, OneRunMode
<1>2. StoresInv /\ TypeOK /\ SettingsInv /\ [Next]_vars => SettingsInv'
  <2>1. CASE UNCHANGED vars
      BY <2>1 DEF SettingsInv, vars, dockerVars, stores
  <2> QED
      BY <2>1, SettingsStep DEF StoresInv
<1>3. TypeOK /\ SettingsInv => SettingsKept
  <2>1. SUFFICES ASSUME TypeOK, SettingsInv, NEW c \in DOMAIN containerDb
                 PROVE  /\ SetUpAs(docker[c]) /\ SavedOf(docker[c], containerDb[c])
      BY SettingsOfSaved DEF SettingsKept, ValueOf
  <2> QED
      BY <2>1 DEF SettingsInv, TypeOK
<1> QED
    BY <1>1, <1>2, <1>3, StoresInvHolds, StoresTypeCorrect, PTL DEF Spec
=============================================================================
