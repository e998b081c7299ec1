# A verification development for d2p-migrator

d2p-migrator moves the containers of a host from docker to pouch: it prepares
pouch's data directory while docker serves, stops the containers, moves their
upper directories into containerd snapshots, replaces the docker package by
the pouch package and starts the containers again. This directory holds a
TLA+ model of it, the TLC runs that check it on small hosts, and TLAPS proofs
of what matters most. `PROJECT.json` lists components, runs, mutants, the
lines each definition models, findings, hazards and theorems.

Runs: `tlc -config X.cfg M`; proofs: `tlapm M.tla` for the modules whose names end in `_proofs`.

## 1. Inventory

| Component (src/) | State | Operations | Interacts with | Hard parts | Correct when |
|---|---|---|---|---|---|
| `runCmd` (main.go) | flags, `needRevert` | PreMigrate, Migrate, PostMigrate, deferred revert | D2pMigrator | early returns; a revert that fails; death at any point; runs after runs | a run ends; a failed Migrate is undone |
| D2pMigrator (migrator/migrator.go) | clients, pid of containerd | NewD2pMigrator, initPouchEnv, the phases, PrepareImages | docker API, containerd, config file | containerd must be dead before pouchd starts | the two never share the root directory |
| coldMigrator (migrator/cold_migrate.go) | upperDirMappingList, allContainers, runningContainers, images | PreMigrate, Migrate, PostMigrate, RevertMigration | dockerd, containerd, file system, pouchd | partial failure at every element of four loops; state read an hour before it is used; users | no file lost; no switch before all is in pouch; no container left stopped |
| liveMigrator (migrator/live_migrate.go) | allContainers, containers to take over | same phases, without stop and move | as above | the state that decides is read early; entries of earlier runs; live-restore is assumed | every running container is known to pouch; none is stopped |
| volumes (migrator/volume_migrate.go, pouch/convertor/volumes.go) | boltdb, reference strings | PrepareVolumes, ContainerVolumeRefsCount | docker API, pouchd (later reader) | partial Put, closing of the database | each volume once, with all references |
| CRI (migrator/cri_migrate.go, pouch/convertor/cri.go) | sandbox store, resolv.conf | GenerateSandboxMetaJSON, ToCRIMetaJSON | dockerd, pouchd (later reader) | partial store; records of earlier runs; an attempt beyond 32 bits | each sandbox once, as pouchd is told |
| docker service (docker/) | dockerd, package | API wrappers, StopDockerService, UninstallDockerService | systemd, rpm | retries; failure between stop and erase | docker stopped before it is erased |
| pouch service (pouch/utils.go) | pouchd, three goroutines | InstallPouchService, waitPouchAlive, ChangeHomeDir | rpm, pouchd's socket | timeout against a late success, leaked goroutine | success means an answer; it returns; the leak is bounded |
| containerd client (ctrd/containerd.go) | process, lease, images, snapshots | StartContainerd, PullImage, CreateSnapshot, NewContainer, Cleanup | registry, containerd's collector | reference and snapshotter chosen in two places; one lease for all clients | the image pulled is the one looked up; no snapshot is collected |
| images (ctrd/image/) | digests, blobs, a lease per pull | PullManifest, Converter.Convert | registry, containerd's content store and collector | blobs written one by one, before anything names them; a history that is newest first | an image on record is readable; diffIDs follow the history |
| convertor (pouch/convertor/core.go) | the description it converts, and shares | ToPouchContainerMeta | - | a list changed in place, duplicates, states without a counterpart | the container keeps its settings |
| image proxy, utils, hook, version | none | - | - | - | - |

The processes that run concurrently are the tool, dockerd with the containers
and their users, and (after the switch) pouchd. Inside the tool everything is
sequential but the goroutines of `StopDockerService` and `waitPouchAlive`.

## 2. Modules

An arrow is EXTENDS; the last column instantiates a module for TLC.

    MoveDir -> Host -> Runner -> ColdMigrator -> ColdHandover ------> MCColdMigrator
                          |           `--------> ColdInvariant ---'
                          |                          `-> ColdMigrator_proofs
                          |           ColdMigrator_proofs, ColdHandover -> ColdService_proofs
                          `----> LiveMigrator -> LiveHandover ------> MCLiveMigrator
                                                 `-> LiveMigrator_proofs
    Handover, an INSTANCE in ColdHandover and LiveHandover
    ServiceSwitch -> ServiceSwitch_proofs, with EngineSwitch as an INSTANCE
    Selection -> ContainerMeta -> PouchStores ---------------------> MCPouchStores
        |                             `-> PouchStores_proofs
        |-> Schema1 -> ContentStore -> ImageStore -----------------> MCImageStore
        |                                  `-> ImageStore_proofs -> ImagePreparation_proofs
        `-> Selection_proofs, for both of the stores' proofs

* `MoveDir` - `utils.MoveDir`, i.e. `mv src/* dst` run by bash: `Glob` is what
  `src/*` matches (no dotfiles), `MoveDir(src, mayFail)` the set of outcomes
  (entries moved, exit status). An empty match makes mv fail. A failing mv may
  have moved any part of the entries.
* `Host` - the environment: dockerd (`dockerd`, `cstate`, `upper`), pouch's data
  directory (`store`, `snapshot`, `snapUpper`, `meta`, `homeDir`, `netdb`,
  `volumes`, `sandboxes`), the migrator's containerd (`ctrd`), pouchd (`pouchd`,
  `pstate`), and what users and containers do (`Exit`, `Start`, `Pause`,
  `Remove`; a restart policy is a `Start`). `legacy` and `down` are history
  variables: the content an upper directory had, and the containers the tool has
  stopped. A directory is the set of its top-level entries. `Faulty` names the
  calls that may fail.
* `Runner` - what the runs of both migrators share: the call that comes next
  (`pc`), the index of its loop (`k`), how a run leaves (`Leave`: containerd dies
  with its parent), the outcomes and after which of them the operator may start
  the tool again (`RerunAfter`).
* `ColdMigrator` - `runCmd`, `D2pMigrator` and `coldMigrator`. The variables have
  the names of the code's. One action is one call with its
  error path. An action whose call can leave a partial effect when it fails
  says so (`MoveUpperDir`, `MigrateNetworkFile`, `StopContainer`,
  `StopDockerService`, `InstallPouchService`, and `save2Disk` in two steps).
  `StartRun` is the operator; `Crash` kills the process; `HostStep` is everybody else.
* `LiveMigrator` - the same with `liveMigrator`: no file moves, no container is
  stopped by name; running containers are registered in containerd
  (`DeleteOldEntry`, `NewContainer`) by the `status` read at inspection.
  `TakeOver` is what pouchd makes of the metadata and of the entries.
* `Handover` - the abstract promise of both: a hand-over from docker to pouch that is
  decided at one instant for all containers. `ColdHandover` and `LiveHandover`
  map the migrators to it (`ImplementsHandover`): `engine` from dockerd and pouchd,
  `sides` from the files (cold) or the metadata (live), `phase` from `pc`, the dockerd
  state and the outcome. `Resume` lets another run follow a stuck one where docker has
  everything.
* `ServiceSwitch` - `UninstallDockerService` and `InstallPouchService` with their
  goroutines: `main` is the caller, `stopper` the goroutine that tries
  `systemctl stop docker` three times, `timer` the 120 s, `dialer` the one that
  dials the socket without end; `stopDocker` and `timeout` are channels of
  capacity 1, the unbuffered `check` is a rendezvous of `main` and `dialer`.
  `EngineSwitch` is what the migrators take it for: three atomic calls.
  `ImplementsSwitch` justifies the steps `StopDockerService`,
  `EraseDockerPackage` and `InstallPouchService` of the migrators, effects of failed
  calls included.
* `ContainerMeta` - the conversions of pouch/convertor: what becomes of a
  container's name, state, times, labels, environment, capabilities, binds, mounts,
  networks and limits in pouchd's metadata (`ToPouchContainerMeta`), and
  of a sandbox in CRI's (`ToCRIMetaJSON`). Strings that the code splits are kept in parts.
  `MaxAttempt` stands for 2^32 - 1.
* `PouchStores` - `PrepareVolumes`, `save2Disk` and `GenerateSandboxMetaJSON` taken
  apart, as the live migrator calls them, with those conversions: the metadata of
  the containers (`containerDb`), `volumeRefs` (the comma-separated ids as a
  sequence), the volumes in memory (`specs`), volume.db and its file lock,
  sandboxes-meta and resolv.conf. Users remove containers and volumes, containers exit
  and are started with another process while the tool runs and between its runs.
* `Selection` - the loop both converters have, that appends what it does not skip, as a
  recursive function (`Skip`): the `SelectSeq` of the library cannot be proved about.
* `Schema1` - the conversion of docker's old manifests: which blobs are empty, the
  history turned round, the diffIDs, the manifest and config that come of it.
* `ContentStore` - containerd and `Client.PullImage`: `WithLease`, `Resolve`, the walk
  over an index, its manifests and their children (`Dispatch`), `HandleSchema1`,
  the converted manifest and config in two writes, `RecordImage`, `Unpack`.
  Each blob is a write of its own. `CollectGarbage`, at any time, removes whatever no
  image and no lease leads to. A lease also holds what it finds stored already.
* `ImageStore` - who asks for images, under which names: `PrepareImages`
  (--pull-images, with and without --image-manifest-only), the image part of `doPrepare`,
  and `CreateSnapshot`. A reference is a record of its five parts. `ColdMigrator` knows an
  image by one name in one snapshotter; `ImageStore` says when that is so.
* `ColdInvariant` and the modules named `_proofs` - section 4.

What the states of `ColdMigrator` stand for (`LiveMigrator` likewise):

| Model | Code |
|---|---|
| `pc` in `PreMigratePcs` | D2pMigrator.PreMigrate up to its return |
| `PreMigrateLoop`, `k` | the loop of coldMigrator.PreMigrate with doPrepare and save2Disk |
| `pc = "network", "stop", "move", "kill"` | D2pMigrator.Migrate |
| `pc = "back", "restart"` | RevertMigration in runCmd's deferred function |
| `PostMigratePcs` | PostMigrate |
| `allContainers[c]` = "none", "false", "true" | no key, value false, value true |
| `upperDirMappingList` | the container of each mapping; srcDir is `upper[c]`, dstDir `snapUpper[c]` |
| `outcome` | how runCmd returned: "prepared" (no --migrate-all), "unprepared" (PreMigrate failed), "reverted", "revertFailed", "postFailed", "done"; "interrupted" when it was killed in or after Migrate |

## 3. Runs

All runs of the migrators have two containers; two are enough for an element of a
loop that precedes, and one that follows, the one at which a call fails, for both
orders of a listing and for images shared or not. A directory holds at most
one ordinary entry, one dotfile and the marker: properties tell apart only
entries that move, entries that do not, and the marker.
`MaxRuns = 2` gives every combination of a first run and what a second
finds (3 for images: a manifest, a death, and a preparation). `MaxActs` bounds the
acts of users and containers. Three `LeaseIds` are one more than a run needs
after one that died with a pull's lease; the attempts of sandboxes go one beyond `MaxAttempt`.
The hosts of stores_faults vary mounts, names, labels, environments and capabilities one at a
time, as the conversions treat them independently, beside a second container that is a sandbox.
CHECK_DEADLOCK is FALSE in all of them: a process that has ended is no deadlock.

| Run | Host | Shows |
|---|---|---|
| cold_faults | every call may fail, the process may die, live-restore, no act of users, one container may exit | `HandoverComplete`, `NoFileLost`, `RevertRestores`, `ServiceRestored`, `NoDoubleRun`, `ExclusiveRoot`, `OnlyStoppedMoved`, `IInv`, `ImplementsHandover`, `TypeOK` |
| cold_users | containers paused or gone from the start, users interfere (two acts), mv, start and the process may fail | `DeletedArePruned`, `ImplementsHandover`, `RunsEnd` (liveness) |
| cold_takeover | nothing fails, a container may exit | `TakenOver` (liveness) |
| cold_revert_after_stop | docker stop may fail | violated: `FailedMigrationReverted` |
| cold_dotfiles | nothing fails | violated: `AllFilesMoved` |
| cold_rerun | the process dies, and is started again | violated: `NoFileLost` |
| live_faults | every call may fail, the process may die, live-restore; two acts: containers exit and are removed at any time, and are started and paused between the runs | `HandoverComplete`, `NoOrphans`, `DeletedArePruned`, `ImplementsHandover`, `TypeOK` |
| live_takeover | nothing fails; two runs | `TakenOver` (liveness) |
| switch_faults | every command may fail, pouchd may crash or never listen | `ErasedSafely`, `OkIsAnswered`, `ConnectionsBounded`, `SwitchInv`, `Returns` (liveness), `ImplementsSwitch`, `TypeOK` |
| stores_faults | volumes of every driver and up to two mounts per container; or odd names, labels, environments and capabilities; every call fails, the process dies, one act of a user, two runs | `RefsMatchMounts`, `StoreClosed`, `SandboxesComplete`, `StoresAgree`, `SettingsKept`, `TypeOK` |
| images_faults | an index for two platforms and a schema 1 manifest (well formed or not), under full, short and digested names; all flags, every call but the labelling of configs fails, the process dies, the collector runs at any time, three runs | `NamesCanonical`, `PreparationSucceeds`, `ImagesReadable`, `ConvertedConsistent`, `SnapshotsKept`, `TypeOK` |
| images_short_name | a container created from a short name | violated: `PreparationSucceeds` |

The violated ones are the findings in `PROJECT.json`, each against a comment or a
document of the repository. They also mark assumptions of the passing runs:
`NoFileLost` needs an operator who does not start the tool again after an
interrupted run, a failed revert or a failed PostMigrate (`RerunAfter`), and
the cold migrator names that docker keeps in full.

More configurations, outside the runs, show where the other properties end:

| Configuration | Host | Violated |
|---|---|---|
| Cold_paused.cfg | containers paused from the start (TODO in PreMigrate) are not stopped, but moved | `OnlyStoppedMoved` |
| Cold_ghosts.cfg | a container removed between a preparing run and the migrating run comes up in pouch | `NoGhosts` |
| Cold_sandboxes.cfg | PrepareVolumes fails, its error is swallowed and the sandboxes are skipped | `SandboxesPrepared` |
| Cold_deletion.cfg | a container removed during the run fails the move and the revert | `DeletionTolerated` |
| Cold_engineless.cfg | rpm -e fails after docker has stopped, and nothing reverts PostMigrate: the host has neither engine | `EngineRemains` |
| Live_without_live_restore.cfg | docker without live-restore, which nothing checks, ends the containers | `NotAffected` |
| Live_started.cfg | a container started after its inspection has no entry in containerd | `NoOrphans` |
| Stores_sizes.cfg | an alilocal volume nobody mounts is stored without its size | `AlilocalSized` |
| Stores_restarting.cfg | docker's states restarting and removing become an empty status beside Running | `StatusKnown` |
| Stores_ghosts.cfg | the record of a sandbox removed between two runs stays in the CRI store | `NoGhostSandboxes` |
| Images_overlay.cfg | docker's overlay driver: unpacked in overlay1fs, snapshot in overlayfs | `PreparationSucceeds` |
| Images_manifest_only.cfg | --pull-images takes the manifest of --image-manifest-only for the image | `ImagesDownloaded` |
| Images_label.cfg | Unpack commits its snapshot and fails to label the config: the collector takes the snapshot | `PreparationSucceeds` |
| Images_tag_moves.cfg | a tag moves at the registry after docker's pull: the snapshot's parent is another image | `OwnImage` |
| Images_tag_returns.cfg | a tag moves on and back between runs | `PreparationSucceeds` |
| Images_overwritten.cfg | docker lists a schema 1 image under another name than its user wrote, and --image-manifest-only overwrites its record | `PreparationSucceeds` |

**Fairness.** The migrators' `FairSpec` assumes `WF_vars(RunCmd)`: the process is
sequential and always has a next call while it runs, and each call returns. That is
what the scheduler and the clients give. Nothing is assumed of
users, of crashes or of an operator who starts the tool. `TakenOver` starts from a
run of PreMigrate with --migrate-all, so it does not ask for a run to begin.
`Locked` is the host lock the comments of PostMigrate count on: users start and pause
nothing while the tool runs, but containers exit and are removed.
`ServiceSwitch` assumes weak fairness of the caller, of the stopping goroutine and of the
timer - Go's scheduler runs whatever is ready, commands and the sleep end - and none of
the dialler or of pouchd: `Returns` must hold if pouchd never listens.

**Mutants.** Operators named `<action>_<bug>` are faulty versions of
definitions; for each property of a passing run one of them makes TLC find a
violation.

## 4. Proofs

### The cold migration

`ColdMigrator_proofs` proves, for every set of containers, images and files, every
set of failing calls, acts and bounds,

    RerunAfter \subseteq SafeOutcomes  =>  (Spec => []P)

for P = `IInv`, `TypeOK`, `HandoverComplete`, `NoFileLost` and `RevertRestores`. The
assumption is the one that `cold_rerun` shows to be needed. The others are the named
assumptions of `Host`, `MoveDir`, `Runner` and `ColdMigrator` (finitely many containers,
each with an image, the marker no dotfile).

None of the properties is inductive: that docker may be stopped now
follows from what happened to each container since the start of the run. `IInv` adds

* `FilesAccounted`: each file is on one of the two sides, snapshots hold no dotfiles,
  and outside the moves docker has everything (`AtRest`);
* `LoopInvariant`: in PreMigrate's loop the containers before index `k` are prepared,
  and the mappings are a prefix of the list - even if doPrepare is about to
  delete a snapshot, which by `AtRest` then holds nothing docker lacks;
* `KnownInvariant`: from the end of that loop on each container that still exists is
  prepared and has a mapping;
* `MoveInvariant`: the mappings before `k` have arrived (in pouch when moving, at
  docker when moving back), and after the last one all have;
* `PostInvariant`: the deleted containers are really gone, so pruning harms nobody.

The step lemmas go by phase of the run, one step per action, one below it per
part of `IInv`. TLC checks `IInv` in cold_faults.

`ColdService_proofs` goes on from there to `ServiceInv`, which adds

* `EngineInv`: which engine and which containerd may be there at each call, for
  `ExclusiveRoot`;
* `PruneInv`: the containers that the second listing misses are on the list of those
  to remove, and removed up to index `k`, for `DeletedArePruned`;
* `StopInv`, if users are locked out (`Locked`): a container that runs is among those listed
  as running, then among those to stop, and after the stops none runs, for `NoDoubleRun`;
* `DownInv`, if besides nobody pauses containers (`NeverPaused`): what the run has stopped
  is on the list from which PostMigrate or the revert starts containers, at an index
  still to come, for `ServiceRestored` and `OnlyStoppedMoved`.

Each theorem states as assumptions the ones of these it needs. Without `Locked` TLC finds
`ServiceRestored` violated on the host of cold_users, and `NoDoubleRun` too if that has
live-restore; without `NeverPaused`, `OnlyStoppedMoved` (Cold_paused.cfg).

`ColdIsHandover` proves `ImplementsHandover`: every step of the cold migration, under
`ServiceInv` before and after, is a step of `Handover` or changes nothing in it. The lemmas go by
the abstract action - `PreMigrateIsPrepare`, `MigrateIsTransfer`, `RevertIsAbort`,
`HostStepIsDelete` - and rest on `OneSideChanges`: a step that moves the files of one container
leaves all others on the side they were.

### The live migration

`LiveMigrator_proofs` proves `LiveInv` inductive with no assumption on reruns, as no run
of the live migrator moves or deletes what docker has: `LoopInv` says that what the loop has
seen is known to pouch, `ReadyInv` that at its end everything is, `PruneInv` and `EngineInv`
carry that over the second listing and the switch. It gives `TypeOK`, `HandoverComplete`,
`DeletedArePruned` and the refinement `ImplementsHandover`, and with `Locked` also
`NoOrphans`: what a user starts after its inspection has no entry in containerd
(Live_started.cfg).

### The stores and the images

`PouchStores_proofs` proves `StoresInv`, for any host and any faults: the references of
a volume are those of the containers inspected so far (`RefsUpTo`), the volumes before `k` are
stored with them (`StoredUpTo`), the sandboxes before `k` are in the CRI store
(`CreatedUpTo`), and the file lock is held exactly between the opening and the closing.
`TypeOK`, `RefsMatchMounts`, `StoreClosed` and `SandboxesComplete` follow. That docker
describes a container under its own id (`DescriptionAssumption`) is assumed. `AgreeInv` goes
on from there to `StoresAgree`: the metadata saved before `k` are of the containers as
inspected in this run (`SavedUpTo`), the sandboxes in memory are the same
records (`SameUpTo`), and CRI's are made of them (`ToldUpTo`), so that no record of an earlier
run survives for a container that is still there. It assumes that labels are as kubernetes and
docker set them (`KubernetesLabels`): no sandbox is labelled as a container of one, and
none has pouch's own label.

`SettingsInv`, in the same module, says that what is stored of a container is the conversion
of what docker has of it, in whatever state it was then; `SettingsKept` follows by lemmas about
the conversions: `VMMode` (the run mode is the one entry that changes), `LibraryIsBound`,
`AddedCaps`. It assumes that docker lists strings and that its client has left one run mode
in an environment (`OneRunMode`); TLC evaluates it to TRUE on the hosts of stores_faults.

`Selection_proofs` says of `Skip` what a loop invariant would: after k entries those kept so far
are in their order and none else (`IsSelection`). `AddedCaps` and `ConvertedAgrees` need it. As
the library's induction theorems cannot be used, `LeastNatural` takes their place: a set of
naturals that is not empty has a least element, here the least k at which the claim fails.

`ImageStore_proofs` proves `StoreInv`: until `RecordImage` names an image the lease of the pull
holds each blob that was written or found (`LeaseInv`, `PullInv`), and the lease of the client,
which outlives runs, holds the snapshots (`SnapshotInv`). `NamesCanonical`,
`ImagesReadable`, `SnapshotsKept` and the second half of `PreparationSucceeds` (a
preparation that ends well has made every snapshot) follow. The registry is assumed to have
images that are manifests or indices of manifests, and schema 1 manifests with a blob sum
and a history of each layer (`RegistryAssumption`).

`TypeInv` adds to it where each blob comes from: everything stored, listed or held can be reached
from what the registry has or from what its schema 1 manifests are converted to (`Roots`), for
`TypeOK`. `OriginInv` says that a manifest with a history was made of a well-formed schema 1
manifest; what `Convert` makes of one agrees with it (`ConvertedAgrees`, counted from the end of the
old list by `CountedFromEnd`), for `ConvertedConsistent`.

`ImagePreparation_proofs` proves `PreparationSucceeds`, as far as it is true. doPrepare ignores
what it finds on record and pulls each image once in a run, so `FoundInv` has to say
that whatever was pulled in this run is still there: the record under its stored name, of a kind
with diffIDs, and its unpacked layers. The layers are kept first by the lease of the pull
(`UnpackedInv`), then by the label of a config that an image on record leads to, so
they stay only if nobody overwrites that record by one with another config. `Undisturbed` says
just this; without its parts, TLC finds the property violated:

| Part of `Undisturbed` | Without it |
|---|---|
| users wrote full names | Images_short_name.cfg |
| docker's driver is unpacked into the snapshotter where it is looked up | Images_overlay.cfg |
| the label of a config never fails to be written | Images_label.cfg |
| all a tag may refer to has one config | Images_tag_returns.cfg |
| no record of a converted image is overwritten by one without diffIDs | Images_overwritten.cfg |
| docker has a name for every image, if PrepareImages runs | it refuses by an early return (`InspectImage`) |

It holds of images_faults. With it, `LayersAreKept` says that no step takes
unpacked layers away.

### The switch of the engines

`ServiceSwitch_proofs` proves `SwitchInv`, `TypeOK`, `ErasedSafely`, `OkIsAnswered`,
`ConnectionsBounded` and the refinement `ImplementsSwitch`, for every set of failing
commands and without any assumption. `SwitchInv` ties each goroutine to the place
of the caller: the stopping goroutine lives exactly while the caller waits for
it (`StopperInv`), the timer and the dialler outlive the call, and the number
of connections is what the caller has received plus what the dialler is
sending (`WaitInv`) - which is why the dialler that nobody stops does not
open one connection after another.

### Only model-checked

The liveness properties `TakenOver`, `RunsEnd` and `Returns` (fairness and ENABLED are beyond the
prover). Every other property of a passing run is a theorem, under the assumptions named above;
what the properties say with hypotheses of the theorems left out is in the runs and
configurations that are violated.

## 5. What is abstracted or left out

* Names, metadata and mounts as values: a call that computes them is
  its effect and its failure. The mounts of a snapshot and its quota are one step.
* A docker stop that returns an error may or may not have stopped the container;
  dockerd refuses to stop or to start a paused one.
* The migrators stop docker, erase its package and install pouch in one step each, and
  fill each store in one step; `ServiceSwitch` and `PouchStores` take these apart.
* pouchd loads the containers whose meta.json is whole; a torn one is skipped. It takes
  over a running container that has metadata saying so and an entry in containerd.
* A boltdb transaction is atomic, and the kernel drops the file lock of a dead process.
* Blobs are values: two with the same content are one. What a registry has under a name is a
  set; which of them it answers with is open at each pull (Images_tag_moves.cfg). The converter
  that containerd's Pull brings along also takes a schema 1 layer for empty if its content
  proves to be; `Convert` goes by the history, as the repository's own does.
* An rpm command that fails has had no effect.
* A run-mode entry is in an environment once, as docker's client leaves it; of several the code
  replaces the first that equals the last.
* Of a container's description the parts the conversion decides about; fields copied as
  they are, ports and devices, which are copied one by one, are left out. So are the string
  helpers of utils (tested there), but for the two in `ContainerMeta`.
* Signal handling, logging, --version, credentials and proxies (image_proxy_util.go is a copy of
  net/http's reading of the environment, and has no state).
* A new container is not created while the tool runs: the code relies on a host
  that is locked against that (comment in PostMigrate).

## 6. Plan

Done: everything of section 2; every safety property of the passing runs is proved, and all
three refinements. Left: `PouchStores` and `ImageStore` shown to implement the single steps that
`ColdMigrator` and `LiveMigrator` take them for, as `EngineSwitch` does for the switch.
