---------------------------- MODULE ColdMigrator ----------------------------
(***************************************************************************)
(* d2p-migrator in its default mode, cold migration: main.runCmd, the      *)
(* wrapper D2pMigrator and coldMigrator, one action per call that can      *)
(* change the host or fail.  A run prepares the pouch data directory       *)
(* (PreMigrate), stops the containers and moves their files (Migrate) and  *)
(* replaces docker by pouch (PostMigrate); a failed Migrate is reverted.   *)
(* The operator may start the tool again, the process may die at any step. *)
(***************************************************************************)
EXTENDS Runner

VARIABLES
    \* What the coldMigrator remembers, besides listed and allContainers.
    listedRunning,       \* those whose c.State was "running" in that list
    runningContainers,
    images,
    upperDirMappingList  \* by container id

memory == <<migrateAll, listed, listedRunning, allContainers, runningContainers,
            images, upperDirMappingList, deletedContainers>>
vars == <<dockerVars, ctrd, pouchData, pouchVars, down, pc, k, memory, outcome, runs>>

PreMigrateLoop == {"pull", "stale", "create", "quota", "open", "write"}
PreMigratePcs ==
    {"env", "list", "inspect", "volumes", "sandboxes"} \union PreMigrateLoop
MigratePcs == {"network", "stop", "move", "kill"}
RevertPcs == {"back", "restart"}
PostMigratePcs ==
    {"relist", "uninstall", "erase", "install", "prune", "launch"}

TypeOK ==
    /\ HostTypeOK
    /\ pc \in {"off"} \union PreMigratePcs \union MigratePcs \union RevertPcs
                \union PostMigratePcs
    /\ k \in Nat \ {0}
    /\ migrateAll \in BOOLEAN
    /\ listed \in Seq(Containers)
    /\ listedRunning \subseteq Containers
    /\ allContainers \in [Containers -> {"none", "false", "true"}]
    /\ runningContainers \in Seq(Containers)
    /\ images \subseteq Images
    /\ upperDirMappingList \in Seq(Containers)
    /\ deletedContainers \in Seq(Containers)
    /\ outcome \in Outcomes
    /\ runs \in 0..MaxRuns

Init ==
    /\ HostInit
    /\ pc = "off"
    /\ k = 1
    /\ migrateAll = FALSE
    /\ listed = <<>>
    /\ listedRunning = {}
    /\ allContainers = [c \in Containers |-> "none"]
    /\ runningContainers = <<>>
    /\ images = {}
    /\ upperDirMappingList = <<>>
    /\ deletedContainers = <<>>
    /\ outcome = "none"
    /\ runs = 0

-----------------------------------------------------------------------------
\* Mutant: an outcome that is no outcome.
FailMigrate_Unnamed == Leave("failed")

\* Migrate returned an error, and needRevert is set.
FailMigrate == Enter("back")

-----------------------------------------------------------------------------
(* NewD2pMigrator and PreMigrate. *)

\* The operator starts the tool, with or without --migrate-all; it needs a
\* dockerd that answers and starts a containerd of its own.
StartRun ==
    /\ pc = "off"
    /\ runs < MaxRuns
    /\ outcome \in RerunAfter \union {"none"}
    /\ dockerd = "up"
    /\ pc' = "env"
    /\ k' = 1
    /\ ctrd' = "running"
    /\ migrateAll' \in BOOLEAN
    /\ listed' = <<>>
    /\ listedRunning' = {}
    /\ allContainers' = [c \in Containers |-> "none"]
    /\ runningContainers' = <<>>
    /\ images' = {}
    /\ upperDirMappingList' = <<>>
    /\ deletedContainers' = <<>>
    /\ outcome' = "none"
    /\ runs' = runs + 1
    /\ UNCHANGED <<dockerVars, pouchData, pouchVars, down>>

InitPouchEnv ==
    /\ pc = "env"
    /\ \/ homeDir' = TRUE /\ Goto("list")
       \/ Fails("config") /\ FailPreMigrate /\ UNCHANGED homeDir
    /\ UNCHANGED <<dockerVars, store, snapshot, snapUpper, meta, netdb, volumes,
                   sandboxes, pouchVars, down, memory, runs>>

ListContainers ==
    /\ pc = "list"
    /\ \/ /\ Fails("list")
          /\ FailPreMigrate
          /\ UNCHANGED <<listed, listedRunning>>
       \/ /\ Present = {}
          /\ EndPreMigrate
          /\ UNCHANGED <<listed, listedRunning>>
       \/ /\ Present # {}
          /\ listed' \in ListingsOf(Present)
          /\ listedRunning' = {c \in Present : cstate[c] = "running"}
          /\ Enter("inspect")
    /\ UNCHANGED <<dockerVars, pouchData, pouchVars, down, migrateAll, allContainers,
                   runningContainers, images, upperDirMappingList, deletedContainers, runs>>

\* The head of the loop over the listed containers.
InspectContainer ==
    /\ pc = "inspect"
    /\ k <= Len(listed)
    /\ LET c == listed[k] IN
       /\ allContainers' = [allContainers EXCEPT ![c] = "false"]
       /\ runningContainers' = IF c \in listedRunning THEN Append(runningContainers, c)
                                                      ELSE runningContainers
       /\ \/ Alive(c) /\ Goto("pull")
          \/ (~Alive(c) \/ Fails("inspect")) /\ FailPreMigrate
    /\ UNCHANGED <<dockerVars, pouchData, pouchVars, down, migrateAll, listed,
                   listedRunning, images, upperDirMappingList, deletedContainers, runs>>

\* Mutant: the loop ends one container too early.
EndOfContainers_SkipsLast ==
    /\ pc = "inspect"
    /\ k >= Len(listed)
    /\ Goto("volumes")
    /\ UNCHANGED <<dockerVars, pouchData, pouchVars, down, memory, runs>>

EndOfContainers ==
    /\ pc = "inspect"
    /\ k > Len(listed)
    /\ Goto("volumes")
    /\ UNCHANGED <<dockerVars, pouchData, pouchVars, down, memory, runs>>

\* cm.images remembers what this run has pulled.
PullImage ==
    /\ pc = "pull"
    /\ LET img == ImageOf[listed[k]] IN
       /\ images' = images \union {img}
       /\ \/ img \in images /\ Goto("stale") /\ UNCHANGED store
          \/ img \notin images /\ store' = store \union {img} /\ Goto("stale")
          \/ img \notin images /\ Fails("pull") /\ FailPreMigrate /\ UNCHANGED store
    /\ UNCHANGED <<dockerVars, snapshot, snapUpper, meta, homeDir, netdb, volumes,
                   sandboxes, pouchVars, down, migrateAll, listed, listedRunning,
                   allContainers, runningContainers, upperDirMappingList,
                   deletedContainers, runs>>

\* A snapshot of that name is deleted with all it holds; the result of the
\* deletion is ignored.
RemoveStaleSnapshot ==
    /\ pc = "stale"
    /\ LET c == listed[k] IN
       \/ /\ snapshot' = snapshot \ {c}
          /\ snapUpper' = [snapUpper EXCEPT ![c] = {}]
       \/ Fails("snapshot") /\ UNCHANGED <<snapshot, snapUpper>>
    /\ Goto("create")
    /\ UNCHANGED <<dockerVars, store, meta, homeDir, netdb, volumes, sandboxes,
                   pouchVars, down, memory, runs>>

\* Prepare fails when the name is taken or the image is not in the store.
CreateSnapshot ==
    /\ pc = "create"
    /\ LET c == listed[k]
           possible == c \notin snapshot /\ ImageOf[c] \in store IN
       \/ possible /\ snapshot' = snapshot \union {c} /\ Goto("quota")
       \/ (~possible \/ Fails("snapshot")) /\ FailPreMigrate /\ UNCHANGED snapshot
    /\ UNCHANGED <<dockerVars, store, snapUpper, meta, homeDir, netdb, volumes,
                   sandboxes, pouchVars, down, memory, runs>>

\* The mounts of the snapshot, its disk quota, and the pair of directories.
SetDirDiskQuota ==
    /\ pc = "quota"
    /\ \/ /\ upperDirMappingList' = Append(upperDirMappingList, listed[k])
          /\ Goto("open")
       \/ Fails("quota") /\ FailPreMigrate /\ UNCHANGED upperDirMappingList
    /\ UNCHANGED <<dockerVars, pouchData, pouchVars, down, migrateAll, listed,
                   listedRunning, allContainers, runningContainers, images,
                   deletedContainers, runs>>

\* Mutant: meta.json is opened, but not written.
TruncateMeta_NeverWrites ==
    /\ pc = "open"
    /\ \/ meta' = [meta EXCEPT ![listed[k]] = "torn"] /\ Again("inspect")
       \/ Fails("save") /\ FailPreMigrate /\ UNCHANGED meta
    /\ UNCHANGED <<dockerVars, store, snapshot, snapUpper, homeDir, netdb, volumes,
                   sandboxes, pouchVars, down, memory, runs>>

\* save2Disk truncates meta.json, then writes it.
TruncateMeta ==
    /\ pc = "open"
    /\ \/ meta' = [meta EXCEPT ![listed[k]] = "torn"] /\ Goto("write")
       \/ Fails("save") /\ FailPreMigrate /\ UNCHANGED meta
    /\ UNCHANGED <<dockerVars, store, snapshot, snapUpper, homeDir, netdb, volumes,
                   sandboxes, pouchVars, down, memory, runs>>

WriteMeta ==
    /\ pc = "write"
    /\ \/ meta' = [meta EXCEPT ![listed[k]] = "saved"] /\ Again("inspect")
       \/ Fails("save") /\ FailPreMigrate /\ UNCHANGED meta
    /\ UNCHANGED <<dockerVars, store, snapshot, snapUpper, homeDir, netdb, volumes,
                   sandboxes, pouchVars, down, memory, runs>>

\* An error of PrepareVolumes makes PreMigrate return nil at once.
PrepareVolumes ==
    /\ pc = "volumes"
    /\ \/ volumes' = TRUE /\ Goto("sandboxes")
       \/ Fails("volumes") /\ EndPreMigrate /\ UNCHANGED volumes
    /\ UNCHANGED <<dockerVars, store, snapshot, snapUpper, meta, homeDir, netdb,
                   sandboxes, pouchVars, down, memory, runs>>

GenerateSandboxMetaJSON ==
    /\ pc = "sandboxes"
    /\ \/ sandboxes' = TRUE /\ EndPreMigrate
       \/ Fails("sandboxes") /\ FailPreMigrate /\ UNCHANGED sandboxes
    /\ UNCHANGED <<dockerVars, store, snapshot, snapUpper, meta, homeDir, netdb,
                   volumes, pouchVars, down, memory, runs>>

-----------------------------------------------------------------------------
(* Migrate, and the revert that runCmd defers. *)

\* Mutant: the containers are not stopped before the moves.
MigrateNetworkFile_SkipsStops ==
    /\ pc = "network"
    /\ \/ netdb' = TRUE /\ Enter("move")
       \/ Fails("network") /\ netdb' \in {netdb, FALSE} /\ FailMigrate
    /\ UNCHANGED <<dockerVars, store, snapshot, snapUpper, meta, homeDir, volumes,
                   sandboxes, pouchVars, down, memory, runs>>

\* The old copy is removed before the new one is made.
MigrateNetworkFile ==
    /\ pc = "network"
    /\ \/ netdb' = TRUE /\ Enter("stop")
       \/ Fails("network") /\ netdb' \in {netdb, FALSE} /\ FailMigrate
    /\ UNCHANGED <<dockerVars, store, snapshot, snapUpper, meta, homeDir, volumes,
                   sandboxes, pouchVars, down, memory, runs>>

\* Mutant: an error of docker stop is ignored.
StopContainer_IgnoresError ==
    /\ pc = "stop"
    /\ k <= Len(runningContainers)
    /\ LET c == runningContainers[k] IN
       \/ /\ cstate[c] \in {"exited", "gone"}
          /\ Again("stop")
          /\ UNCHANGED <<cstate, down>>
       \/ /\ cstate[c] = "running"
          /\ cstate' = [cstate EXCEPT ![c] = "exited"]
          /\ down' = down \union {c}
          /\ Again("stop")
       \/ /\ cstate[c] = "paused" \/ Fails("stop")
          /\ Again("stop")
          /\ UNCHANGED <<cstate, down>>
    /\ UNCHANGED <<dockerd, upper, legacy, acts, pouchData, pouchVars, memory, runs>>

\* dockerd refuses to stop a paused container; that one is gone, or has
\* stopped by itself, is no error.  A stop that fails may have taken effect.
StopContainer ==
    /\ pc = "stop"
    /\ k <= Len(runningContainers)
    /\ LET c == runningContainers[k] IN
       \/ /\ cstate[c] \in {"exited", "gone"}
          /\ Again("stop")
          /\ UNCHANGED <<cstate, down>>
       \/ /\ cstate[c] = "running"
          /\ cstate' = [cstate EXCEPT ![c] = "exited"]
          /\ down' = down \union {c}
          /\ Again("stop") \/ (Fails("stop") /\ FailMigrate)
       \/ /\ cstate[c] = "paused" \/ Fails("stop")
          /\ FailMigrate
          /\ UNCHANGED <<cstate, down>>
    /\ UNCHANGED <<dockerd, upper, legacy, acts, pouchData, pouchVars, memory, runs>>

EndOfStops ==
    /\ pc = "stop"
    /\ k > Len(runningContainers)
    /\ Enter("move")
    /\ UNCHANGED <<dockerVars, pouchData, pouchVars, down, memory, runs>>

\* Mutant: the marker file is not created.
Touched_Never(c) == {upper[c]}

\* What docker's UpperDir of c can hold after the touch of the marker file,
\* whose failure is only logged.
Touched(c) ==
    {dir \in {upper[c], upper[c] \union {Marker}} :
        IF Alive(c) THEN Marker \in dir \/ Fails("touch") ELSE dir = upper[c]}

\* Mutant: an error of MoveDir is ignored.
MoveUpperDir_IgnoresError ==
    /\ pc = "move"
    /\ k <= Len(upperDirMappingList)
    /\ LET c == upperDirMappingList[k] IN
       \E dir \in Touched(c) : \E r \in MoveDir(dir, Fails("mv")) :
           /\ upper' = [upper EXCEPT ![c] = dir \ r.moved]
           /\ snapUpper' = [snapUpper EXCEPT ![c] = @ \union r.moved]
           /\ Again("move")
    /\ UNCHANGED <<dockerd, cstate, legacy, acts, store, snapshot, meta, homeDir, netdb,
                   volumes, sandboxes, pouchVars, down, memory, runs>>

\* touch srcDir/d2p-migrator.txt, then MoveDir(srcDir, dstDir).
MoveUpperDir ==
    /\ pc = "move"
    /\ k <= Len(upperDirMappingList)
    /\ LET c == upperDirMappingList[k] IN
       \E dir \in Touched(c) : \E r \in MoveDir(dir, Fails("mv")) :
           /\ upper' = [upper EXCEPT ![c] = dir \ r.moved]
           /\ snapUpper' = [snapUpper EXCEPT ![c] = @ \union r.moved]
           /\ IF r.ok THEN Again("move") ELSE FailMigrate
    /\ UNCHANGED <<dockerd, cstate, legacy, acts, store, snapshot, meta, homeDir, netdb,
                   volumes, sandboxes, pouchVars, down, memory, runs>>

EndOfMoves ==
    /\ pc = "move"
    /\ k > Len(upperDirMappingList)
    /\ Goto("kill")
    /\ UNCHANGED <<dockerVars, pouchData, pouchVars, down, memory, runs>>

\* Mutant: the migrator's containerd is left running.
KillContainerd_LeavesIt ==
    /\ pc = "kill"
    /\ pc' = "relist"
    /\ UNCHANGED <<dockerVars, ctrd, pouchData, pouchVars, down, k, memory, outcome, runs>>

\* D2pMigrator.Migrate ends with ctrd.Cleanup.
KillContainerd ==
    /\ pc = "kill"
    /\ pc' = "relist"
    /\ ctrd' = "stopped"
    /\ UNCHANGED <<dockerVars, pouchData, pouchVars, down, k, memory, outcome, runs>>

\* Mutant: an error of MoveDir is ignored.
MoveBack_IgnoresError ==
    /\ pc = "back"
    /\ k <= Len(upperDirMappingList)
    /\ LET c == upperDirMappingList[k] IN
       \/ /\ Alive(c)
          /\ \E r \in MoveDir(snapUpper[c], Fails("mv")) :
                /\ upper' = [upper EXCEPT ![c] = @ \union r.moved]
                /\ snapUpper' = [snapUpper EXCEPT ![c] = @ \ r.moved]
                /\ Again("back")
       \/ ~Alive(c) /\ Leave("revertFailed") /\ UNCHANGED <<upper, snapUpper>>
    /\ UNCHANGED <<dockerd, cstate, legacy, acts, store, snapshot, meta, homeDir, netdb,
                   volumes, sandboxes, pouchVars, down, memory, runs>>

\* Mutant: a move that failed is tried again for ever.
MoveBack_Retries ==
    /\ pc = "back"
    /\ k <= Len(upperDirMappingList)
    /\ LET c == upperDirMappingList[k] IN
       \/ /\ Alive(c)
          /\ \E r \in MoveDir(snapUpper[c], Fails("mv")) :
                /\ upper' = [upper EXCEPT ![c] = @ \union r.moved]
                /\ snapUpper' = [snapUpper EXCEPT ![c] = @ \ r.moved]
                /\ IF r.ok THEN Again("back") ELSE Enter("back")
       \/ ~Alive(c) /\ Enter("back") /\ UNCHANGED <<upper, snapUpper>>
    /\ UNCHANGED <<dockerd, cstate, legacy, acts, store, snapshot, meta, homeDir, netdb,
                   volumes, sandboxes, pouchVars, down, memory, runs>>

\* RevertMigration: MoveDir(dstDir, srcDir); srcDir is gone with its container.
MoveBack ==
    /\ pc = "back"
    /\ k <= Len(upperDirMappingList)
    /\ LET c == upperDirMappingList[k] IN
       \/ /\ Alive(c)
          /\ \E r \in MoveDir(snapUpper[c], Fails("mv")) :
                /\ upper' = [upper EXCEPT ![c] = @ \union r.moved]
                /\ snapUpper' = [snapUpper EXCEPT ![c] = @ \ r.moved]
                /\ IF r.ok THEN Again("back") ELSE Leave("revertFailed")
       \/ ~Alive(c) /\ Leave("revertFailed") /\ UNCHANGED <<upper, snapUpper>>
    /\ UNCHANGED <<dockerd, cstate, legacy, acts, store, snapshot, meta, homeDir, netdb,
                   volumes, sandboxes, pouchVars, down, memory, runs>>

\* Mutant: the revert forgets the containers it has to start.
EndOfMovesBack_NoRestart ==
    /\ pc = "back"
    /\ k > Len(upperDirMappingList)
    /\ Leave("reverted")
    /\ UNCHANGED <<dockerVars, pouchData, pouchVars, down, memory, runs>>

EndOfMovesBack ==
    /\ pc = "back"
    /\ k > Len(upperDirMappingList)
    /\ Enter("restart")
    /\ UNCHANGED <<dockerVars, pouchData, pouchVars, down, memory, runs>>

RestartContainer ==
    /\ pc = "restart"
    /\ k <= Len(runningContainers)
    /\ LET c == runningContainers[k] IN
       \/ /\ cstate[c] \in {"running", "exited"}
          /\ cstate' = [cstate EXCEPT ![c] = "running"]
          /\ down' = down \ {c}
          /\ Again("restart")
       \/ /\ cstate[c] \in {"paused", "gone"} \/ Fails("start")
          /\ Leave("revertFailed")
          /\ UNCHANGED <<cstate, down>>
    /\ UNCHANGED <<dockerd, upper, legacy, acts, pouchData, pouchVars, memory, runs>>

EndOfRevert ==
    /\ pc = "restart"
    /\ k > Len(runningContainers)
    /\ Leave("reverted")
    /\ UNCHANGED <<dockerVars, pouchData, pouchVars, down, memory, runs>>

-----------------------------------------------------------------------------
(* PostMigrate, which nothing reverts. *)

\* The second listing tells which containers were deleted in the meantime.
ListAgain ==
    /\ pc = "relist"
    /\ \/ /\ Fails("list")
          /\ Leave("postFailed")
          /\ UNCHANGED <<allContainers, deletedContainers>>
       \/ /\ allContainers' = [c \in Containers |->
                 IF allContainers[c] # "none" /\ Alive(c) THEN "true" ELSE allContainers[c]]
          /\ deletedContainers' \in
                 ListingsOf({c \in Containers : allContainers'[c] = "false"})
          /\ Goto("uninstall")
    /\ UNCHANGED <<dockerVars, pouchData, pouchVars, down, migrateAll, listed,
                   listedRunning, runningContainers, images, upperDirMappingList, runs>>

\* UninstallDockerService: backup of the config files, then systemctl stop docker,
\* which ends every container unless docker runs with live-restore.
StopDockerService ==
    /\ pc = "uninstall"
    /\ LET ended == {c \in Containers :
                       cstate[c] \in {"running", "paused"} /\ ~LiveRestore} IN
       \/ /\ dockerd' = "stopped"
          /\ cstate' = [c \in Containers |-> IF c \in ended THEN "exited" ELSE cstate[c]]
          /\ down' = down \union ended
          /\ Goto("erase") \/ (Fails("systemctl") /\ Leave("postFailed"))
       \/ /\ Fails("systemctl")
          /\ Leave("postFailed")
          /\ UNCHANGED <<dockerd, cstate, down>>
    /\ UNCHANGED <<upper, legacy, acts, pouchData, pouchVars, memory, runs>>

\* rpm -e
EraseDockerPackage ==
    /\ pc = "erase"
    /\ \/ dockerd' = "removed" /\ Goto("install")
       \/ Fails("rpm") /\ Leave("postFailed") /\ UNCHANGED dockerd
    /\ UNCHANGED <<cstate, upper, legacy, acts, pouchData, pouchVars, down, memory, runs>>

\* rpm -Uvh, the wait for pouchd's socket and the client.  pouchd loads what the
\* data directory holds; it may have come up although the tool gives up on it.
InstallPouchService ==
    /\ pc = "install"
    /\ \/ /\ pouchd' = "up"
          /\ pstate' = [c \in Containers |->
                           IF homeDir /\ meta[c] = "saved" THEN "stopped" ELSE "none"]
          /\ Enter("prune") \/ (Fails("pouch") /\ Leave("postFailed"))
       \/ Fails("rpm") /\ Leave("postFailed") /\ UNCHANGED pouchVars
    /\ UNCHANGED <<dockerVars, pouchData, down, memory, runs>>

\* Forced removal of a deleted container from pouch; "not found" is no error.
RemoveDeleted ==
    /\ pc = "prune"
    /\ k <= Len(deletedContainers)
    /\ LET c == deletedContainers[k] IN
       \/ /\ pstate[c] = "none"
          /\ Again("prune")
          /\ UNCHANGED <<pstate, meta, snapshot, snapUpper>>
       \/ /\ pstate[c] # "none"
          /\ pstate' = [pstate EXCEPT ![c] = "none"]
          /\ meta' = [meta EXCEPT ![c] = "none"]
          /\ snapshot' = snapshot \ {c}
          /\ snapUpper' = [snapUpper EXCEPT ![c] = {}]
          /\ Again("prune")
       \/ /\ Fails("pouch")
          /\ Leave("postFailed")
          /\ UNCHANGED <<pstate, meta, snapshot, snapUpper>>
    /\ UNCHANGED <<dockerVars, store, homeDir, netdb, volumes, sandboxes, pouchd, down,
                   memory, runs>>

\* Mutant: the last deleted container is not removed.
EndOfPrune_SkipsLast ==
    /\ pc = "prune"
    /\ k >= Len(deletedContainers)
    /\ Enter("launch")
    /\ UNCHANGED <<dockerVars, pouchData, pouchVars, down, memory, runs>>

EndOfPrune ==
    /\ pc = "prune"
    /\ k > Len(deletedContainers)
    /\ Enter("launch")
    /\ UNCHANGED <<dockerVars, pouchData, pouchVars, down, memory, runs>>

\* pouchd starts the containers that were running and are not deleted.
LaunchContainer ==
    /\ pc = "launch"
    /\ k <= Len(runningContainers)
    /\ LET c == runningContainers[k] IN
       \/ /\ c \in Range(deletedContainers)
          /\ Again("launch")
          /\ UNCHANGED <<pstate, down>>
       \/ /\ c \notin Range(deletedContainers)
          /\ pstate[c] # "none"
          /\ pstate' = [pstate EXCEPT ![c] = "running"]
          /\ down' = down \ {c}
          /\ Again("launch")
       \/ /\ c \notin Range(deletedContainers)
          /\ pstate[c] = "none" \/ Fails("pouch")
          /\ Leave("postFailed")
          /\ UNCHANGED <<pstate, down>>
    /\ UNCHANGED <<dockerVars, pouchData, pouchd, memory, runs>>

EndOfLaunch ==
    /\ pc = "launch"
    /\ k > Len(runningContainers)
    /\ Leave("done")
    /\ UNCHANGED <<dockerVars, pouchData, pouchVars, down, memory, runs>>

-----------------------------------------------------------------------------
\* The process is killed, or the host goes down and comes back.
Crash ==
    /\ pc # "off"
    /\ Fails("process")
    /\ Leave(IF pc \in PreMigratePcs THEN "unprepared" ELSE "interrupted")
    /\ UNCHANGED <<dockerVars, pouchData, pouchVars, down, memory, runs>>

\* Containers may end at any time; the rest is up to users.
HostStep ==
    /\ \E c \in Containers :
          \/ Exit(c) \/ Remove(c)
          \/ (~Locked \/ pc = "off") /\ (Start(c) \/ Pause(c))
    /\ UNCHANGED <<pc, k, memory, outcome, runs>>

PreMigrate ==
    \/ InitPouchEnv \/ ListContainers \/ InspectContainer \/ EndOfContainers
    \/ PullImage \/ RemoveStaleSnapshot \/ CreateSnapshot \/ SetDirDiskQuota
    \/ TruncateMeta \/ WriteMeta \/ PrepareVolumes \/ GenerateSandboxMetaJSON

Migrate ==
    \/ MigrateNetworkFile \/ StopContainer \/ EndOfStops
    \/ MoveUpperDir \/ EndOfMoves \/ KillContainerd

RevertMigration ==
    \/ MoveBack \/ EndOfMovesBack \/ RestartContainer \/ EndOfRevert

PostMigrate ==
    \/ ListAgain \/ StopDockerService \/ EraseDockerPackage \/ InstallPouchService
    \/ RemoveDeleted \/ EndOfPrune \/ LaunchContainer \/ EndOfLaunch

\* The steps of a run that has been started.
RunCmd == PreMigrate \/ Migrate \/ RevertMigration \/ PostMigrate

Next == StartRun \/ RunCmd \/ Crash \/ HostStep

Spec == Init /\ [][Next]_vars

\* A process that has been started goes on by itself.
FairSpec == Spec /\ WF_vars(RunCmd)

-----------------------------------------------------------------------------
(* What the runs leave behind. *)

\* c could be started by pouchd with every entry mv can see.
Prepared(c) == c \in snapshot /\ meta[c] = "saved"

(***************************************************************************)
(* Once PostMigrate has stopped docker nothing brings it back, so by then  *)
(* every container that still exists must be complete on the pouch side:   *)
(* known to the run, with metadata, a snapshot, its files and the network  *)
(* database - however many calls failed before, and whatever users did.    *)
(***************************************************************************)
HandoverComplete ==
    dockerd # "up" =>
        /\ netdb /\ homeDir
        /\ \A c \in Containers : Alive(c) => Prepared(c) /\ InPouch(c)

(***************************************************************************)
(* No entry of a container's upper directory is ever destroyed: at every   *)
(* moment, between two moves of a half-finished run or after a failed      *)
(* revert, it is in docker's directory or in the snapshot - although       *)
(* doPrepare deletes the snapshots that an earlier run has left.           *)
(***************************************************************************)
NoFileLost ==
    \A c \in Containers : Alive(c) => legacy[c] \subseteq upper[c] \union snapUpper[c]

(***************************************************************************)
(* When RevertMigration reports success, docker has all files again.       *)
(***************************************************************************)
RevertRestores ==
    pc = "off" /\ outcome = "reverted" => \A c \in Containers : Alive(c) => AtDocker(c)

(***************************************************************************)
(* A run that ends well, by completing or by reverting, leaves no          *)
(* container stopped that it has stopped.                                  *)
(***************************************************************************)
ServiceRestored ==
    outcome \in {"done", "reverted"} => down = {}

(***************************************************************************)
(* A container never runs under docker and under pouch at once, even with  *)
(* live-restore, where the stop of dockerd ends no container.              *)
(***************************************************************************)
NoDoubleRun ==
    \A c \in Containers : ~(pstate[c] = "running" /\ cstate[c] = "running")

(***************************************************************************)
(* pouchd's containerd has the root directory of the one the migrator      *)
(* started; the two must never be up together.                             *)
(***************************************************************************)
ExclusiveRoot == pouchd = "up" => ctrd = "stopped"

(***************************************************************************)
(* A container missing from the second listing is gone from pouch when     *)
(* the run is done, although its metadata was prepared.                    *)
(***************************************************************************)
DeletedArePruned ==
    outcome = "done" =>
        \A c \in Containers : allContainers[c] = "false" => pstate[c] = "none"

(***************************************************************************)
(* Migrate moves the upperDir of stopped containers only (comment in       *)
(* coldMigrator.Migrate): no step takes entries from under a container     *)
(* that runs or is paused.                                                 *)
(***************************************************************************)
OnlyStoppedMoved ==
    [][\A c \in Containers :
          ~(upper[c] \subseteq upper'[c]) /\ Alive(c)' => cstate[c] = "exited"]_vars

(***************************************************************************)
(* Every container that was listed as running by a run with --migrate-all  *)
(* is running under pouch in the end.                                      *)
(***************************************************************************)
TakenOver ==
    \A c \in Containers :
        (migrateAll /\ c \in listedRunning) ~> (outcome = "done" /\ pstate[c] = "running")

(***************************************************************************)
(* Whatever fails, a run that was started ends.                            *)
(***************************************************************************)
RunsEnd == pc # "off" ~> pc = "off"

-----------------------------------------------------------------------------
(* What comments and documents of the repository say, against the code. *)

(***************************************************************************)
(* main.runCmd: "If migration failed, revert it."                          *)
(***************************************************************************)
FailedMigrationReverted == outcome # "revertFailed"

(***************************************************************************)
(* utils.MoveDir: "moves all files in srcDir to dstDir" - so a completed   *)
(* migration has all files of a container in its snapshot.                 *)
(***************************************************************************)
AllFilesMoved ==
    outcome = "done" => \A c \in Containers : Alive(c) => legacy[c] \subseteq snapUpper[c]

(***************************************************************************)
(* PostMigrate lists the containers again "in case there will have         *)
(* containers be deleted": after a completed migration pouch has no        *)
(* container that docker no longer had.                                    *)
(***************************************************************************)
NoGhosts ==
    outcome = "done" => \A c \in Containers : pstate[c] # "none" => Alive(c)

(***************************************************************************)
(* PreMigrate: "prepare CRI meta for sandbox": when it has succeeded on a  *)
(* host with containers, the sandboxes of these are in the CRI store.      *)
(***************************************************************************)
SandboxesPrepared ==
    outcome = "prepared" /\ upperDirMappingList # <<>> => sandboxes

(***************************************************************************)
(* PostMigrate: "In case, there will have containers be deleted": when     *)
(* nothing fails but a container is deleted, the migration completes.      *)
(***************************************************************************)
DeletionTolerated == outcome \notin {"reverted", "revertFailed", "postFailed"}

(***************************************************************************)
(* UninstallDockerService backs up docker's configuration "in case we may  *)
(* revert migration": when PostMigrate fails, containers still have an     *)
(* engine.                                                                 *)
(***************************************************************************)
EngineRemains == outcome = "postFailed" => dockerd = "up" \/ pouchd = "up"
=============================================================================
