----------------------------- MODULE LiveMigrator -----------------------------
(***************************************************************************)
(* d2p-migrator with --live-migrate: liveMigrator under runCmd.  No file   *)
(* moves and no container is stopped; PreMigrate registers the running     *)
(* containers in containerd, so that pouchd finds them when docker is gone *)
(* and takes them over where they run.                                     *)
(***************************************************************************)
EXTENDS Runner

VARIABLES
    status,     \* meta.State.Status of the container inspected last
    registered, \* containers that have an entry in the migrator's containerd
    savedStatus \* the status in the meta.json of each container

memory == <<migrateAll, listed, allContainers, deletedContainers, status>>
saved == <<meta, savedStatus>>
files == <<upper, legacy, store, snapshot, snapUpper>>
vars == <<dockerVars, ctrd, pouchData, pouchVars, down, pc, k, memory, registered,
          savedStatus, outcome, runs>>

PreMigratePcs == {"env", "list", "inspect", "forget", "register", "open", "write",
                  "volumes", "sandboxes"}
PostMigratePcs == {"relist", "uninstall", "erase", "install", "prune"}

TypeOK ==
    /\ HostTypeOK
    /\ pc \in {"off", "network", "kill"} \union PreMigratePcs \union PostMigratePcs
    /\ k \in Nat \ {0}
    /\ migrateAll \in BOOLEAN
    /\ listed \in Seq(Containers)
    /\ allContainers \in [Containers -> {"none", "false", "true"}]
    /\ deletedContainers \in Seq(Containers)
    /\ status \in {"running", "paused", "exited"}
    /\ registered \subseteq Containers
    /\ savedStatus \in [Containers -> {"none", "running", "paused", "exited"}]
    /\ outcome \in Outcomes
    /\ runs \in 0..MaxRuns

Init ==
    /\ HostInit
    /\ pc = "off"
    /\ k = 1
    /\ migrateAll = FALSE
    /\ listed = <<>>
    /\ allContainers = [c \in Containers |-> "none"]
    /\ deletedContainers = <<>>
    /\ status = "exited"
    /\ registered = {}
    /\ savedStatus = [c \in Containers |-> "none"]
    /\ outcome = "none"
    /\ runs = 0

-----------------------------------------------------------------------------
(* NewD2pMigrator and PreMigrate. *)

StartRun ==
    /\ pc = "off"
    /\ runs < MaxRuns
    /\ outcome \in RerunAfter \union {"none"}
    /\ dockerd = "up"
    /\ pc' = "env"
    /\ k' = 1
    /\ ctrd' = "running"
    /\ migrateAll' \in BOOLEAN
    /\ listed' = <<>>
    /\ allContainers' = [c \in Containers |-> "none"]
    /\ deletedContainers' = <<>>
    /\ status' = "exited"
    /\ outcome' = "none"
    /\ runs' = runs + 1
    /\ UNCHANGED <<dockerVars, pouchData, pouchVars, down, registered, savedStatus>>

InitPouchEnv ==
    /\ pc = "env"
    /\ \/ homeDir' = TRUE /\ Goto("list")
       \/ Fails("config") /\ FailPreMigrate /\ UNCHANGED homeDir
    /\ UNCHANGED <<dockerVars, store, snapshot, snapUpper, saved, netdb, volumes,
                   sandboxes, pouchVars, down, memory, registered, runs>>

ListContainers ==
    /\ pc = "list"
    /\ \/ Fails("list") /\ FailPreMigrate /\ UNCHANGED listed
       \/ Present = {} /\ EndPreMigrate /\ UNCHANGED listed
       \/ Present # {} /\ listed' \in ListingsOf(Present) /\ Enter("inspect")
    /\ UNCHANGED <<dockerVars, pouchData, pouchVars, down, migrateAll, allContainers,
                   deletedContainers, status, registered, savedStatus, runs>>

\* Mutant: an error of the inspection is ignored.
InspectContainer_IgnoresError ==
    /\ pc = "inspect"
    /\ k <= Len(listed)
    /\ LET c == listed[k] IN
       /\ allContainers' = [allContainers EXCEPT ![c] = "false"]
       /\ status' = cstate[c]
       /\ Goto(IF cstate[c] = "running" THEN "forget" ELSE "open")
    /\ UNCHANGED <<dockerVars, pouchData, pouchVars, down, migrateAll, listed,
                   deletedContainers, registered, savedStatus, runs>>

\* The head of the loop; a container that does not run needs no entry in
\* containerd.  The plugin may fail as the inspection may.
InspectContainer ==
    /\ pc = "inspect"
    /\ k <= Len(listed)
    /\ LET c == listed[k] IN
       /\ allContainers' = [allContainers EXCEPT ![c] = "false"]
       /\ \/ /\ Alive(c)
             /\ status' = cstate[c]
             /\ Goto(IF cstate[c] = "running" THEN "forget" ELSE "open")
          \/ /\ ~Alive(c) \/ Fails("inspect")
             /\ FailPreMigrate
             /\ UNCHANGED status
    /\ UNCHANGED <<dockerVars, pouchData, pouchVars, down, migrateAll, listed,
                   deletedContainers, registered, savedStatus, runs>>

EndOfContainers ==
    /\ pc = "inspect"
    /\ k > Len(listed)
    /\ Goto("volumes")
    /\ UNCHANGED <<dockerVars, pouchData, pouchVars, down, memory, registered,
                   savedStatus, runs>>

\* Mutant: the entry of an earlier run is not deleted.
DeleteOldEntry_Keeps ==
    /\ pc = "forget"
    /\ \/ registered' = registered /\ Goto("register")
       \/ Fails("containerd") /\ FailPreMigrate /\ UNCHANGED registered
    /\ UNCHANGED <<dockerVars, pouchData, pouchVars, down, memory, savedStatus, runs>>

\* GetContainer, and DeleteContainer of the entry an earlier run has left.
DeleteOldEntry ==
    /\ pc = "forget"
    /\ \/ registered' = registered \ {listed[k]} /\ Goto("register")
       \/ Fails("containerd") /\ FailPreMigrate /\ UNCHANGED registered
    /\ UNCHANGED <<dockerVars, pouchData, pouchVars, down, memory, savedStatus, runs>>

\* Mutant: an error of NewContainer is ignored.
NewContainer_IgnoresError ==
    /\ pc = "register"
    /\ LET c == listed[k] IN
       \/ c \notin registered /\ registered' = registered \union {c} /\ Goto("open")
       \/ /\ c \in registered \/ Fails("containerd")
          /\ Goto("open")
          /\ UNCHANGED registered
    /\ UNCHANGED <<dockerVars, pouchData, pouchVars, down, memory, savedStatus, runs>>

NewContainer ==
    /\ pc = "register"
    /\ LET c == listed[k] IN
       \/ c \notin registered /\ registered' = registered \union {c} /\ Goto("open")
       \/ /\ c \in registered \/ Fails("containerd")
          /\ FailPreMigrate
          /\ UNCHANGED registered
    /\ UNCHANGED <<dockerVars, pouchData, pouchVars, down, memory, savedStatus, runs>>

\* Mutant: meta.json is opened, but not written.
TruncateMeta_NeverWrites ==
    /\ pc = "open"
    /\ \/ meta' = [meta EXCEPT ![listed[k]] = "torn"] /\ Again("inspect")
       \/ Fails("save") /\ FailPreMigrate /\ UNCHANGED meta
    /\ UNCHANGED <<dockerVars, store, snapshot, snapUpper, homeDir, netdb, volumes,
                   sandboxes, pouchVars, down, memory, registered, savedStatus, runs>>

\* save2Disk truncates meta.json, then writes it.
TruncateMeta ==
    /\ pc = "open"
    /\ \/ meta' = [meta EXCEPT ![listed[k]] = "torn"] /\ Goto("write")
       \/ Fails("save") /\ FailPreMigrate /\ UNCHANGED meta
    /\ UNCHANGED <<dockerVars, store, snapshot, snapUpper, homeDir, netdb, volumes,
                   sandboxes, pouchVars, down, memory, registered, savedStatus, runs>>

\* Mutant: the status comes from an earlier meta.json, if there is one.
WriteMeta_StaleStatus ==
    /\ pc = "write"
    /\ \/ /\ meta' = [meta EXCEPT ![listed[k]] = "saved"]
          /\ savedStatus' = [savedStatus EXCEPT ![listed[k]] =
                              IF @ = "none" THEN status ELSE @]
          /\ Again("inspect")
       \/ Fails("save") /\ FailPreMigrate /\ UNCHANGED saved
    /\ UNCHANGED <<dockerVars, store, snapshot, snapUpper, homeDir, netdb, volumes,
                   sandboxes, pouchVars, down, memory, registered, runs>>

WriteMeta ==
    /\ pc = "write"
    /\ \/ /\ meta' = [meta EXCEPT ![listed[k]] = "saved"]
          /\ savedStatus' = [savedStatus EXCEPT ![listed[k]] = status]
          /\ Again("inspect")
       \/ Fails("save") /\ FailPreMigrate /\ UNCHANGED saved
    /\ UNCHANGED <<dockerVars, store, snapshot, snapUpper, homeDir, netdb, volumes,
                   sandboxes, pouchVars, down, memory, registered, runs>>

\* Mutant: an error makes PreMigrate return nil, as in coldMigrator.
PrepareVolumes_Swallowed ==
    /\ pc = "volumes"
    /\ \/ volumes' = TRUE /\ Goto("sandboxes")
       \/ Fails("volumes") /\ EndPreMigrate /\ UNCHANGED volumes
    /\ UNCHANGED <<dockerVars, store, snapshot, snapUpper, saved, homeDir, netdb,
                   sandboxes, pouchVars, down, memory, registered, runs>>

PrepareVolumes ==
    /\ pc = "volumes"
    /\ \/ volumes' = TRUE /\ Goto("sandboxes")
       \/ Fails("volumes") /\ FailPreMigrate /\ UNCHANGED volumes
    /\ UNCHANGED <<dockerVars, store, snapshot, snapUpper, saved, homeDir, netdb,
                   sandboxes, pouchVars, down, memory, registered, runs>>

GenerateSandboxMetaJSON ==
    /\ pc = "sandboxes"
    /\ \/ sandboxes' = TRUE /\ EndPreMigrate
       \/ Fails("sandboxes") /\ FailPreMigrate /\ UNCHANGED sandboxes
    /\ UNCHANGED <<dockerVars, store, snapshot, snapUpper, saved, homeDir, netdb,
                   volumes, pouchVars, down, memory, registered, runs>>

-----------------------------------------------------------------------------
(* Migrate; RevertMigration has nothing to do. *)

MigrateNetworkFile ==
    /\ pc = "network"
    /\ \/ netdb' = TRUE /\ Goto("kill")
       \/ Fails("network") /\ netdb' \in {netdb, FALSE} /\ Leave("reverted")
    /\ UNCHANGED <<dockerVars, store, snapshot, snapUpper, saved, homeDir, volumes,
                   sandboxes, pouchVars, down, memory, registered, runs>>

KillContainerd ==
    /\ pc = "kill"
    /\ pc' = "relist"
    /\ ctrd' = "stopped"
    /\ UNCHANGED <<dockerVars, pouchData, pouchVars, down, k, memory, registered,
                   savedStatus, outcome, runs>>

-----------------------------------------------------------------------------
(* PostMigrate. *)

ListAgain ==
    /\ pc = "relist"
    /\ \/ /\ Fails("list")
          /\ Leave("postFailed")
          /\ UNCHANGED <<allContainers, deletedContainers>>
       \/ /\ allContainers' = [c \in Containers |->
                 IF allContainers[c] # "none" /\ Alive(c) THEN "true" ELSE allContainers[c]]
          /\ deletedContainers' \in
                 ListingsOf({c \in Containers : allContainers'[c] = "false"})
          /\ Goto("uninstall")
    /\ UNCHANGED <<dockerVars, pouchData, pouchVars, down, migrateAll, listed, status,
                   registered, savedStatus, runs>>

\* Whether the stop of dockerd ends the containers is up to its configuration,
\* which nothing has checked.
StopDockerService ==
    /\ pc = "uninstall"
    /\ LET ended == {c \in Containers :
                       cstate[c] \in {"running", "paused"} /\ ~LiveRestore} IN
       \/ /\ dockerd' = "stopped"
          /\ cstate' = [c \in Containers |-> IF c \in ended THEN "exited" ELSE cstate[c]]
          /\ down' = down \union ended
          /\ Goto("erase") \/ (Fails("systemctl") /\ Leave("postFailed"))
       \/ /\ Fails("systemctl")
          /\ Leave("postFailed")
          /\ UNCHANGED <<dockerd, cstate, down>>
    /\ UNCHANGED <<upper, legacy, acts, pouchData, pouchVars, memory, registered,
                   savedStatus, runs>>

EraseDockerPackage ==
    /\ pc = "erase"
    /\ \/ dockerd' = "removed" /\ Goto("install")
       \/ Fails("rpm") /\ Leave("postFailed") /\ UNCHANGED dockerd
    /\ UNCHANGED <<cstate, upper, legacy, acts, pouchData, pouchVars, down, memory,
                   registered, savedStatus, runs>>

\* pouchd takes over what its metadata calls running, its containerd knows and
\* is there.
TakeOver ==
    [c \in Containers |->
        IF ~homeDir \/ meta[c] # "saved" THEN "none"
        ELSE IF /\ savedStatus[c] = "running"
                /\ c \in registered
                /\ cstate[c] = "running"
             THEN "running" ELSE "stopped"]

InstallPouchService ==
    /\ pc = "install"
    /\ \/ /\ pouchd' = "up"
          /\ pstate' = TakeOver
          /\ Enter("prune") \/ (Fails("pouch") /\ Leave("postFailed"))
       \/ Fails("rpm") /\ Leave("postFailed") /\ UNCHANGED pouchVars
    /\ UNCHANGED <<dockerVars, pouchData, down, memory, registered, savedStatus, runs>>

RemoveDeleted ==
    /\ pc = "prune"
    /\ k <= Len(deletedContainers)
    /\ LET c == deletedContainers[k] IN
       \/ /\ pstate[c] = "none"
          /\ Again("prune")
          /\ UNCHANGED <<pstate, saved, registered>>
       \/ /\ pstate[c] # "none"
          /\ pstate' = [pstate EXCEPT ![c] = "none"]
          /\ meta' = [meta EXCEPT ![c] = "none"]
          /\ savedStatus' = [savedStatus EXCEPT ![c] = "none"]
          /\ registered' = registered \ {c}
          /\ Again("prune")
       \/ /\ Fails("pouch")
          /\ Leave("postFailed")
          /\ UNCHANGED <<pstate, saved, registered>>
    /\ UNCHANGED <<dockerVars, store, snapshot, snapUpper, homeDir, netdb, volumes,
                   sandboxes, pouchd, down, memory, runs>>

\* Mutant: the last deleted container is not removed.
EndOfPrune_SkipsLast ==
    /\ pc = "prune"
    /\ k >= Len(deletedContainers)
    /\ Leave("done")
    /\ UNCHANGED <<dockerVars, pouchData, pouchVars, down, memory, registered,
                   savedStatus, runs>>

EndOfPrune ==
    /\ pc = "prune"
    /\ k > Len(deletedContainers)
    /\ Leave("done")
    /\ UNCHANGED <<dockerVars, pouchData, pouchVars, down, memory, registered,
                   savedStatus, runs>>

-----------------------------------------------------------------------------
Crash ==
    /\ pc # "off"
    /\ Fails("process")
    /\ Leave(IF pc \in PreMigratePcs THEN "unprepared" ELSE "interrupted")
    /\ UNCHANGED <<dockerVars, pouchData, pouchVars, down, memory, registered,
                   savedStatus, runs>>

HostStep ==
    /\ \E c \in Containers :
          \/ Exit(c) \/ Remove(c)
          \/ (~Locked \/ pc = "off") /\ (Start(c) \/ Pause(c))
    /\ UNCHANGED <<pc, k, memory, registered, savedStatus, outcome, runs>>

PreMigrate ==
    \/ InitPouchEnv \/ ListContainers \/ InspectContainer \/ EndOfContainers
    \/ DeleteOldEntry \/ NewContainer \/ TruncateMeta \/ WriteMeta
    \/ PrepareVolumes \/ GenerateSandboxMetaJSON

Migrate == MigrateNetworkFile \/ KillContainerd

PostMigrate ==
    \/ ListAgain \/ StopDockerService \/ EraseDockerPackage \/ InstallPouchService
    \/ RemoveDeleted \/ EndOfPrune

RunCmd == PreMigrate \/ Migrate \/ PostMigrate

Next == StartRun \/ RunCmd \/ Crash \/ HostStep

Spec == Init /\ [][Next]_vars

\* A process that has been started goes on by itself.
FairSpec == Spec /\ WF_vars(RunCmd)
-----------------------------------------------------------------------------
(* What the runs leave behind. *)

\* pouchd could manage c as docker did when it was inspected.
Prepared(c) == meta[c] = "saved" /\ (savedStatus[c] = "running" => c \in registered)

(***************************************************************************)
(* Once docker is stopped nothing brings it back, so by then every         *)
(* container that still exists has its metadata, and its entry in          *)
(* containerd if it has to be taken over, and the network database, the    *)
(* volumes and the sandboxes are there - in whatever order earlier runs    *)
(* have failed or been killed, and whatever users did.                     *)
(***************************************************************************)
HandoverComplete ==
    dockerd # "up" =>
        /\ netdb /\ homeDir
        /\ \A c \in Containers : Alive(c) => Prepared(c)
        /\ (\E c \in Containers : allContainers[c] # "none") => volumes /\ sandboxes

(***************************************************************************)
(* --live-migrate will "auto takeover the docker running containers": no   *)
(* container that runs is unknown to pouchd, or stopped in its eyes.       *)
(***************************************************************************)
NoOrphans ==
    pouchd = "up" => \A c \in Containers :
        cstate[c] = "running" => pstate[c] = "running"

(***************************************************************************)
(* A container missing from the second listing leaves neither metadata nor *)
(* an entry in containerd for pouch to find.                               *)
(***************************************************************************)
DeletedArePruned ==
    outcome = "done" =>
        \A c \in Containers :
            allContainers[c] = "false" => pstate[c] = "none" /\ c \notin registered

(***************************************************************************)
(* If nothing fails, every container running when a run with --migrate-all *)
(* starts is in the end taken over, unless it has ended by itself.         *)
(***************************************************************************)
TakenOver ==
    \A c \in Containers :
        (pc = "env" /\ migrateAll /\ cstate[c] = "running")
            ~> (outcome = "done" /\ (cstate[c] = "running" => pstate[c] = "running"))

(***************************************************************************)
(* --live-migrate "will not affect the whole containers at all" (main.go): *)
(* the tool never ends a container.                                        *)
(***************************************************************************)
NotAffected == down = {}
=============================================================================
