------------------------- MODULE ColdService_proofs -------------------------
(***************************************************************************)
(* Proofs about ColdMigrator that go beyond files and metadata: when       *)
(* containers are stopped and started, which engine and which containerd   *)
(* is there, and that the cold migration implements the hand-over.  They   *)
(* rest on IInv, and on what is known besides at each point of a run.      *)
(***************************************************************************)
EXTENDS ColdMigrator_proofs, ColdHandover

Running(c) == cstate[c] = "running"

\* Remembered in cm.runningContainers.
Noted(c) == \E j \in 1..Len(runningContainers) : runningContainers[j] = c

\* No user ever pauses a container.
NeverPaused == "paused" \notin HostStates /\ "pause" \notin HostActs

\* Which engine and which containerd may be there.
EngineInv ==
    /\ pc # "off" => outcome = "none"
    /\ pc \in {"erase", "install", "prune", "launch"} => dockerd # "up"
    /\ pouchd = "up" => dockerd # "up"
    /\ \A c \in Containers : pstate[c] # "none" => pouchd = "up"
    /\ pc \in PostMigratePcs \union {"off"} => ctrd = "stopped"

\* What the second listing misses is removed from pouch, and not started.
PruneInv ==
    /\ pc \in PostMigratePcs \ {"relist"} =>
          \A c \in Containers : allContainers[c] = "false" =>
              \E j \in 1..Len(deletedContainers) : deletedContainers[j] = c
    /\ pc \in {"prune", "launch"} =>
          \A j \in 1..Len(deletedContainers) :
              pc = "launch" \/ j < k => pstate[deletedContainers[j]] = "none"
    /\ DeletedArePruned

\* If users start nothing meanwhile, every running container is remembered,
\* and stopped before any file moves.
StopInv ==
    /\ pc \in {"inspect"} \union PreMigrateLoop =>
          /\ \A c \in Containers : Running(c) => c \in listedRunning
          /\ \A j \in 1..Len(listed) :
                /\ j < k \/ (j = k /\ pc # "inspect")
                /\ listed[j] \in listedRunning
                => Noted(listed[j])
    /\ pc \in {"volumes", "sandboxes", "network", "stop"} =>
          \A c \in Containers : Running(c) => Noted(c)
    /\ pc = "stop" =>
          \A j \in 1..Len(runningContainers) : j < k => ~Running(runningContainers[j])
    /\ pc \in {"move", "kill"} \union PostMigratePcs \/ dockerd # "up" =>
          \A c \in Containers : ~Running(c)

\* What the run has stopped it will start again, here or there.
DownInv ==
    /\ \A c \in Containers : cstate[c] # "paused"
    /\ \A c \in down : Alive(c)
    /\ \/ pc \in PreMigratePcs \union {"network"}
       \/ pc = "off" /\ outcome \in SafeOutcomes \union {"done"}
       => down = {}
    /\ pc \in {"stop", "move", "kill", "back"} \union PostMigratePcs => \A c \in down : Noted(c)
    /\ pc \in {"restart", "launch"} =>
          \A c \in down : \E j \in 1..Len(runningContainers) :
              j >= k /\ runningContainers[j] = c

ServiceInv ==
    /\ IInv
    /\ EngineInv
    /\ PruneInv
    /\ Locked => StopInv
    /\ Locked /\ NeverPaused => DownInv

USE DEF Goto, Enter, Again, Leave, FailPreMigrate, FailMigrate, EndPreMigrate,
        dockerVars, pouchData, pouchVars, memory, Alive

(***************************************************************************)
(* Every act on the host brings no container back, starts none while the   *)
(* tool has the users locked out, and leaves none down that is gone.       *)
(***************************************************************************)
LEMMA HostFacts ==
    ASSUME TypeOK, HostStep
    PROVE  /\ \A c \in Containers : Alive(c)' => Alive(c)
           /\ Locked /\ (pc # "off" \/ dockerd # "up") =>
                 \A c \in Containers : Running(c)' => Running(c)
           /\ NeverPaused =>
                 \A c \in Containers : cstate'[c] = "paused" => cstate[c] = "paused"
           /\ down' \subseteq down
           /\ (\A c \in down : Alive(c)) => \A c \in down' : Alive(c)'
           /\ UNCHANGED <<dockerd, legacy, ctrd, pouchData, pouchVars, pc, k, memory, outcome,
                          runs>>
<1> USE DEF TypeOK, HostTypeOK
<1>1. PICK x \in Containers :
          \/ Exit(x) \/ Remove(x)
          \/ (~Locked \/ pc = "off") /\ (Start(x) \/ Pause(x))
  BY DEF HostStep
<1>2. UNCHANGED <<dockerd, legacy, ctrd, pouchData, pouchVars, pc, k, memory, outcome, runs>>
  BY <1>1 DEF HostStep, Exit, Start, Pause, Remove, HostAct
<1>3. \A c \in Containers : Alive(c)' => Alive(c)
  BY <1>1 DEF Exit, Start, Pause, Remove
<1>4. ASSUME Locked, pc # "off" \/ dockerd # "up"
      PROVE  \A c \in Containers : Running(c)' => Running(c)
  BY <1>1, <1>4 DEF Exit, Start, Pause, Remove, Running
<1>5. ASSUME NeverPaused
      PROVE  \A c \in Containers : cstate'[c] = "paused" => cstate[c] = "paused"
  BY <1>1, <1>5 DEF Exit, Start, Pause, Remove, HostAct, NeverPaused
<1>6. down' \subseteq down
  BY <1>1 DEF Exit, Start, Pause, Remove
<1>7. ASSUME \A c \in down : Alive(c)
      PROVE  \A c \in down' : Alive(c)'
  BY <1>1, <1>7 DEF Exit, Start, Pause, Remove
<1>8. QED BY <1>2, <1>3, <1>4, <1>5, <1>6, <1>7

-----------------------------------------------------------------------------
(* The parts of the invariant. *)

(***************************************************************************)
(* pouchd comes up after docker and the migrator's containerd are gone.    *)
(***************************************************************************)
LEMMA EngineStep ==
    ASSUME ServiceInv, [Next]_vars
    PROVE  EngineInv'
<1> USE DEF ServiceInv, IInv, TypeOK, HostTypeOK, PostInvariant, EngineInv, PreMigratePcs,
            PreMigrateLoop, PostMigratePcs
<1>1. CASE UNCHANGED vars
  BY <1>1 DEF vars
<1>2. CASE StartRun
  BY <1>2 DEF StartRun
<1>3. CASE PreMigrate
  <2>1. /\ UNCHANGED <<dockerd, pouchd, pstate>> /\ dockerd = "up"
        /\ pc' \notin PostMigratePcs /\ (pc' # "off" => outcome' = "none")
        /\ pc' = "off" => ctrd' = "stopped"
    BY <1>3
    DEF PreMigrate, InitPouchEnv, ListContainers, InspectContainer, EndOfContainers, PullImage,
        RemoveStaleSnapshot, CreateSnapshot, SetDirDiskQuota, TruncateMeta, WriteMeta,
        PrepareVolumes, GenerateSandboxMetaJSON
  <2>2. QED BY <2>1
<1>4. CASE Migrate \/ RevertMigration
  <2>1. /\ UNCHANGED <<dockerd, pouchd, pstate>> /\ dockerd = "up"
        /\ pc' \notin PostMigratePcs \ {"relist"} /\ (pc' # "off" => outcome' = "none")
        /\ pc' \in {"off", "relist"} => ctrd' = "stopped"
    <3>1. CASE Migrate
      BY <3>1
      DEF Migrate, MigrateNetworkFile, StopContainer, EndOfStops, MoveUpperDir, EndOfMoves,
          KillContainerd
    <3>2. CASE RevertMigration
      BY <3>2 DEF RevertMigration, MoveBack, EndOfMovesBack, RestartContainer, EndOfRevert
    <3>3. QED BY <1>4, <3>1, <3>2
  <2>2. QED BY <2>1
<1>5. CASE ListAgain \/ StopDockerService \/ EraseDockerPackage
  <2>1. UNCHANGED <<pouchd, pstate>> /\ (dockerd # "up" => dockerd' # "up")
    BY <1>5 DEF ListAgain, StopDockerService, EraseDockerPackage
  <2>2. /\ pc' \in {"uninstall", "erase", "install", "off"} /\ ctrd' = "stopped"
        /\ pc' \in {"erase", "install"} => dockerd' # "up"
        /\ pc' # "off" => outcome' = "none"
    BY <1>5 DEF ListAgain, StopDockerService, EraseDockerPackage
  <2>3. QED BY <2>1, <2>2
<1>6. CASE InstallPouchService
  BY <1>6 DEF InstallPouchService
<1>7. CASE RemoveDeleted
  <2>1. \A c \in Containers : pstate'[c] # "none" => pstate[c] # "none"
    BY <1>7 DEF RemoveDeleted
  <2>2. QED BY <1>7, <2>1 DEF RemoveDeleted
<1>8. CASE EndOfPrune
  BY <1>8 DEF EndOfPrune
<1>9. CASE LaunchContainer
  <2>1. \A c \in Containers : pstate'[c] # "none" => pstate[c] # "none"
    BY <1>9 DEF LaunchContainer
  <2>2. QED BY <1>9, <2>1 DEF LaunchContainer
<1>10. CASE EndOfLaunch \/ Crash
  BY <1>10 DEF EndOfLaunch, Crash
<1>11. CASE HostStep
  BY <1>11, HostFacts
<1>12. QED
  BY <1>1, <1>2, <1>3, <1>4, <1>5, <1>6, <1>7, <1>8, <1>9, <1>10, <1>11
  DEF Next, RunCmd, PostMigrate

(***************************************************************************)
(* The second listing gives every container that it misses an index.       *)
(***************************************************************************)
LEMMA SecondListing ==
    ASSUME ListAgain, pc' # "off"
    PROVE  \A c \in Containers : allContainers'[c] = "false" =>
               \E j \in 1..Len(deletedContainers') : deletedContainers'[j] = c
<1> DEFINE missing == {c \in Containers : allContainers'[c] = "false"}
<1>1. missing \subseteq Containers /\ deletedContainers' \in ListingsOf(missing)
  BY DEF ListAgain
<1> HIDE DEF missing
<1>2. \A c \in missing : \E j \in 1..Len(deletedContainers') : deletedContainers'[j] = c
  BY <1>1, ListingFacts
<1>3. QED BY <1>2 DEF missing

(***************************************************************************)
(* The containers that the second listing misses are removed from pouch    *)
(* one by one, and the launches that follow bring none back.               *)
(***************************************************************************)
LEMMA PruneStep ==
    ASSUME ServiceInv, [Next]_vars
    PROVE  PruneInv'
<1> USE DEF ServiceInv, IInv, TypeOK, HostTypeOK, EngineInv, PruneInv, PostMigratePcs,
            DeletedArePruned
<1>1. CASE UNCHANGED vars
  BY <1>1 DEF vars
<1>2. CASE StartRun \/ PreMigrate \/ Migrate \/ RevertMigration \/ Crash
  <2>1. pc' \notin PostMigratePcs \ {"relist"} /\ outcome' # "done"
    <3>1. CASE StartRun \/ PreMigrate
      BY <3>1
      DEF StartRun, PreMigrate, InitPouchEnv, ListContainers, InspectContainer, EndOfContainers,
          PullImage, RemoveStaleSnapshot, CreateSnapshot, SetDirDiskQuota, TruncateMeta,
          WriteMeta, PrepareVolumes, GenerateSandboxMetaJSON
    <3>2. CASE Migrate
      BY <3>2
      DEF Migrate, MigrateNetworkFile, StopContainer, EndOfStops, MoveUpperDir, EndOfMoves,
          KillContainerd
    <3>3. CASE RevertMigration \/ Crash
      BY <3>3 DEF RevertMigration, MoveBack, EndOfMovesBack, RestartContainer, EndOfRevert, Crash
    <3>4. QED BY <1>2, <3>1, <3>2, <3>3
  <2>2. QED BY <2>1
<1>3. CASE ListAgain
  <2>1. CASE pc' = "off"
    BY <1>3, <2>1 DEF ListAgain
  <2>2. CASE pc' # "off"
    <3>1. pc' = "uninstall" /\ outcome' = "none"
      BY <1>3, <2>2 DEF ListAgain
    <3>2. QED BY <1>3, <2>2, <3>1, SecondListing
  <2>3. QED BY <2>1, <2>2
<1>4. CASE StopDockerService \/ EraseDockerPackage
  BY <1>4 DEF StopDockerService, EraseDockerPackage
<1>5. CASE InstallPouchService
  BY <1>5 DEF InstallPouchService
<1>6. CASE RemoveDeleted
  <2>1. CASE pc' = "off"
    BY <1>6, <2>1 DEF RemoveDeleted
  <2>2. CASE pc' # "off"
    <3>1. k \in 1..Len(deletedContainers) /\ deletedContainers[k] \in Containers
      BY <1>6 DEF RemoveDeleted
    <3>2. /\ pc' = "prune" /\ k' = k + 1 /\ outcome' = "none"
          /\ pstate'[deletedContainers[k]] = "none"
          /\ \A c \in Containers : pstate[c] = "none" => pstate'[c] = "none"
          /\ UNCHANGED <<allContainers, deletedContainers>>
      BY <1>6, <2>2, <3>1 DEF RemoveDeleted
    <3>3. \A j \in 1..Len(deletedContainers) :
              j < k + 1 => pstate'[deletedContainers[j]] = "none"
      BY <1>6, <3>1, <3>2 DEF RemoveDeleted
    <3>4. QED BY <1>6, <3>2, <3>3 DEF RemoveDeleted
  <2>3. QED BY <2>1, <2>2
<1>7. CASE EndOfPrune
  BY <1>7 DEF EndOfPrune
<1>8. CASE LaunchContainer
  <2>1. UNCHANGED <<allContainers, deletedContainers>> /\ pc' \in {"launch", "off"}
    BY <1>8 DEF LaunchContainer
  <2>2. outcome' # "done"
    BY <1>8 DEF LaunchContainer
  <2>3. \A j \in 1..Len(deletedContainers) :
            pstate'[deletedContainers[j]] = pstate[deletedContainers[j]]
    <3>1. \A j \in 1..Len(deletedContainers) : deletedContainers[j] \in Range(deletedContainers)
      BY DEF Range
    <3>2. QED BY <1>8, <3>1 DEF LaunchContainer
  <2>4. QED BY <1>8, <2>1, <2>2, <2>3 DEF LaunchContainer
<1>9. CASE EndOfLaunch
  BY <1>9 DEF EndOfLaunch
<1>10. CASE HostStep
  BY <1>10, HostFacts
<1>11. QED
  BY <1>1, <1>2, <1>3, <1>4, <1>5, <1>6, <1>7, <1>8, <1>9, <1>10
  DEF Next, RunCmd, PostMigrate

(***************************************************************************)
(* No running container escapes the stops, if users start none meanwhile.  *)
(***************************************************************************)
LEMMA StopStep ==
    ASSUME ServiceInv, [Next]_vars, Locked
    PROVE  StopInv'
<1> USE DEF TypeOK, HostTypeOK, PreMigrateLoop, PostMigratePcs
<1>a. TypeOK /\ LoopInvariant /\ PostInvariant /\ StopInv
  BY DEF ServiceInv, IInv
<1>b. ASSUME pc' \notin {"inspect", "volumes", "sandboxes", "network", "stop", "move", "kill"}
                        \union PreMigrateLoop \union PostMigratePcs,
             dockerd' = "up"
      PROVE  StopInv'
  BY <1>b DEF StopInv
<1>1. CASE UNCHANGED vars
  BY <1>a, <1>1 DEF vars, StopInv, Running, Noted
<1>2. CASE StartRun \/ InitPouchEnv
  <2>1. pc' \in {"env", "list", "off"} /\ dockerd' = "up"
    BY <1>a, <1>2 DEF StartRun, InitPouchEnv, PostInvariant
  <2>2. QED BY <1>b, <2>1
<1>3. CASE ListContainers
  <2>1. dockerd' = "up" /\ UNCHANGED cstate /\ pc' \in {"inspect", "network", "off"}
    BY <1>a, <1>3 DEF ListContainers, PostInvariant
  <2>2. CASE pc' = "inspect"
    <3>1. k' = 1 /\ \A c \in Containers : Running(c)' => c \in listedRunning'
      BY <1>3, <2>1, <2>2 DEF ListContainers, Present, Running
    <3>2. listed' \in Seq(Containers)
      BY <1>3, <2>2, ListingFacts DEF ListContainers, Present
    <3>3. QED BY <2>1, <2>2, <3>1, <3>2 DEF StopInv
  <2>3. CASE pc' = "network"
    <3>1. \A c \in Containers : ~Running(c)'
      BY <1>3, <2>1, <2>3 DEF ListContainers, Present, Running
    <3>2. QED BY <2>1, <2>3, <3>1 DEF StopInv
  <2>4. QED BY <1>b, <2>1, <2>2, <2>3
<1>4. CASE InspectContainer
  <2>1. dockerd' = "up" /\ UNCHANGED <<cstate, listed, listedRunning>> /\ pc' \in {"pull", "off"}
    BY <1>a, <1>4 DEF InspectContainer, PostInvariant
  <2>2. CASE pc' = "pull"
    <3>1. k' = k /\ k \in 1..Len(listed) /\ listed[k] \in Containers
      BY <1>a, <1>4, <2>2 DEF InspectContainer
    <3>2. runningContainers' = IF listed[k] \in listedRunning
                               THEN Append(runningContainers, listed[k])
                               ELSE runningContainers
      BY <1>4 DEF InspectContainer
    <3>3. \A c \in Containers : Noted(c) => Noted(c)'
      BY <1>a, <3>1, <3>2 DEF Noted
    <3>4. listed[k] \in listedRunning =>
              \E j \in 1..Len(runningContainers') : runningContainers'[j] = listed[k]
      <4>1. SUFFICES ASSUME listed[k] \in listedRunning
                     PROVE  \E j \in 1..Len(runningContainers') :
                                runningContainers'[j] = listed[k]
        OBVIOUS
      <4>2. /\ Len(runningContainers') = Len(runningContainers) + 1
            /\ runningContainers'[Len(runningContainers) + 1] = listed[k]
        BY <1>a, <3>1, <3>2, <4>1
      <4>3. Len(runningContainers) + 1 \in 1..Len(runningContainers')
        BY <1>a, <4>2
      <4>4. QED BY <4>2, <4>3
    <3>5. \A j \in 1..Len(listed) :
              (j < k \/ j = k) /\ listed[j] \in listedRunning => Noted(listed[j])'
      BY <1>a, <1>4, <2>1, <3>1, <3>3, <3>4 DEF StopInv, InspectContainer, Noted
    <3>6. \A c \in Containers : Running(c)' => c \in listedRunning'
      BY <1>a, <1>4, <2>1 DEF StopInv, InspectContainer, Running
    <3>7. QED BY <2>1, <2>2, <3>1, <3>5, <3>6 DEF StopInv
  <2>3. QED BY <1>b, <2>1, <2>2
<1>5. CASE EndOfContainers
  <2>1. \A c \in Containers : Running(c) => Noted(c)
    <3>1. SUFFICES ASSUME NEW c \in Containers, Running(c) PROVE Noted(c)
      OBVIOUS
    <3>2. PICK j \in 1..Len(listed) : listed[j] = c
      BY <1>a, <1>5, <3>1 DEF EndOfContainers, LoopInvariant, Running
    <3>3. j < k /\ listed[j] \in listedRunning
      BY <1>a, <1>5, <3>1, <3>2 DEF EndOfContainers, StopInv
    <3>4. QED BY <1>a, <1>5, <3>2, <3>3 DEF EndOfContainers, StopInv
  <2>2. pc' = "volumes" /\ dockerd' = "up" /\ UNCHANGED <<cstate, runningContainers>>
    BY <1>a, <1>5 DEF EndOfContainers, PostInvariant
  <2>3. QED BY <2>1, <2>2 DEF StopInv, Running, Noted
<1>6. CASE \/ PullImage \/ RemoveStaleSnapshot \/ CreateSnapshot \/ SetDirDiskQuota
           \/ TruncateMeta \/ WriteMeta
  <2>1. /\ dockerd' = "up"
        /\ UNCHANGED <<cstate, listed, listedRunning, runningContainers>>
        /\ pc \in PreMigrateLoop
    BY <1>a, <1>6
    DEF PullImage, RemoveStaleSnapshot, CreateSnapshot, SetDirDiskQuota, TruncateMeta,
        WriteMeta, PostInvariant
  <2>2. \/ pc' = "off"
        \/ pc' \in PreMigrateLoop /\ k' = k
        \/ pc' = "inspect" /\ k' = k + 1
    BY <1>6
    DEF PullImage, RemoveStaleSnapshot, CreateSnapshot, SetDirDiskQuota, TruncateMeta, WriteMeta
  <2>3. /\ \A c \in Containers : Running(c) => c \in listedRunning
        /\ \A j \in 1..Len(listed) :
              (j < k \/ j = k) /\ listed[j] \in listedRunning => Noted(listed[j])
    BY <1>a, <2>1 DEF StopInv
  <2>4. CASE pc' \in PreMigrateLoop /\ k' = k
    BY <2>1, <2>3, <2>4 DEF StopInv, Running, Noted
  <2>5. CASE pc' = "inspect" /\ k' = k + 1
    <3>1. \A j \in 1..Len(listed) : j < k + 1 => j < k \/ j = k
      BY <1>a
    <3>2. QED BY <2>1, <2>3, <2>5, <3>1 DEF StopInv, Running, Noted
  <2>6. QED BY <1>b, <2>1, <2>2, <2>4, <2>5
<1>7. CASE PrepareVolumes \/ GenerateSandboxMetaJSON
  <2>1. /\ dockerd' = "up" /\ pc' \in {"sandboxes", "network", "off"}
        /\ UNCHANGED <<cstate, runningContainers>>
    BY <1>a, <1>7 DEF PrepareVolumes, GenerateSandboxMetaJSON, PostInvariant
  <2>2. \A c \in Containers : Running(c) => Noted(c)
    BY <1>a, <1>7 DEF PrepareVolumes, GenerateSandboxMetaJSON, StopInv
  <2>3. QED BY <2>1, <2>2 DEF StopInv, Running, Noted
<1>8. CASE MigrateNetworkFile
  <2>1. /\ dockerd' = "up" /\ pc' \in {"stop", "back"} /\ k' = 1
        /\ UNCHANGED <<cstate, runningContainers>>
    BY <1>a, <1>8 DEF MigrateNetworkFile, PostInvariant
  <2>2. \A c \in Containers : Running(c) => Noted(c)
    BY <1>a, <1>8 DEF MigrateNetworkFile, StopInv
  <2>3. QED BY <1>a, <2>1, <2>2 DEF StopInv, Running, Noted
<1>9. CASE StopContainer
  <2> DEFINE x == runningContainers[k]
  <2>1. /\ dockerd' = "up" /\ UNCHANGED runningContainers
        /\ x \in Containers /\ pc' \in {"stop", "back"}
    BY <1>a, <1>9 DEF StopContainer, PostInvariant
  <2>2. CASE pc' = "stop"
    <3>1. /\ k' = k + 1 /\ cstate'[x] # "running"
          /\ \A c \in Containers : Running(c)' => Running(c)
      BY <1>a, <1>9, <2>1, <2>2 DEF StopContainer, Running
    <3>2. \A j \in 1..Len(runningContainers) :
              j < k + 1 => cstate'[runningContainers[j]] # "running"
      <4>1. SUFFICES ASSUME NEW j \in 1..Len(runningContainers), j < k + 1
                     PROVE  cstate'[runningContainers[j]] # "running"
        OBVIOUS
      <4>2. CASE j = k
        BY <3>1, <4>2
      <4>3. CASE j < k
        BY <1>a, <1>9, <3>1, <4>3 DEF StopContainer, StopInv, Running
      <4>4. QED BY <1>a, <4>1, <4>2, <4>3
    <3>3. \A c \in Containers : Running(c)' => Noted(c)
      BY <1>a, <1>9, <3>1 DEF StopContainer, StopInv
    <3>4. QED BY <2>1, <2>2, <3>1, <3>2, <3>3 DEF StopInv, Noted, Running
  <2>3. QED BY <1>b, <2>1, <2>2
<1>10. CASE EndOfStops
  <2>1. \A c \in Containers : ~Running(c)
    BY <1>a, <1>10 DEF EndOfStops, StopInv, Noted
  <2>2. pc' = "move" /\ UNCHANGED <<cstate, dockerd>>
    BY <1>10 DEF EndOfStops
  <2>3. QED BY <2>1, <2>2 DEF StopInv, Running
<1>11. CASE MoveUpperDir \/ EndOfMoves \/ KillContainerd
  <2>1. pc' \in {"move", "kill", "relist", "back"} /\ UNCHANGED cstate
    BY <1>11 DEF MoveUpperDir, EndOfMoves, KillContainerd
  <2>2. \A c \in Containers : ~Running(c)
    BY <1>a, <1>11 DEF MoveUpperDir, EndOfMoves, KillContainerd, StopInv
  <2>3. QED BY <2>1, <2>2 DEF StopInv, Running
<1>12. CASE RevertMigration
  <2>1. dockerd' = "up" /\ pc' \in {"back", "restart", "off"}
    BY <1>a, <1>12
    DEF RevertMigration, MoveBack, EndOfMovesBack, RestartContainer, EndOfRevert, PostInvariant
  <2>2. QED BY <1>b, <2>1
<1>13. CASE PostMigrate
  <2>1. pc' \in PostMigratePcs \union {"off"}
    BY <1>13
    DEF PostMigrate, ListAgain, StopDockerService, EraseDockerPackage, InstallPouchService,
        RemoveDeleted, EndOfPrune, LaunchContainer, EndOfLaunch
  <2>2. \A c \in Containers : ~Running(c)
    BY <1>a, <1>13
    DEF PostMigrate, ListAgain, StopDockerService, EraseDockerPackage, InstallPouchService,
        RemoveDeleted, EndOfPrune, LaunchContainer, EndOfLaunch, StopInv
  <2>3. \A c \in Containers : ~Running(c)'
    <3>1. CASE StopDockerService
      BY <2>2, <3>1 DEF StopDockerService, Running
    <3>2. CASE ~StopDockerService
      <4>1. UNCHANGED cstate
        BY <1>13, <3>2
        DEF PostMigrate, ListAgain, EraseDockerPackage, InstallPouchService, RemoveDeleted,
            EndOfPrune, LaunchContainer, EndOfLaunch
      <4>2. QED BY <2>2, <4>1 DEF Running
    <3>3. QED BY <3>1, <3>2
  <2>4. QED BY <2>1, <2>3 DEF StopInv
<1>14. CASE Crash
  BY <1>a, <1>14 DEF Crash, StopInv, Running
<1>15. CASE HostStep
  <2>1. /\ UNCHANGED <<dockerd, pc, k, memory>>
        /\ pc # "off" \/ dockerd # "up" => \A c \in Containers : Running(c)' => Running(c)
    BY <1>a, <1>15, HostFacts
  <2>2. \A j \in 1..Len(runningContainers) : runningContainers[j] \in Containers
    BY <1>a
  <2>3. \A c : Noted(c)' <=> Noted(c)
    BY <2>1 DEF Noted
  <2>4. CASE pc = "off" /\ dockerd = "up"
    BY <1>b, <2>1, <2>4
  <2>5. CASE pc # "off" \/ dockerd # "up"
    BY <1>a, <2>1, <2>2, <2>3, <2>5 DEF StopInv
  <2>6. QED BY <1>a, <2>4, <2>5
<1>16. QED
  BY <1>1, <1>2, <1>3, <1>4, <1>5, <1>6, <1>7, <1>8, <1>9, <1>10, <1>11, <1>12, <1>13,
     <1>14, <1>15
  DEF Next, RunCmd, PreMigrate, Migrate

(***************************************************************************)
(* What a run has stopped is in its list of running containers until it    *)
(* is started again; without paused containers nothing else is stopped.    *)
(***************************************************************************)
LEMMA DownStep ==
    ASSUME RerunAfter \subseteq SafeOutcomes, ServiceInv, [Next]_vars, Locked, NeverPaused
    PROVE  DownInv'
<1> USE DEF TypeOK, HostTypeOK, PreMigratePcs, PreMigrateLoop, PostMigratePcs, SafeOutcomes
<1>a. TypeOK /\ PostInvariant /\ EngineInv /\ StopInv /\ DownInv
  BY DEF ServiceInv, IInv
<1>b. ASSUME UNCHANGED <<cstate, down, runningContainers>>,
             \/ pc' \in PreMigratePcs \union {"network", "off"} /\ down = {}
             \/ pc' = "off" /\ outcome' \notin SafeOutcomes \union {"done"}
      PROVE  DownInv'
  BY <1>a, <1>b DEF DownInv
<1>1. CASE UNCHANGED vars
  BY <1>a, <1>1 DEF vars, DownInv, Noted
<1>2. CASE StartRun
  <2>1. down = {}
    BY <1>a, <1>2 DEF StartRun, DownInv
  <2>2. UNCHANGED <<cstate, down>> /\ pc' = "env"
    BY <1>2 DEF StartRun
  <2>3. QED BY <1>a, <2>1, <2>2 DEF DownInv
<1>3. CASE PreMigrate
  <2>1. down = {} /\ UNCHANGED <<cstate, down>> /\ pc' \in PreMigratePcs \union {"network", "off"}
    <3>1. pc \in PreMigratePcs
      BY <1>3
      DEF PreMigrate, InitPouchEnv, ListContainers, InspectContainer, EndOfContainers,
          PullImage, RemoveStaleSnapshot, CreateSnapshot, SetDirDiskQuota, TruncateMeta,
          WriteMeta, PrepareVolumes, GenerateSandboxMetaJSON
    <3>2. UNCHANGED <<cstate, down>> /\ pc' \in PreMigratePcs \union {"network", "off"}
      BY <1>3
      DEF PreMigrate, InitPouchEnv, ListContainers, InspectContainer, EndOfContainers,
          PullImage, RemoveStaleSnapshot, CreateSnapshot, SetDirDiskQuota, TruncateMeta,
          WriteMeta, PrepareVolumes, GenerateSandboxMetaJSON
    <3>3. QED BY <1>a, <3>1, <3>2 DEF DownInv
  <2>2. QED BY <1>a, <2>1 DEF DownInv
<1>4. CASE MigrateNetworkFile
  <2>1. down = {} /\ UNCHANGED <<cstate, down>> /\ pc' \in {"stop", "back"}
    BY <1>a, <1>4 DEF MigrateNetworkFile, DownInv
  <2>2. QED BY <1>a, <2>1 DEF DownInv
<1>5. CASE StopContainer
  <2> DEFINE x == runningContainers[k]
  <2>1. /\ UNCHANGED runningContainers /\ x \in Containers /\ Noted(x)
        /\ pc' \in {"stop", "back"}
    BY <1>a, <1>5 DEF StopContainer, Noted
  <2>2. /\ \A c \in Containers : cstate'[c] # "paused" /\ (Alive(c) => cstate'[c] # "gone")
        /\ \A c \in down' : c \in down \/ (c = x /\ cstate'[x] = "exited")
    BY <1>a, <1>5, <2>1 DEF StopContainer, DownInv
  <2>3. \A c \in down' : Alive(c)'
    BY <1>a, <2>1, <2>2 DEF DownInv
  <2>4. \A c \in down' : Noted(c)
    BY <1>a, <1>5, <2>1, <2>2 DEF StopContainer, DownInv
  <2>5. QED BY <2>1, <2>2, <2>3, <2>4 DEF DownInv, Noted
<1>6. CASE EndOfStops \/ MoveUpperDir \/ EndOfMoves \/ KillContainerd \/ MoveBack
  <2>1. /\ UNCHANGED <<cstate, down, runningContainers>>
        /\ \/ pc' \in {"move", "kill", "relist", "back"}
           \/ pc' = "off" /\ outcome' = "revertFailed"
    BY <1>6 DEF EndOfStops, MoveUpperDir, EndOfMoves, KillContainerd, MoveBack
  <2>2. \A c \in down : Noted(c)
    BY <1>a, <1>6 DEF EndOfStops, MoveUpperDir, EndOfMoves, KillContainerd, MoveBack, DownInv
  <2>3. QED BY <1>a, <2>1, <2>2 DEF DownInv, Noted
<1>7. CASE EndOfMovesBack \/ EndOfPrune
  <2>1. /\ UNCHANGED <<cstate, down, runningContainers>>
        /\ pc' \in {"restart", "launch"} /\ k' = 1
    BY <1>7 DEF EndOfMovesBack, EndOfPrune
  <2>2. \A c \in down : Noted(c)
    BY <1>a, <1>7 DEF EndOfMovesBack, EndOfPrune, DownInv
  <2>3. \A c \in down : \E j \in 1..Len(runningContainers) :
            j >= 1 /\ runningContainers[j] = c
    BY <1>a, <2>2 DEF Noted
  <2>4. QED BY <1>a, <2>1, <2>2, <2>3 DEF DownInv, Noted
<1>8. CASE RestartContainer
  <2> DEFINE x == runningContainers[k]
  <2>1. /\ UNCHANGED runningContainers /\ x \in Containers
        /\ \A c \in Containers : cstate'[c] # "paused" /\ (Alive(c) => cstate'[c] # "gone")
        /\ down' \subseteq down
    BY <1>a, <1>8 DEF RestartContainer, DownInv
  <2>2. CASE pc' = "restart"
    <3>1. k' = k + 1 /\ x \notin down'
      BY <1>8, <2>2 DEF RestartContainer
    <3>2. \A c \in down' : \E j \in 1..Len(runningContainers) :
              j >= k + 1 /\ runningContainers[j] = c
      <4>1. SUFFICES ASSUME NEW c \in down'
                     PROVE  \E j \in 1..Len(runningContainers) :
                                j >= k + 1 /\ runningContainers[j] = c
        OBVIOUS
      <4>2. PICK j \in 1..Len(runningContainers) : j >= k /\ runningContainers[j] = c
        BY <1>a, <1>8, <2>1 DEF RestartContainer, DownInv
      <4>3. j # k
        BY <3>1, <4>2
      <4>4. QED BY <1>a, <4>2, <4>3
    <3>3. QED BY <1>a, <2>1, <2>2, <3>1, <3>2 DEF DownInv
  <2>3. CASE pc' # "restart"
    <3>1. pc' = "off" /\ outcome' = "revertFailed"
      BY <1>8, <2>3 DEF RestartContainer
    <3>2. QED BY <1>a, <2>1, <3>1 DEF DownInv
  <2>4. QED BY <2>2, <2>3
<1>9. CASE EndOfRevert \/ EndOfLaunch
  <2>1. down = {}
    BY <1>a, <1>9 DEF EndOfRevert, EndOfLaunch, DownInv
  <2>2. UNCHANGED <<cstate, down, runningContainers>> /\ pc' = "off"
    BY <1>9 DEF EndOfRevert, EndOfLaunch
  <2>3. QED BY <1>b, <2>1, <2>2
<1>10. CASE ListAgain \/ EraseDockerPackage \/ InstallPouchService \/ RemoveDeleted
  <2>1. /\ UNCHANGED <<cstate, down, runningContainers>>
        /\ \/ pc' \in {"uninstall", "install", "prune"}
           \/ pc' = "off" /\ outcome' = "postFailed"
    BY <1>10 DEF ListAgain, EraseDockerPackage, InstallPouchService, RemoveDeleted
  <2>2. \A c \in down : Noted(c)
    BY <1>a, <1>10
    DEF ListAgain, EraseDockerPackage, InstallPouchService, RemoveDeleted, DownInv
  <2>3. QED BY <1>a, <2>1, <2>2 DEF DownInv, Noted
<1>11. CASE StopDockerService
  <2>1. \A c \in Containers : cstate[c] \notin {"running", "paused"}
    BY <1>a, <1>11 DEF StopDockerService, StopInv, DownInv, Running
  <2>2. /\ cstate' = cstate /\ UNCHANGED <<down, runningContainers>>
        /\ pc' = "erase" \/ (pc' = "off" /\ outcome' = "postFailed")
    BY <1>a, <1>11, <2>1 DEF StopDockerService
  <2>3. \A c \in down : Noted(c)
    BY <1>a, <1>11 DEF StopDockerService, DownInv
  <2>4. QED BY <1>a, <2>2, <2>3 DEF DownInv, Noted
<1>12. CASE LaunchContainer
  <2> DEFINE x == runningContainers[k]
  <2>1. UNCHANGED <<cstate, runningContainers>> /\ x \in Containers /\ down' \subseteq down
    BY <1>a, <1>12 DEF LaunchContainer
  <2>2. CASE pc' = "launch"
    <3>1. k' = k + 1 /\ x \notin down'
      <4>1. CASE x \in Range(deletedContainers)
        <5>1. ~Alive(x)
          BY <1>a, <1>12, <4>1 DEF LaunchContainer, PostInvariant, Range
        <5>2. QED BY <1>a, <1>12, <2>2, <4>1, <5>1 DEF LaunchContainer, DownInv
      <4>2. CASE x \notin Range(deletedContainers)
        BY <1>12, <2>2, <4>2 DEF LaunchContainer
      <4>3. QED BY <4>1, <4>2
    <3>2. \A c \in down' : \E j \in 1..Len(runningContainers) :
              j >= k + 1 /\ runningContainers[j] = c
      <4>1. SUFFICES ASSUME NEW c \in down'
                     PROVE  \E j \in 1..Len(runningContainers) :
                                j >= k + 1 /\ runningContainers[j] = c
        OBVIOUS
      <4>2. PICK j \in 1..Len(runningContainers) : j >= k /\ runningContainers[j] = c
        BY <1>a, <1>12, <2>1 DEF LaunchContainer, DownInv
      <4>3. j # k
        BY <3>1, <4>2
      <4>4. QED BY <1>a, <4>2, <4>3
    <3>3. QED BY <1>a, <2>1, <2>2, <3>1, <3>2 DEF DownInv, Noted
  <2>3. CASE pc' # "launch"
    <3>1. pc' = "off" /\ outcome' = "postFailed"
      BY <1>12, <2>3 DEF LaunchContainer
    <3>2. QED BY <1>a, <2>1, <3>1 DEF DownInv
  <2>4. QED BY <2>2, <2>3
<1>13. CASE Crash
  <2>1. UNCHANGED <<cstate, down, runningContainers>> /\ pc' = "off"
    BY <1>13 DEF Crash
  <2>2. outcome' = "interrupted" \/ down = {}
    BY <1>a, <1>13 DEF Crash, DownInv
  <2>3. QED BY <1>b, <2>1, <2>2
<1>14. CASE HostStep
  <2>1. /\ \A c \in Containers : cstate'[c] # "paused"
        /\ down' \subseteq down
        /\ \A c \in down' : Alive(c)'
        /\ UNCHANGED <<pc, k, outcome, runningContainers>>
    BY <1>a, <1>14, HostFacts DEF DownInv
  <2>2. QED BY <1>a, <2>1 DEF DownInv, Noted
<1>15. QED
  BY <1>1, <1>2, <1>3, <1>4, <1>5, <1>6, <1>7, <1>8, <1>9, <1>10, <1>11, <1>12, <1>13,
     <1>14
  DEF Next, RunCmd, Migrate, RevertMigration, PostMigrate

-----------------------------------------------------------------------------
(* The theorems. *)

(***************************************************************************)
(* Init establishes the invariant, and every step keeps it.                *)
(***************************************************************************)
LEMMA InitService == Init => ServiceInv
<1> SUFFICES ASSUME Init PROVE ServiceInv
  OBVIOUS
<1>1. IInv
  BY InitInvariant
<1>2. EngineInv /\ PruneInv
  BY DEF Init, HostInit, EngineInv, PruneInv, PostMigratePcs, DeletedArePruned
<1>3. StopInv
  BY DEF Init, HostInit, StopInv, PreMigrateLoop, PostMigratePcs
<1>4. NeverPaused => DownInv
  BY DEF Init, HostInit, NeverPaused, DownInv, PreMigratePcs, PreMigrateLoop, PostMigratePcs
<1>5. QED BY <1>1, <1>2, <1>3, <1>4 DEF ServiceInv

(***************************************************************************)
(* ServiceInv holds throughout, if the tool is started again after safe    *)
(* outcomes only.                                                          *)
(***************************************************************************)
THEOREM ServiceInvHolds ==
    ASSUME RerunAfter \subseteq SafeOutcomes
    PROVE  Spec => []ServiceInv
<1>1. ServiceInv /\ [Next]_vars => ServiceInv'
  <2> SUFFICES ASSUME ServiceInv, [Next]_vars PROVE ServiceInv'
    OBVIOUS
  <2>1. IInv'
    BY Inductive DEF ServiceInv
  <2>2. EngineInv' /\ PruneInv'
    BY EngineStep, PruneStep
  <2>3. Locked => StopInv'
    BY StopStep
  <2>4. Locked /\ NeverPaused => DownInv'
    BY DownStep
  <2>5. QED BY <2>1, <2>2, <2>3, <2>4 DEF ServiceInv, NeverPaused
<1>2. QED BY InitService, <1>1, PTL DEF Spec

(***************************************************************************)
(* The migrator's containerd has ended before pouchd starts the one that   *)
(* uses the same root directory.                                           *)
(***************************************************************************)
THEOREM RootIsExclusive ==
    ASSUME RerunAfter \subseteq SafeOutcomes
    PROVE  Spec => []ExclusiveRoot
<1>1. ServiceInv => ExclusiveRoot
  BY DEF ServiceInv, IInv, PostInvariant, EngineInv, ExclusiveRoot, PostMigratePcs
<1>2. QED BY <1>1, ServiceInvHolds, PTL

(***************************************************************************)
(* A run that is done has removed from pouch every container that its      *)
(* second listing did not find.                                            *)
(***************************************************************************)
THEOREM ColdDeletedArePruned ==
    ASSUME RerunAfter \subseteq SafeOutcomes
    PROVE  Spec => []DeletedArePruned
<1>1. ServiceInv => DeletedArePruned
  BY DEF ServiceInv, PruneInv
<1>2. QED BY <1>1, ServiceInvHolds, PTL

(***************************************************************************)
(* pouchd starts no container that still runs under docker, if users start *)
(* none while the tool is at work.                                         *)
(***************************************************************************)
THEOREM NothingRunsTwice ==
    ASSUME RerunAfter \subseteq SafeOutcomes, Locked
    PROVE  Spec => []NoDoubleRun
<1>1. ServiceInv => NoDoubleRun
  BY DEF ServiceInv, EngineInv, StopInv, NoDoubleRun, Running
<1>2. QED BY <1>1, ServiceInvHolds, PTL

(***************************************************************************)
(* A run that completes or reverts has started again whatever it stopped,  *)
(* if nobody pauses containers or starts one while the tool is at work.    *)
(***************************************************************************)
THEOREM ServiceIsRestored ==
    ASSUME RerunAfter \subseteq SafeOutcomes, Locked, NeverPaused
    PROVE  Spec => []ServiceRestored
<1>1. ServiceInv => ServiceRestored
  BY DEF ServiceInv, EngineInv, DownInv, ServiceRestored, SafeOutcomes
<1>2. QED BY <1>1, ServiceInvHolds, PTL

LEMMA UpperGrows ==
    ASSUME NEW x, NEW moved, upper \in [Containers -> SUBSET Files],
           upper' = [upper EXCEPT ![x] = @ \union moved]
    PROVE  \A c \in Containers : upper[c] \subseteq upper'[c]
OBVIOUS

(***************************************************************************)
(* No file is moved from under a container that runs, under the same       *)
(* conditions.                                                             *)
(***************************************************************************)
THEOREM OnlyStoppedAreMoved ==
    ASSUME RerunAfter \subseteq SafeOutcomes, Locked, NeverPaused
    PROVE  Spec => OnlyStoppedMoved
<1> DEFINE Moved == \A c \in Containers :
                        ~(upper[c] \subseteq upper'[c]) /\ Alive(c)' => cstate[c] = "exited"
<1>1. ServiceInv /\ [Next]_vars => [Moved]_vars
  <2> SUFFICES ASSUME ServiceInv, Next PROVE Moved
    OBVIOUS
  <2> USE DEF ServiceInv, IInv, TypeOK, HostTypeOK
  <2>1. CASE MoveUpperDir
    <3>1. \A c \in Containers : cstate[c] \in {"exited", "gone"} /\ cstate'[c] = cstate[c]
      BY <2>1 DEF MoveUpperDir, StopInv, DownInv, Running
    <3>2. QED BY <3>1
  <2>2. CASE MoveBack
    <3>1. upper \in [Containers -> SUBSET Files]
      OBVIOUS
    <3> HIDE DEF ServiceInv, IInv, TypeOK, HostTypeOK
    <3>2. \/ upper' = upper
          \/ \E x, moved : upper' = [upper EXCEPT ![x] = @ \union moved]
      BY <2>2, Zenon DEF MoveBack
    <3>3. \A c \in Containers : upper[c] \subseteq upper'[c]
      BY <3>1, <3>2, UpperGrows
    <3>4. QED BY <3>3
  <2>3. CASE HostStep
    <3>1. \A c \in Containers : Alive(c)' => upper'[c] = upper[c]
      BY <2>3 DEF HostStep, Exit, Start, Pause, Remove
    <3>2. QED BY <3>1
  <2>4. CASE ~(MoveUpperDir \/ MoveBack \/ HostStep)
    <3>1. UNCHANGED upper
      <4>1. CASE StartRun \/ PreMigrate \/ Crash
        BY <4>1
        DEF StartRun, PreMigrate, InitPouchEnv, ListContainers, InspectContainer,
            EndOfContainers, PullImage, RemoveStaleSnapshot, CreateSnapshot, SetDirDiskQuota,
            TruncateMeta, WriteMeta, PrepareVolumes, GenerateSandboxMetaJSON, Crash
      <4>2. CASE Migrate \/ RevertMigration
        BY <2>4, <4>2
        DEF Migrate, MigrateNetworkFile, StopContainer, EndOfStops, EndOfMoves, KillContainerd,
            RevertMigration, EndOfMovesBack, RestartContainer, EndOfRevert
      <4>3. CASE PostMigrate
        BY <4>3
        DEF PostMigrate, ListAgain, StopDockerService, EraseDockerPackage,
            InstallPouchService, RemoveDeleted, EndOfPrune, LaunchContainer, EndOfLaunch
      <4>4. QED BY <2>4, <4>1, <4>2, <4>3 DEF Next, RunCmd
    <3>2. QED BY <3>1
  <2>5. QED BY <2>1, <2>2, <2>3, <2>4
<1>2. QED BY <1>1, ServiceInvHolds, PTL DEF Spec, OnlyStoppedMoved

-----------------------------------------------------------------------------
(* Refinement. *)

\* On which sides c is complete.
DockerHas(c) == Alive(c) /\ AtDocker(c)
PouchHas(c) == Alive(c) /\ Prepared(c) /\ InPouch(c)

LEMMA SidesKept ==
    ASSUME \A c \in Containers : Alive(c)' <=> Alive(c),
           \A c \in Containers : DockerHas(c)' <=> DockerHas(c),
           \A c \in Containers : PouchHas(c)' <=> PouchHas(c)
    PROVE  UNCHANGED <<sides, gone>>
<1>1. \A c \in Containers : sides'[c] = sides[c]
  BY DEF sides, DockerHas, PouchHas
<1>2. QED BY <1>1 DEF sides, gone

LEMMA OneSideChanges ==
    ASSUME NEW x \in Containers,
           \A c \in Containers : Alive(c)' <=> Alive(c),
           \A c \in Containers : c # x =>
               (DockerHas(c)' <=> DockerHas(c)) /\ (PouchHas(c)' <=> PouchHas(c))
    PROVE  /\ gone' = gone
           /\ ~Alive(x) => sides' = sides
           /\ \E s \in SUBSET {"docker", "pouch"} :
                 /\ \A c \in Containers : c = x /\ DockerHas(c)' => "docker" \in s
                 /\ sides' = [sides EXCEPT ![x] = s]
<1>1. \A c \in Containers : c # x \/ ~Alive(x) => sides'[c] = sides[c]
  BY DEF sides, DockerHas, PouchHas
<1>2. /\ sides'[x] \in SUBSET {"docker", "pouch"}
      /\ DockerHas(x)' => "docker" \in sides'[x]
  BY DEF sides, DockerHas
<1>3. sides' = [sides EXCEPT ![x] = sides'[x]] /\ (~Alive(x) => sides' = sides)
  <2>1. /\ sides = [c \in Containers |-> sides[c]]
        /\ sides' = [c \in Containers |-> sides'[c]]
    BY DEF sides
  <2>2. QED BY <1>1, <2>1
<1>4. gone' = gone
  BY DEF gone
<1>5. QED BY <1>2, <1>3, <1>4

LEMMA InitIsHandoverInit == Init => H!Init
<1> SUFFICES ASSUME Init PROVE H!Init
  OBVIOUS
<1>1. engine = "docker" /\ phase = "serving" /\ gone \in SUBSET Containers
  BY DEF Init, HostInit, engine, phase, gone, RevertPcs, SafeOutcomes
<1>2. \A c \in Containers : ~Prepared(c) /\ AtDocker(c)
  BY DEF Init, HostInit, Prepared, AtDocker
<1>3. \A c \in Containers : sides[c] = IF c \in gone THEN {} ELSE {"docker"}
  BY <1>2 DEF sides, gone
<1>4. sides = [c \in Containers |-> IF c \in gone THEN {} ELSE {"docker"}]
  BY <1>3 DEF sides
<1>5. QED BY <1>1, <1>4 DEF H!Init

(***************************************************************************)
(* PreMigrate prepares one container at a time, with docker's files at     *)
(* rest.                                                                   *)
(***************************************************************************)
LEMMA PreMigrateIsPrepare ==
    ASSUME IInv, EngineInv, PreMigrate
    PROVE  [H!Next]_H!vars
<1> USE DEF IInv, TypeOK, HostTypeOK, PreMigratePcs, PreMigrateLoop
<1>1. /\ UNCHANGED <<dockerd, pouchd, cstate, legacy, upper>>
      /\ dockerd = "up" /\ pouchd = "down" /\ pc \in PreMigratePcs
      /\ \/ pc' \in PreMigratePcs \union {"network"}
         \/ pc' = "off" /\ outcome' \in {"prepared", "unprepared"}
  <2>1. /\ UNCHANGED <<dockerd, pouchd, cstate, legacy, upper>> /\ pc \in PreMigratePcs
        /\ \/ pc' \in PreMigratePcs \union {"network"}
           \/ pc' = "off" /\ outcome' \in {"prepared", "unprepared"}
    BY DEF PreMigrate, InitPouchEnv, ListContainers, InspectContainer, EndOfContainers,
           PullImage, RemoveStaleSnapshot, CreateSnapshot, SetDirDiskQuota, TruncateMeta,
           WriteMeta, PrepareVolumes, GenerateSandboxMetaJSON
  <2>2. QED BY <2>1 DEF PostInvariant, EngineInv
<1>2. engine = "docker" /\ engine' = engine
  BY <1>1 DEF engine
<1>3. phase = "serving" /\ phase' = "serving"
  BY <1>1 DEF phase, RevertPcs, SafeOutcomes
<1>4. \A c \in Containers : (Alive(c)' <=> Alive(c)) /\ (DockerHas(c)' <=> DockerHas(c))
  BY <1>1 DEF DockerHas, AtDocker
<1>5. CASE RemoveStaleSnapshot \/ CreateSnapshot \/ TruncateMeta \/ WriteMeta
  <2>1. listed[k] \in Containers
    BY <1>5
    DEF RemoveStaleSnapshot, CreateSnapshot, TruncateMeta, WriteMeta, LoopInvariant
  <2>2. \A c \in Containers : c # listed[k] =>
            /\ meta'[c] = meta[c] /\ snapUpper'[c] = snapUpper[c]
            /\ c \in snapshot' <=> c \in snapshot
    BY <1>5, <2>1 DEF RemoveStaleSnapshot, CreateSnapshot, TruncateMeta, WriteMeta
  <2>3. \A c \in Containers : c # listed[k] => (PouchHas(c)' <=> PouchHas(c))
    BY <1>1, <2>2 DEF PouchHas, Prepared, InPouch
  <2>4. /\ gone' = gone
        /\ ~Alive(listed[k]) => sides' = sides
        /\ \E s \in SUBSET {"docker", "pouch"} :
              /\ \A c \in Containers : c = listed[k] /\ DockerHas(c)' => "docker" \in s
              /\ sides' = [sides EXCEPT ![listed[k]] = s]
    BY <1>4, <2>1, <2>3, OneSideChanges
  <2>5. CASE Alive(listed[k])
    <3>1. DockerHas(listed[k])
      BY <1>1, <2>1, <2>5 DEF DockerHas, FilesAccounted, AtRest
    <3>2. \A c \in Containers : c = listed[k] => DockerHas(c)'
      BY <1>4, <2>1, <3>1
    <3>3. listed[k] \in H!Present
      BY <2>1, <2>5 DEF H!Present, gone
    <3>4. H!Prepare(listed[k])
      BY <1>2, <1>3, <2>1, <2>4, <3>2, <3>3 DEF H!Prepare
    <3>5. QED BY <2>1, <3>4 DEF H!Next
  <2>6. CASE ~Alive(listed[k])
    BY <1>2, <1>3, <2>4, <2>6 DEF H!vars
  <2>7. QED BY <2>5, <2>6
<1>6. CASE \/ InitPouchEnv \/ ListContainers \/ InspectContainer \/ EndOfContainers
           \/ PullImage \/ SetDirDiskQuota \/ PrepareVolumes \/ GenerateSandboxMetaJSON
  <2>1. UNCHANGED <<snapshot, meta, snapUpper>>
    BY <1>6
    DEF InitPouchEnv, ListContainers, InspectContainer, EndOfContainers, PullImage,
        SetDirDiskQuota, PrepareVolumes, GenerateSandboxMetaJSON
  <2>2. \A c \in Containers : PouchHas(c)' <=> PouchHas(c)
    BY <1>1, <2>1 DEF PouchHas, Prepared, InPouch
  <2>3. UNCHANGED <<sides, gone>>
    BY <1>4, <2>2, SidesKept
  <2>4. QED BY <1>2, <1>3, <2>3 DEF H!vars
<1>7. QED BY <1>5, <1>6 DEF PreMigrate

(***************************************************************************)
(* Migrate begins the transfer when it moves the first file or gives up,   *)
(* and decides the hand-over after the last move.                          *)
(***************************************************************************)
LEMMA MigrateIsTransfer ==
    ASSUME IInv, EngineInv, Migrate
    PROVE  [H!Next]_H!vars
<1> USE DEF IInv, TypeOK, HostTypeOK, RevertPcs
<1>1. /\ UNCHANGED <<dockerd, pouchd, legacy, snapshot, meta>>
      /\ dockerd = "up" /\ pouchd = "down"
      /\ \A c \in Containers : Alive(c)' <=> Alive(c)
  <2>1. UNCHANGED <<dockerd, pouchd, legacy, snapshot, meta>> /\ pc \in MigratePcs
    BY DEF Migrate, MigrateNetworkFile, StopContainer, EndOfStops, MoveUpperDir, EndOfMoves,
           KillContainerd, MigratePcs
  <2>2. \A c \in Containers : Alive(c)' <=> Alive(c)
    BY DEF Migrate, MigrateNetworkFile, StopContainer, EndOfStops, MoveUpperDir, EndOfMoves,
           KillContainerd
  <2>3. QED BY <2>1, <2>2 DEF MigratePcs, PostInvariant, EngineInv
<1>2. engine = "docker" /\ engine' = engine
  BY <1>1 DEF engine
<1>3. CASE MoveUpperDir
  <2> DEFINE x == upperDirMappingList[k]
  <2>1. x \in Containers /\ pc' \in {"move", "back"}
    BY <1>3 DEF MoveUpperDir
  <2>2. phase = "moving" /\ phase' = "moving"
    BY <1>1, <1>3, <2>1 DEF MoveUpperDir, phase
  <2>3. \A c \in Containers : c # x => upper'[c] = upper[c] /\ snapUpper'[c] = snapUpper[c]
    BY <1>3 DEF MoveUpperDir
  <2>4. \A c \in Containers : c # x =>
            (DockerHas(c)' <=> DockerHas(c)) /\ (PouchHas(c)' <=> PouchHas(c))
    BY <1>1, <2>3 DEF DockerHas, PouchHas, AtDocker, Prepared, InPouch
  <2>5. /\ gone' = gone
        /\ ~Alive(x) => sides' = sides
        /\ \E s \in SUBSET {"docker", "pouch"} : sides' = [sides EXCEPT ![x] = s]
    BY <1>1, <2>1, <2>4, OneSideChanges
  <2>6. CASE Alive(x)
    <3>1. x \in H!Present
      BY <2>1, <2>6 DEF H!Present, gone
    <3>2. H!Transfer(x)
      BY <1>2, <2>2, <2>5, <3>1 DEF H!Transfer
    <3>3. QED BY <2>1, <3>2 DEF H!Next
  <2>7. CASE ~Alive(x)
    BY <1>2, <2>2, <2>5, <2>7 DEF H!vars
  <2>8. QED BY <2>6, <2>7
<1>4. CASE ~MoveUpperDir
  <2>1. UNCHANGED <<upper, snapUpper>>
    BY <1>4
    DEF Migrate, MigrateNetworkFile, StopContainer, EndOfStops, EndOfMoves, KillContainerd
  <2>2. \A c \in Containers :
            (DockerHas(c)' <=> DockerHas(c)) /\ (PouchHas(c)' <=> PouchHas(c))
    BY <1>1, <2>1 DEF DockerHas, PouchHas, AtDocker, Prepared, InPouch
  <2>3. UNCHANGED <<sides, gone>>
    BY <1>1, <2>2, SidesKept
  <2>4. CASE MigrateNetworkFile \/ StopContainer \/ EndOfStops
    <3>1. phase = "serving" /\ phase' \in {"serving", "moving"}
      BY <1>1, <2>4 DEF MigrateNetworkFile, StopContainer, EndOfStops, phase
    <3>2. QED BY <1>2, <2>3, <3>1 DEF H!vars, H!Next, H!Begin
  <2>5. CASE EndOfMoves
    <3>1. phase = "moving" /\ phase' = "committed"
      BY <1>1, <2>5 DEF EndOfMoves, phase
    <3>2. \A c \in Containers : Alive(c) => PouchHas(c)
      <4>1. \A c \in Containers : Alive(c) => Prepared(c) /\ Mapped(c)
        BY <2>5 DEF EndOfMoves, KnownInvariant, ReadyPcs, MigratePcs
      <4>2. \A c \in Containers : Alive(c) => InPouch(c)
        BY <2>5, <4>1 DEF EndOfMoves, MoveInvariant, Mapped
      <4>3. QED BY <4>1, <4>2 DEF PouchHas
    <3>3. \A c \in H!Present : "pouch" \in sides[c]
      BY <3>2 DEF H!Present, gone, sides, PouchHas
    <3>4. QED BY <1>2, <2>3, <3>1, <3>3 DEF H!Next, H!Commit
  <2>6. CASE KillContainerd
    <3>1. phase = "committed" /\ phase' = "committed"
      BY <2>6 DEF KillContainerd, phase
    <3>2. QED BY <1>2, <2>3, <3>1 DEF H!vars
  <2>7. QED BY <1>4, <2>4, <2>5, <2>6 DEF Migrate
<1>5. QED BY <1>3, <1>4

(***************************************************************************)
(* RevertMigration transfers the files back and aborts the attempt only    *)
(* when docker has all of them.                                            *)
(***************************************************************************)
LEMMA RevertIsAbort ==
    ASSUME IInv, EngineInv, RevertMigration
    PROVE  [H!Next]_H!vars
<1> USE DEF IInv, TypeOK, HostTypeOK, RevertPcs
<1>1. /\ UNCHANGED <<dockerd, pouchd, legacy, snapshot, meta>>
      /\ dockerd = "up" /\ pouchd = "down" /\ pc \in RevertPcs
      /\ pc' \in RevertPcs \/ (pc' = "off" /\ outcome' \in {"reverted", "revertFailed"})
      /\ \A c \in Containers : Alive(c)' <=> Alive(c)
  <2>1. /\ UNCHANGED <<dockerd, pouchd, legacy, snapshot, meta>> /\ pc \in RevertPcs
        /\ pc' \in RevertPcs \/ (pc' = "off" /\ outcome' \in {"reverted", "revertFailed"})
    BY DEF RevertMigration, MoveBack, EndOfMovesBack, RestartContainer, EndOfRevert
  <2>2. \A c \in Containers : Alive(c)' <=> Alive(c)
    BY DEF RevertMigration, MoveBack, EndOfMovesBack, RestartContainer, EndOfRevert
  <2>3. QED BY <2>1, <2>2 DEF PostInvariant, EngineInv
<1>2. engine = "docker" /\ engine' = engine
  BY <1>1 DEF engine
<1>3. phase = "moving"
  BY <1>1 DEF phase
<1>4. CASE MoveBack
  <2> DEFINE x == upperDirMappingList[k]
  <2>1. /\ x \in Containers
        /\ pc' = "back" \/ (pc' = "off" /\ outcome' = "revertFailed")
    BY <1>4 DEF MoveBack
  <2>2. phase' \in {"moving", "stuck"}
    BY <1>1, <2>1 DEF phase, SafeOutcomes
  <2>3. \A c \in Containers : c # x => upper'[c] = upper[c] /\ snapUpper'[c] = snapUpper[c]
    BY <1>4 DEF MoveBack
  <2>4. \A c \in Containers : c # x =>
            (DockerHas(c)' <=> DockerHas(c)) /\ (PouchHas(c)' <=> PouchHas(c))
    BY <1>1, <2>3 DEF DockerHas, PouchHas, AtDocker, Prepared, InPouch
  <2>5. /\ gone' = gone
        /\ ~Alive(x) => sides' = sides
        /\ \E s \in SUBSET {"docker", "pouch"} : sides' = [sides EXCEPT ![x] = s]
    BY <1>1, <2>1, <2>4, OneSideChanges
  <2>6. CASE Alive(x)
    <3>1. x \in H!Present
      BY <2>1, <2>6 DEF H!Present, gone
    <3>2. H!Transfer(x)
      BY <1>2, <1>3, <2>2, <2>5, <3>1 DEF H!Transfer
    <3>3. QED BY <2>1, <3>2 DEF H!Next
  <2>7. CASE ~Alive(x)
    BY <1>2, <1>3, <2>2, <2>5, <2>7 DEF H!vars, H!Next, H!GiveUp
  <2>8. QED BY <2>6, <2>7
<1>5. CASE ~MoveBack
  <2>1. UNCHANGED <<upper, snapUpper>>
    BY <1>5 DEF RevertMigration, EndOfMovesBack, RestartContainer, EndOfRevert
  <2>2. \A c \in Containers :
            (DockerHas(c)' <=> DockerHas(c)) /\ (PouchHas(c)' <=> PouchHas(c))
    BY <1>1, <2>1 DEF DockerHas, PouchHas, AtDocker, Prepared, InPouch
  <2>3. UNCHANGED <<sides, gone>>
    BY <1>1, <2>2, SidesKept
  <2>4. CASE EndOfMovesBack \/ RestartContainer
    <3>1. phase' \in {"moving", "stuck"}
      BY <1>1, <2>4 DEF EndOfMovesBack, RestartContainer, phase, SafeOutcomes
    <3>2. QED BY <1>2, <1>3, <2>3, <3>1 DEF H!vars, H!Next, H!GiveUp
  <2>5. CASE EndOfRevert
    <3>1. phase' = "serving"
      BY <1>1, <2>5 DEF EndOfRevert, phase, SafeOutcomes
    <3>2. \A c \in H!Present : "docker" \in sides[c]
      BY <2>5 DEF EndOfRevert, FilesAccounted, AtRest, H!Present, gone, sides
    <3>3. QED BY <1>2, <1>3, <2>3, <3>1, <3>2 DEF H!Next, H!Abort
  <2>6. QED BY <1>5, <2>4, <2>5 DEF RevertMigration
<1>6. QED BY <1>4, <1>5

(***************************************************************************)
(* The other steps of the process move nothing; those of PostMigrate       *)
(* retire docker and let pouch take over.                                  *)
(***************************************************************************)
LEMMA OtherStepsAreHandoverSteps ==
    ASSUME RerunAfter \subseteq SafeOutcomes, IInv, EngineInv,
           StartRun \/ PostMigrate \/ Crash
    PROVE  [H!Next]_H!vars
<1> USE DEF IInv, TypeOK, HostTypeOK, PostInvariant, EngineInv
<1>1. UNCHANGED <<sides, gone>>
  <2>1. \A c \in Containers : Alive(c)' <=> Alive(c)
    <3>1. CASE StopDockerService
      BY <3>1 DEF StopDockerService
    <3>2. CASE ~StopDockerService
      <4>1. UNCHANGED cstate
        BY <3>2
        DEF StartRun, PostMigrate, ListAgain, EraseDockerPackage, InstallPouchService,
            RemoveDeleted, EndOfPrune, LaunchContainer, EndOfLaunch, Crash
      <4>2. QED BY <4>1
    <3>3. QED BY <3>1, <3>2
  <2>2. UNCHANGED <<upper, legacy>>
    BY DEF StartRun, PostMigrate, ListAgain, StopDockerService, EraseDockerPackage,
           InstallPouchService, RemoveDeleted, EndOfPrune, LaunchContainer, EndOfLaunch, Crash
  <2>3. \A c \in Containers : DockerHas(c)' <=> DockerHas(c)
    BY <2>1, <2>2 DEF DockerHas, AtDocker
  <2>4. \A c \in Containers : Alive(c) =>
            /\ meta'[c] = meta[c] /\ snapUpper'[c] = snapUpper[c]
            /\ c \in snapshot' <=> c \in snapshot
    <3>1. CASE RemoveDeleted
      <4>1. deletedContainers[k] \in Containers /\ ~Alive(deletedContainers[k])
        BY <3>1 DEF RemoveDeleted, PostMigratePcs
      <4>2. \A c \in Containers : c # deletedContainers[k] =>
                /\ meta'[c] = meta[c] /\ snapUpper'[c] = snapUpper[c]
                /\ c \in snapshot' <=> c \in snapshot
        BY <3>1 DEF RemoveDeleted
      <4>3. QED BY <4>1, <4>2
    <3>2. CASE ~RemoveDeleted
      BY <3>2
      DEF StartRun, PostMigrate, ListAgain, StopDockerService, EraseDockerPackage,
          InstallPouchService, EndOfPrune, LaunchContainer, EndOfLaunch, Crash
    <3>3. QED BY <3>1, <3>2
  <2>5. \A c \in Containers : PouchHas(c)' <=> PouchHas(c)
    BY <2>1, <2>2, <2>4 DEF PouchHas, Prepared, InPouch
  <2>6. QED BY <2>1, <2>3, <2>5, SidesKept
<1>2. CASE StartRun
  <2>1. UNCHANGED <<dockerd, pouchd>> /\ dockerd = "up" /\ pc = "off" /\ pc' = "env"
        /\ outcome \in SafeOutcomes
    BY <1>2 DEF StartRun, SafeOutcomes
  <2>2. engine' = engine /\ phase' = phase
    BY <2>1 DEF engine, phase, RevertPcs
  <2>3. QED BY <1>1, <2>2 DEF H!vars
<1>3. CASE ListAgain
  <2>1. engine = "docker" /\ engine' = engine /\ phase = "committed"
    BY <1>3 DEF ListAgain, engine, phase
  <2>2. phase' \in {"committed", "stuck"}
    BY <1>3 DEF ListAgain, phase, SafeOutcomes, RevertPcs
  <2>3. QED BY <1>1, <2>1, <2>2 DEF H!vars, H!Next, H!GiveUp
<1>4. CASE StopDockerService
  <2>1. engine = "docker" /\ phase = "committed" /\ dockerd = "up" /\ pouchd' = "down"
    BY <1>4 DEF StopDockerService, engine, phase
  <2>2. \/ engine' = "none" /\ phase' = "committed"
        \/ engine' = "docker" /\ phase' = "stuck"
    BY <1>4, <2>1 DEF StopDockerService, engine, phase, SafeOutcomes, RevertPcs
  <2>3. QED BY <1>1, <2>1, <2>2 DEF H!Next, H!Retire, H!GiveUp
<1>5. CASE InstallPouchService
  <2>1. phase = "committed" /\ phase' = "committed" /\ engine # "docker"
    BY <1>5 DEF InstallPouchService, engine, phase
  <2>2. engine' = engine \/ (engine = "none" /\ engine' = "pouch")
    BY <1>5, <2>1 DEF InstallPouchService, engine
  <2>3. QED BY <1>1, <2>1, <2>2 DEF H!vars, H!Next, H!TakeOver
<1>6. CASE EraseDockerPackage \/ RemoveDeleted \/ EndOfPrune \/ LaunchContainer \/ EndOfLaunch
  <2>1. dockerd # "up" /\ dockerd' # "up" /\ pouchd' = pouchd
    BY <1>6
    DEF EraseDockerPackage, RemoveDeleted, EndOfPrune, LaunchContainer, EndOfLaunch
  <2>2. QED BY <1>1, <2>1 DEF engine, phase, H!vars
<1>7. CASE Crash
  <2>1. UNCHANGED <<dockerd, pouchd>> /\ pc' = "off" /\ pc # "off"
        /\ outcome' = IF pc \in PreMigratePcs THEN "unprepared" ELSE "interrupted"
    BY <1>7 DEF Crash
  <2>2. engine' = engine
    BY <2>1 DEF engine
  <2>3. CASE dockerd # "up"
    BY <1>1, <2>1, <2>2, <2>3 DEF phase, H!vars
  <2>4. CASE dockerd = "up" /\ pc \in PreMigratePcs
    <3>1. phase = "serving" /\ phase' = "serving"
      BY <2>1, <2>4 DEF phase, SafeOutcomes, PreMigratePcs, PreMigrateLoop, RevertPcs
    <3>2. QED BY <1>1, <2>2, <3>1 DEF H!vars
  <2>5. CASE dockerd = "up" /\ pc \notin PreMigratePcs
    <3>1. phase' = "stuck" /\ engine = "docker"
      BY <2>1, <2>5 DEF phase, engine, SafeOutcomes, RevertPcs
    <3>2. QED BY <1>1, <2>2, <3>1 DEF H!Next, H!GiveUp
  <2>6. QED BY <2>3, <2>4, <2>5
<1>8. QED BY <1>2, <1>3, <1>4, <1>5, <1>6, <1>7 DEF PostMigrate

(***************************************************************************)
(* Of the acts on the host, the hand-over sees removals only.              *)
(***************************************************************************)
LEMMA HostStepIsDelete ==
    ASSUME IInv, EngineInv, HostStep
    PROVE  [H!Next]_H!vars
<1> USE DEF IInv, TypeOK, HostTypeOK
<1>1. UNCHANGED <<dockerd, pouchd, pc, outcome, legacy, snapshot, snapUpper, meta>>
  BY HostFacts
<1>2. UNCHANGED <<engine, phase>>
  BY <1>1 DEF engine, phase
<1>3. PICK x \in Containers : Exit(x) \/ Remove(x) \/ Start(x) \/ Pause(x)
  BY DEF HostStep
<1>4. CASE Remove(x)
  <2>1. dockerd = "up" /\ cstate' = [cstate EXCEPT ![x] = "gone"]
        /\ upper' = [upper EXCEPT ![x] = {}]
    BY <1>4 DEF Remove
  <2>2. \A c \in Containers : sides'[c] = IF c = x THEN {} ELSE sides[c]
    BY <1>1, <2>1 DEF sides, AtDocker, Prepared, InPouch
  <2>3. sides' = [sides EXCEPT ![x] = {}]
    BY <2>2 DEF sides
  <2>4. gone' = gone \union {x}
    BY <2>1 DEF gone
  <2>5. engine = "docker"
    BY <2>1 DEF engine, EngineInv
  <2>6. H!Delete(x)
    BY <1>2, <2>3, <2>4, <2>5 DEF H!Delete
  <2>7. QED BY <2>6 DEF H!Next
<1>5. CASE ~Remove(x)
  <2>1. \A c \in Containers : (Alive(c)' <=> Alive(c)) /\ upper'[c] = upper[c]
    BY <1>3, <1>5 DEF Exit, Start, Pause
  <2>2. \A c \in Containers :
            (DockerHas(c)' <=> DockerHas(c)) /\ (PouchHas(c)' <=> PouchHas(c))
    BY <1>1, <2>1 DEF DockerHas, PouchHas, AtDocker, Prepared, InPouch
  <2>3. UNCHANGED <<sides, gone>>
    BY <2>1, <2>2, SidesKept
  <2>4. QED BY <1>2, <2>3 DEF H!vars
<1>6. QED BY <1>4, <1>5

(***************************************************************************)
(* The cold migration is a hand-over decided once for all containers: it   *)
(* is undone only when docker has every file, and docker is retired only   *)
(* when pouch has, whatever fails and whatever users do.                   *)
(***************************************************************************)
THEOREM ColdIsHandover ==
    ASSUME RerunAfter \subseteq SafeOutcomes
    PROVE  Spec => ImplementsHandover
<1>1. ServiceInv /\ [Next]_vars => [H!Next]_H!vars
  <2>1. ASSUME ServiceInv, Next PROVE [H!Next]_H!vars
    BY <2>1, PreMigrateIsPrepare, MigrateIsTransfer, RevertIsAbort,
       OtherStepsAreHandoverSteps, HostStepIsDelete
    DEF Next, RunCmd, ServiceInv
  <2>2. ASSUME UNCHANGED vars PROVE UNCHANGED H!vars
    BY <2>2 DEF vars, H!vars, engine, sides, gone, phase, Prepared, AtDocker, InPouch
  <2>3. QED BY <2>1, <2>2
<1>2. QED
  BY InitIsHandoverInit, <1>1, ServiceInvHolds, PTL DEF Spec, ImplementsHandover, H!Spec
=============================================================================
