------------------------- MODULE ColdMigrator_proofs -------------------------
(***************************************************************************)
(* Proofs about ColdMigrator, for every value of its constants.  IInv holds*)
(* initially and is kept by every step (one lemma for each phase of a run, *)
(* one step for each action, one below it for each part of IInv); what the *)
(* theorems at the end state follows from it.                              *)
(***************************************************************************)
EXTENDS ColdInvariant, FiniteSetTheorems, TLAPS

(***************************************************************************)
(* A listing names every container of the set it lists, and no other.      *)
(***************************************************************************)
LEMMA ListingFacts ==
    ASSUME NEW S, S \subseteq Containers, NEW s \in ListingsOf(S)
    PROVE  /\ s \in Seq(Containers)
           /\ Len(s) = Cardinality(S)
           /\ \A c \in S : \E j \in 1..Len(s) : s[j] = c
           /\ \A j \in 1..Len(s) : s[j] \in S
<1>1. Cardinality(S) \in Nat
  BY ContainersAssumption, FS_Subset, FS_CardinalityType
<1>2. /\ s \in [1..Cardinality(S) -> S]
      /\ \A c \in S : \E j \in 1..Cardinality(S) : s[j] = c
  BY DEF ListingsOf, Bijection, Injection, Surjection
<1>3. QED BY <1>1, <1>2

USE DEF Goto, Enter, Again, Leave, FailPreMigrate, FailMigrate, EndPreMigrate,
        dockerVars, pouchData, pouchVars, memory, Alive

(***************************************************************************)
(* What MoveDir returns, whatever directory it is given.                   *)
(***************************************************************************)
LEMMA MoveFacts ==
    ASSUME NEW dir, NEW mayFail, NEW r \in MoveDir(dir, mayFail)
    PROVE  /\ r.moved \subseteq dir \ Hidden
           /\ r.ok \in BOOLEAN
           /\ r.ok => r.moved = dir \ Hidden
  BY DEF MoveDir, Glob

(***************************************************************************)
(* A move leaves the directories typed.                                    *)
(***************************************************************************)
LEMMA DirsStayTyped ==
    ASSUME NEW dirs \in [Containers -> SUBSET Files], NEW c \in Containers,
           NEW moved, moved \subseteq Files
    PROVE  /\ [dirs EXCEPT ![c] = @ \union moved] \in [Containers -> SUBSET Files]
           /\ [dirs EXCEPT ![c] = @ \ moved] \in [Containers -> SUBSET Files]
OBVIOUS

(***************************************************************************)
(* The touch of the marker file removes nothing.                           *)
(***************************************************************************)
LEMMA TouchedFacts ==
    ASSUME TypeOK, NEW c \in Containers, NEW dir \in Touched(c)
    PROVE  /\ dir \subseteq Files
           /\ upper[c] \subseteq dir
  BY MarkerAssumption DEF Touched, TypeOK, HostTypeOK

-----------------------------------------------------------------------------
(* Type correctness. *)

(***************************************************************************)
(* Every step keeps the types; IInv is needed for the loop of PreMigrate,  *)
(* which indexes the list of containers.                                   *)
(***************************************************************************)
LEMMA TypeStep == IInv /\ [Next]_vars => TypeOK'
<1> SUFFICES ASSUME TypeOK, LoopInvariant, [Next]_vars PROVE TypeOK'
  BY DEF IInv
<1> USE DEF TypeOK, HostTypeOK, Outcomes, SafeOutcomes, PreMigratePcs, PreMigrateLoop,
            MigratePcs, RevertPcs, PostMigratePcs
<1>1. CASE UNCHANGED vars
  BY <1>1 DEF vars
<1>2. CASE StartRun
  <2>1. runs' \in 0..MaxRuns
    BY <1>2, RunAssumption DEF StartRun
  <2>2. allContainers' \in [Containers -> {"none", "false", "true"}]
    BY <1>2 DEF StartRun
  <2>3. <<>> \in Seq(Containers)
    OBVIOUS
  <2>4. QED BY <1>2, <2>1, <2>2, <2>3 DEF StartRun
<1>3. CASE InitPouchEnv
  <2>1. homeDir' \in BOOLEAN
    BY <1>3 DEF InitPouchEnv
  <2>2. QED BY <1>3, <2>1 DEF InitPouchEnv
<1>4. CASE ListContainers
  <2>1. listed' \in Seq(Containers)
    BY <1>4, ListingFacts DEF ListContainers, Present
  <2>2. listedRunning' \subseteq Containers
    BY <1>4 DEF ListContainers, Present
  <2>3. QED BY <1>4, <2>1, <2>2 DEF ListContainers
<1>5. CASE InspectContainer
  <2>1. listed[k] \in Containers
    BY <1>5 DEF InspectContainer
  <2>2. /\ allContainers' \in [Containers -> {"none", "false", "true"}]
        /\ runningContainers' \in Seq(Containers)
    BY <1>5, <2>1 DEF InspectContainer
  <2>3. QED BY <1>5, <2>2 DEF InspectContainer
<1>6. CASE EndOfContainers
  BY <1>6 DEF EndOfContainers
<1>7. CASE PullImage
  <2>1. ImageOf[listed[k]] \in Images
    BY <1>7, ImageAssumption DEF PullImage, LoopInvariant
  <2>2. images' \subseteq Images /\ store' \subseteq Images
    BY <1>7, <2>1 DEF PullImage
  <2>3. QED BY <1>7, <2>2 DEF PullImage
<1>8. CASE RemoveStaleSnapshot
  <2>1. /\ snapshot' \subseteq Containers
        /\ snapUpper' \in [Containers -> SUBSET Files]
    BY <1>8 DEF RemoveStaleSnapshot
  <2>2. QED BY <1>8, <2>1 DEF RemoveStaleSnapshot
<1>9. CASE CreateSnapshot
  <2>1. snapshot' \subseteq Containers
    BY <1>9 DEF CreateSnapshot, LoopInvariant
  <2>2. QED BY <1>9, <2>1 DEF CreateSnapshot
<1>10. CASE SetDirDiskQuota
  <2>1. listed[k] \in Containers
    BY <1>10 DEF SetDirDiskQuota, LoopInvariant
  <2>2. Append(upperDirMappingList, listed[k]) \in Seq(Containers)
    BY <2>1
  <2>3. /\ upperDirMappingList' \in Seq(Containers)
        /\ pc' \in {"open", "off"} /\ k' = k /\ outcome' \in Outcomes
        /\ ctrd' \in {"running", "stopped"}
    BY <1>10, <2>2 DEF SetDirDiskQuota
  <2>4. QED BY <1>10, <2>3 DEF SetDirDiskQuota
<1>11. CASE TruncateMeta
  <2>1. meta' \in [Containers -> {"none", "torn", "saved"}]
    BY <1>11 DEF TruncateMeta
  <2>2. QED BY <1>11, <2>1 DEF TruncateMeta
<1>12. CASE WriteMeta
  <2>1. meta' \in [Containers -> {"none", "torn", "saved"}]
    BY <1>12 DEF WriteMeta
  <2>2. QED BY <1>12, <2>1 DEF WriteMeta
<1>13. CASE PrepareVolumes
  <2>1. volumes' \in BOOLEAN
    BY <1>13 DEF PrepareVolumes
  <2>2. QED BY <1>13, <2>1 DEF PrepareVolumes
<1>14. CASE GenerateSandboxMetaJSON
  <2>1. sandboxes' \in BOOLEAN
    BY <1>14 DEF GenerateSandboxMetaJSON
  <2>2. QED BY <1>14, <2>1 DEF GenerateSandboxMetaJSON
<1>15. CASE MigrateNetworkFile
  <2>1. netdb' \in BOOLEAN
    BY <1>15 DEF MigrateNetworkFile
  <2>2. pc' \in {"stop", "back"} /\ k' = 1
    BY <1>15 DEF MigrateNetworkFile
  <2>3. UNCHANGED <<ctrd, outcome, dockerVars, store, snapshot, snapUpper, meta, homeDir,
                    volumes, sandboxes, pouchVars, down, memory, runs>>
    BY <1>15 DEF MigrateNetworkFile
  <2>4. QED BY <2>1, <2>2, <2>3
<1>16. CASE StopContainer
  <2>1. runningContainers[k] \in Containers
    BY <1>16 DEF StopContainer
  <2>2. /\ cstate' \in [Containers -> {"running", "paused", "exited", "gone"}]
        /\ down' \subseteq Containers
    BY <1>16, <2>1 DEF StopContainer
  <2>3. QED BY <1>16, <2>2 DEF StopContainer
<1>17. CASE EndOfStops
  BY <1>17 DEF EndOfStops
<1>18. CASE MoveUpperDir
  <2> DEFINE c == upperDirMappingList[k]
  <2>1. c \in Containers
    BY <1>18 DEF MoveUpperDir
  <2>2. PICK dir \in Touched(c) : \E r \in MoveDir(dir, Fails("mv")) :
              /\ upper' = [upper EXCEPT ![c] = dir \ r.moved]
              /\ snapUpper' = [snapUpper EXCEPT ![c] = @ \union r.moved]
    BY <1>18 DEF MoveUpperDir
  <2>3. PICK r \in MoveDir(dir, Fails("mv")) :
              /\ upper' = [upper EXCEPT ![c] = dir \ r.moved]
              /\ snapUpper' = [snapUpper EXCEPT ![c] = @ \union r.moved]
    BY <2>2
  <2>4. dir \subseteq Files /\ r.moved \subseteq Files
    BY <2>1, TouchedFacts, MoveFacts
  <2>5. /\ upper' \in [Containers -> SUBSET Files]
        /\ snapUpper' \in [Containers -> SUBSET Files]
    BY <2>1, <2>3, <2>4
  <2>6. QED BY <1>18, <2>5 DEF MoveUpperDir
<1>19. CASE EndOfMoves
  BY <1>19 DEF EndOfMoves
<1>20. CASE KillContainerd
  BY <1>20 DEF KillContainerd
<1>21. CASE MoveBack
  <2> DEFINE c == upperDirMappingList[k]
  <2>1. c \in Containers
    BY <1>21 DEF MoveBack
  <2>2. \/ UNCHANGED <<upper, snapUpper>>
        \/ \E r \in MoveDir(snapUpper[c], Fails("mv")) :
              /\ upper' = [upper EXCEPT ![c] = @ \union r.moved]
              /\ snapUpper' = [snapUpper EXCEPT ![c] = @ \ r.moved]
    BY <1>21 DEF MoveBack
  <2>3. \A r \in MoveDir(snapUpper[c], Fails("mv")) : r.moved \subseteq Files
    BY <2>1, MoveFacts
  <2>4. /\ upper' \in [Containers -> SUBSET Files]
        /\ snapUpper' \in [Containers -> SUBSET Files]
    <3>1. /\ upper \in [Containers -> SUBSET Files]
          /\ snapUpper \in [Containers -> SUBSET Files]
      OBVIOUS
    <3>2. CASE UNCHANGED <<upper, snapUpper>>
      BY <3>1, <3>2
    <3>3. ASSUME NEW r \in MoveDir(snapUpper[c], Fails("mv")),
                 upper' = [upper EXCEPT ![c] = @ \union r.moved],
                 snapUpper' = [snapUpper EXCEPT ![c] = @ \ r.moved]
          PROVE  <2>4
      <4>1. r.moved \subseteq Files
        BY <2>3
      <4>2. QED
        BY <2>1, <3>1, <3>3, <4>1, DirsStayTyped
    <3>4. QED BY <2>2, <3>2, <3>3
  <2>5. QED BY <1>21, <2>4 DEF MoveBack
<1>22. CASE EndOfMovesBack
  BY <1>22 DEF EndOfMovesBack
<1>23. CASE RestartContainer
  <2>1. /\ cstate' \in [Containers -> {"running", "paused", "exited", "gone"}]
        /\ down' \subseteq Containers
    BY <1>23 DEF RestartContainer
  <2>2. QED BY <1>23, <2>1 DEF RestartContainer
<1>24. CASE EndOfRevert
  BY <1>24 DEF EndOfRevert
<1>25. CASE ListAgain
  <2>1. allContainers' \in [Containers -> {"none", "false", "true"}]
    BY <1>25 DEF ListAgain
  <2>2. deletedContainers' \in Seq(Containers)
    BY <1>25, ListingFacts DEF ListAgain
  <2>3. QED BY <1>25, <2>1, <2>2 DEF ListAgain
<1>26. CASE StopDockerService
  BY <1>26 DEF StopDockerService
<1>27. CASE EraseDockerPackage
  BY <1>27 DEF EraseDockerPackage
<1>28. CASE InstallPouchService
  BY <1>28 DEF InstallPouchService
<1>29. CASE RemoveDeleted
  <2>1. /\ pstate' \in [Containers -> {"none", "stopped", "running"}]
        /\ meta' \in [Containers -> {"none", "torn", "saved"}]
        /\ snapshot' \subseteq Containers
        /\ snapUpper' \in [Containers -> SUBSET Files]
    BY <1>29 DEF RemoveDeleted
  <2>2. QED BY <1>29, <2>1 DEF RemoveDeleted
<1>30. CASE EndOfPrune
  BY <1>30 DEF EndOfPrune
<1>31. CASE LaunchContainer
  <2>1. /\ pstate' \in [Containers -> {"none", "stopped", "running"}]
        /\ down' \subseteq Containers
    BY <1>31 DEF LaunchContainer
  <2>2. QED BY <1>31, <2>1 DEF LaunchContainer
<1>32. CASE EndOfLaunch
  BY <1>32 DEF EndOfLaunch
<1>33. CASE Crash
  BY <1>33 DEF Crash
<1>34. CASE HostStep
  <2>1. PICK c \in Containers : Exit(c) \/ Start(c) \/ Pause(c) \/ Remove(c)
    BY <1>34 DEF HostStep
  <2>2. /\ cstate' \in [Containers -> {"running", "paused", "exited", "gone"}]
        /\ upper' \in [Containers -> SUBSET Files]
        /\ down' \subseteq Containers
    BY <2>1 DEF Exit, Start, Pause, Remove
  <2>3. acts' \in 0..MaxActs
    BY <2>1, HostAssumption DEF Exit, Start, Pause, Remove, HostAct
  <2>4. UNCHANGED <<dockerd, legacy, ctrd, pouchData, pouchVars>>
    BY <2>1 DEF Exit, Start, Pause, Remove, HostAct
  <2>5. QED BY <1>34, <2>2, <2>3, <2>4 DEF HostStep
<1>35. QED
  BY <1>1, <1>2, <1>3, <1>4, <1>5, <1>6, <1>7, <1>8, <1>9, <1>10, <1>11, <1>12, <1>13,
     <1>14, <1>15, <1>16, <1>17, <1>18, <1>19, <1>20, <1>21, <1>22, <1>23, <1>24, <1>25,
     <1>26, <1>27, <1>28, <1>29, <1>30, <1>31, <1>32, <1>33, <1>34
  DEF Next, RunCmd, PreMigrate, Migrate, RevertMigration, PostMigrate

(***************************************************************************)
(* Init establishes the invariant: docker has all files, pouch has none.   *)
(***************************************************************************)
LEMMA InitInvariant == Init => IInv
<1>1. SUFFICES ASSUME Init PROVE IInv OBVIOUS
<1>2. TypeOK
  <2>1. HostTypeOK
    <3>1. cstate \in [Containers -> {"running", "paused", "exited", "gone"}]
      BY <1>1, HostAssumption DEF Init, HostInit
    <3>2. legacy \in [Containers -> SUBSET Files]
      BY <1>1 DEF Init, HostInit
    <3>3. acts \in 0..MaxActs
      BY <1>1, HostAssumption DEF Init, HostInit
    <3>4. /\ snapUpper \in [Containers -> SUBSET Files]
          /\ meta \in [Containers -> {"none", "torn", "saved"}]
          /\ pstate \in [Containers -> {"none", "stopped", "running"}]
      BY <1>1 DEF Init, HostInit
    <3>5. QED BY <1>1, <3>1, <3>2, <3>3, <3>4 DEF Init, HostInit, HostTypeOK
  <2>2. /\ allContainers \in [Containers -> {"none", "false", "true"}]
        /\ runs \in 0..MaxRuns
        /\ outcome \in Outcomes
    BY <1>1, RunAssumption DEF Init, Outcomes, SafeOutcomes
  <2>3. <<>> \in Seq(Containers) /\ 1 \in Nat \ {0} /\ FALSE \in BOOLEAN
    OBVIOUS
  <2>4. QED BY <1>1, <2>1, <2>2, <2>3 DEF Init, TypeOK
<1>3. FilesAccounted
  BY <1>1 DEF Init, HostInit, FilesAccounted, NoFileLost, AtRest, AtDocker
<1>4. LoopInvariant
  BY <1>1 DEF Init, LoopInvariant, PreMigrateLoop
<1>5. KnownInvariant /\ MoveInvariant
  BY <1>1 DEF Init, KnownInvariant, MoveInvariant, ReadyPcs, MigratePcs, RevertPcs,
              PostMigratePcs
<1>6. PostInvariant
  BY <1>1 DEF Init, HostInit, PostInvariant, PostMigratePcs, HandoverComplete
<1>7. QED BY <1>2, <1>3, <1>4, <1>5, <1>6 DEF IInv

\* IInv without the types.
Rest == FilesAccounted /\ LoopInvariant /\ KnownInvariant /\ MoveInvariant /\ PostInvariant

(***************************************************************************)
(* PreMigrate works on the pouch side only, and its loop leaves no       *)
(* container unprepared.                                                   *)
(***************************************************************************)
LEMMA PreMigrateStep ==
    ASSUME IInv, PreMigrate
    PROVE  Rest'
<1> USE DEF IInv, TypeOK, HostTypeOK
<1>1. CASE InitPouchEnv
  <2>1. FilesAccounted'
    BY <1>1
    DEF InitPouchEnv, FilesAccounted, NoFileLost, AtRest, AtDocker, PreMigratePcs,
        PreMigrateLoop, SafeOutcomes
  <2>2. LoopInvariant'
    BY <1>1 DEF InitPouchEnv, LoopInvariant, Prepared, PreMigrateLoop
  <2>3. KnownInvariant'
    BY <1>1
    DEF InitPouchEnv, KnownInvariant, ReadyPcs, Mapped, Prepared, MigratePcs, RevertPcs,
        PostMigratePcs
  <2>4. MoveInvariant'
    BY <1>1 DEF InitPouchEnv, MoveInvariant, InPouch, AtDocker, PostMigratePcs
  <2>5. PostInvariant'
    BY <1>1
    DEF InitPouchEnv, PostInvariant, HandoverComplete, Prepared, InPouch, PostMigratePcs
  <2>6. QED BY <2>1, <2>2, <2>3, <2>4, <2>5 DEF Rest
<1>2. CASE ListContainers
  <2>1. FilesAccounted'
    BY <1>2
    DEF ListContainers, FilesAccounted, NoFileLost, AtRest, AtDocker, PreMigratePcs,
        PreMigrateLoop, SafeOutcomes
  <2>2. LoopInvariant'
    <3>1. CASE pc' = "inspect"
      <4>1. listed' \in ListingsOf(Present) /\ k' = 1
        BY <1>2, <3>1 DEF ListContainers
      <4>2. /\ listed' \in Seq(Containers)
            /\ \A c \in Present : \E j \in 1..Len(listed') : listed'[j] = c
        <5>1. Present \subseteq Containers
          BY DEF Present
        <5>2. QED BY <4>1, <5>1, ListingFacts
      <4>3. upperDirMappingList' = <<>> /\ UNCHANGED cstate
        BY <1>2 DEF ListContainers, LoopInvariant
      <4>4. QED BY <3>1, <4>1, <4>2, <4>3 DEF LoopInvariant, PreMigrateLoop, Present
    <3>2. CASE pc' # "inspect"
      BY <1>2, <3>2 DEF ListContainers, LoopInvariant, PreMigrateLoop
    <3>3. QED BY <3>1, <3>2
  <2>3. KnownInvariant'
    <3>1. CASE Present = {}
      <4>1. \A c \in Containers : ~Alive(c)'
        BY <1>2, <3>1 DEF ListContainers, Present
      <4>2. homeDir' /\ pc' \notin {"stop", "move", "kill"} \union PostMigratePcs
        BY <1>2 DEF ListContainers, KnownInvariant, PostMigratePcs
      <4>3. QED BY <4>1, <4>2 DEF KnownInvariant
    <3>2. CASE Present # {}
      <4>1. pc' \in {"inspect", "off"} /\ homeDir'
        BY <1>2, <3>2 DEF ListContainers, KnownInvariant
      <4>2. QED
        BY <4>1 DEF KnownInvariant, ReadyPcs, MigratePcs, RevertPcs, PostMigratePcs
    <3>3. QED BY <3>1, <3>2
  <2>4. MoveInvariant'
    BY <1>2 DEF ListContainers, MoveInvariant, InPouch, AtDocker, PostMigratePcs
  <2>5. PostInvariant'
    BY <1>2
    DEF ListContainers, PostInvariant, HandoverComplete, Prepared, InPouch,
        PostMigratePcs
  <2>6. QED BY <2>1, <2>2, <2>3, <2>4, <2>5 DEF Rest
<1>3. CASE InspectContainer
  <2>1. FilesAccounted'
    BY <1>3
    DEF InspectContainer, FilesAccounted, NoFileLost, AtRest, AtDocker, PreMigratePcs,
        PreMigrateLoop, SafeOutcomes
  <2>2. LoopInvariant'
    <3>1. UNCHANGED <<upperDirMappingList, listed, cstate, snapshot, meta>>
      BY <1>3 DEF InspectContainer
    <3>2. \/ pc' = "off"
          \/ pc' = "pull" /\ k' = k /\ Alive(listed[k])
      BY <1>3 DEF InspectContainer
    <3>3. pc = "inspect" /\ k <= Len(listed)
      BY <1>3 DEF InspectContainer
    <3>4. QED
      BY <3>1, <3>2, <3>3 DEF LoopInvariant, Prepared, PreMigrateLoop
  <2>3. KnownInvariant'
    <3>1. homeDir
      BY <1>3 DEF InspectContainer, KnownInvariant
    <3>2. homeDir' /\ pc' \in {"pull", "off"}
      BY <1>3, <3>1 DEF InspectContainer
    <3>3. pc' \notin ReadyPcs \union {"stop", "move", "kill"} \union PostMigratePcs
      BY <3>2 DEF ReadyPcs, MigratePcs, RevertPcs, PostMigratePcs
    <3>4. QED
      BY <3>2, <3>3 DEF KnownInvariant
  <2>4. MoveInvariant'
    BY <1>3 DEF InspectContainer, MoveInvariant, InPouch, AtDocker, PostMigratePcs
  <2>5. PostInvariant'
    BY <1>3
    DEF InspectContainer, PostInvariant, HandoverComplete, Prepared, InPouch,
        PostMigratePcs
  <2>6. QED BY <2>1, <2>2, <2>3, <2>4, <2>5 DEF Rest
<1>4. CASE EndOfContainers
  <2>1. FilesAccounted'
    BY <1>4
    DEF EndOfContainers, FilesAccounted, NoFileLost, AtRest, AtDocker, PreMigratePcs,
        PreMigrateLoop, SafeOutcomes
  <2>2. LoopInvariant'
    BY <1>4 DEF EndOfContainers, LoopInvariant, Prepared, PreMigrateLoop
  <2>3. KnownInvariant'
    <3>1. /\ k = Len(listed) + 1
          /\ Len(upperDirMappingList) = Len(listed)
          /\ \A j \in 1..Len(listed) : upperDirMappingList[j] = listed[j]
          /\ \A j \in 1..Len(listed) : Prepared(listed[j])
          /\ \A c \in Containers : Alive(c) => \E j \in 1..Len(listed) : listed[j] = c
      BY <1>4 DEF EndOfContainers, LoopInvariant
    <3>2. \A c \in Containers : Alive(c) => Prepared(c) /\ Mapped(c)
      <4>1. SUFFICES ASSUME NEW c \in Containers, Alive(c) PROVE Prepared(c) /\ Mapped(c)
        OBVIOUS
      <4>2. PICK j \in 1..Len(listed) : listed[j] = c
        BY <3>1, <4>1
      <4>3. Prepared(listed[j]) /\ upperDirMappingList[j] = c
        BY <3>1, <4>2
      <4>4. QED BY <3>1, <4>2, <4>3 DEF Mapped
    <3>3. homeDir /\ pc' = "volumes"
      BY <1>4 DEF EndOfContainers, KnownInvariant
    <3>4. QED
      BY <1>4, <3>2, <3>3
      DEF EndOfContainers, KnownInvariant, Prepared, Mapped, PostMigratePcs
  <2>4. MoveInvariant'
    BY <1>4 DEF EndOfContainers, MoveInvariant, InPouch, AtDocker, PostMigratePcs
  <2>5. PostInvariant'
    BY <1>4
    DEF EndOfContainers, PostInvariant, HandoverComplete, Prepared, InPouch,
        PostMigratePcs
  <2>6. QED BY <2>1, <2>2, <2>3, <2>4, <2>5 DEF Rest
<1>5. CASE PullImage
  <2>1. FilesAccounted'
    BY <1>5
    DEF PullImage, FilesAccounted, NoFileLost, AtRest, AtDocker, PreMigratePcs,
        PreMigrateLoop, SafeOutcomes
  <2>2. LoopInvariant'
    BY <1>5 DEF PullImage, LoopInvariant, Prepared, PreMigrateLoop
  <2>3. KnownInvariant'
    BY <1>5
    DEF PullImage, KnownInvariant, ReadyPcs, Mapped, Prepared, MigratePcs, RevertPcs,
        PostMigratePcs
  <2>4. MoveInvariant'
    BY <1>5 DEF PullImage, MoveInvariant, InPouch, AtDocker, PostMigratePcs
  <2>5. PostInvariant'
    BY <1>5
    DEF PullImage, PostInvariant, HandoverComplete, Prepared, InPouch, PostMigratePcs
  <2>6. QED BY <2>1, <2>2, <2>3, <2>4, <2>5 DEF Rest
<1>6. CASE RemoveStaleSnapshot
  <2>1. FilesAccounted'
    BY <1>6
    DEF RemoveStaleSnapshot, FilesAccounted, NoFileLost, AtRest, AtDocker,
        PreMigratePcs, PreMigrateLoop, SafeOutcomes
  <2>2. LoopInvariant'
    BY <1>6 DEF RemoveStaleSnapshot, LoopInvariant, Prepared, PreMigrateLoop
  <2>3. KnownInvariant'
    BY <1>6
    DEF RemoveStaleSnapshot, KnownInvariant, ReadyPcs, Mapped, Prepared, MigratePcs,
        RevertPcs, PostMigratePcs
  <2>4. MoveInvariant'
    BY <1>6 DEF RemoveStaleSnapshot, MoveInvariant, InPouch, AtDocker, PostMigratePcs
  <2>5. PostInvariant'
    BY <1>6
    DEF RemoveStaleSnapshot, PostInvariant, HandoverComplete, Prepared, InPouch,
        PostMigratePcs
  <2>6. QED BY <2>1, <2>2, <2>3, <2>4, <2>5 DEF Rest
<1>7. CASE CreateSnapshot
  <2>1. FilesAccounted'
    BY <1>7
    DEF CreateSnapshot, FilesAccounted, NoFileLost, AtRest, AtDocker, PreMigratePcs,
        PreMigrateLoop, SafeOutcomes
  <2>2. LoopInvariant'
    BY <1>7 DEF CreateSnapshot, LoopInvariant, Prepared, PreMigrateLoop
  <2>3. KnownInvariant'
    BY <1>7
    DEF CreateSnapshot, KnownInvariant, ReadyPcs, Mapped, Prepared, MigratePcs,
        RevertPcs, PostMigratePcs
  <2>4. MoveInvariant'
    BY <1>7 DEF CreateSnapshot, MoveInvariant, InPouch, AtDocker, PostMigratePcs
  <2>5. PostInvariant'
    BY <1>7
    DEF CreateSnapshot, PostInvariant, HandoverComplete, Prepared, InPouch,
        PostMigratePcs
  <2>6. QED BY <2>1, <2>2, <2>3, <2>4, <2>5 DEF Rest
<1>8. CASE SetDirDiskQuota
  <2>1. FilesAccounted'
    BY <1>8
    DEF SetDirDiskQuota, FilesAccounted, NoFileLost, AtRest, AtDocker, PreMigratePcs,
        PreMigrateLoop, SafeOutcomes
  <2>2. LoopInvariant'
    <3>1. /\ k <= Len(listed)
          /\ Len(upperDirMappingList) = k - 1
          /\ listed[k] \in Containers
      BY <1>8 DEF SetDirDiskQuota, LoopInvariant, PreMigrateLoop
    <3>2. CASE pc' = "open"
      <4>1. upperDirMappingList' = Append(upperDirMappingList, listed[k])
        BY <1>8, <3>2 DEF SetDirDiskQuota
      <4>2. /\ Len(upperDirMappingList') = k
            /\ \A j \in 1..k : upperDirMappingList'[j] = listed[j]
        BY <1>8, <3>1, <4>1 DEF SetDirDiskQuota, LoopInvariant, PreMigrateLoop
      <4>3. QED
        BY <1>8, <3>2, <4>2 DEF SetDirDiskQuota, LoopInvariant, Prepared, PreMigrateLoop
    <3>3. CASE pc' # "open"
      BY <1>8, <3>3 DEF SetDirDiskQuota, LoopInvariant, PreMigrateLoop
    <3>4. QED BY <3>2, <3>3
  <2>3. KnownInvariant'
    BY <1>8
    DEF SetDirDiskQuota, KnownInvariant, ReadyPcs, Mapped, Prepared, MigratePcs,
        RevertPcs, PostMigratePcs
  <2>4. MoveInvariant'
    BY <1>8 DEF SetDirDiskQuota, MoveInvariant, InPouch, AtDocker, PostMigratePcs
  <2>5. PostInvariant'
    BY <1>8
    DEF SetDirDiskQuota, PostInvariant, HandoverComplete, Prepared, InPouch,
        PostMigratePcs
  <2>6. QED BY <2>1, <2>2, <2>3, <2>4, <2>5 DEF Rest
<1>9. CASE TruncateMeta
  <2>1. FilesAccounted'
    BY <1>9
    DEF TruncateMeta, FilesAccounted, NoFileLost, AtRest, AtDocker, PreMigratePcs,
        PreMigrateLoop, SafeOutcomes
  <2>2. LoopInvariant'
    BY <1>9 DEF TruncateMeta, LoopInvariant, Prepared, PreMigrateLoop
  <2>3. KnownInvariant'
    BY <1>9
    DEF TruncateMeta, KnownInvariant, ReadyPcs, Mapped, Prepared, MigratePcs, RevertPcs,
        PostMigratePcs
  <2>4. MoveInvariant'
    BY <1>9 DEF TruncateMeta, MoveInvariant, InPouch, AtDocker, PostMigratePcs
  <2>5. PostInvariant'
    BY <1>9
    DEF TruncateMeta, PostInvariant, HandoverComplete, Prepared, InPouch, PostMigratePcs
  <2>6. QED BY <2>1, <2>2, <2>3, <2>4, <2>5 DEF Rest
<1>10. CASE WriteMeta
  <2>1. FilesAccounted'
    BY <1>10
    DEF WriteMeta, FilesAccounted, NoFileLost, AtRest, AtDocker, PreMigratePcs,
        PreMigrateLoop, SafeOutcomes
  <2>2. LoopInvariant'
    BY <1>10 DEF WriteMeta, LoopInvariant, Prepared, PreMigrateLoop
  <2>3. KnownInvariant'
    BY <1>10
    DEF WriteMeta, KnownInvariant, ReadyPcs, Mapped, Prepared, MigratePcs, RevertPcs,
        PostMigratePcs
  <2>4. MoveInvariant'
    BY <1>10 DEF WriteMeta, MoveInvariant, InPouch, AtDocker, PostMigratePcs
  <2>5. PostInvariant'
    BY <1>10
    DEF WriteMeta, PostInvariant, HandoverComplete, Prepared, InPouch, PostMigratePcs
  <2>6. QED BY <2>1, <2>2, <2>3, <2>4, <2>5 DEF Rest
<1>11. CASE PrepareVolumes
  <2>1. FilesAccounted'
    BY <1>11
    DEF PrepareVolumes, FilesAccounted, NoFileLost, AtRest, AtDocker, PreMigratePcs,
        PreMigrateLoop, SafeOutcomes
  <2>2. LoopInvariant'
    BY <1>11 DEF PrepareVolumes, LoopInvariant, Prepared, PreMigrateLoop
  <2>3. KnownInvariant'
    BY <1>11
    DEF PrepareVolumes, KnownInvariant, ReadyPcs, Mapped, Prepared, MigratePcs,
        RevertPcs, PostMigratePcs
  <2>4. MoveInvariant'
    BY <1>11 DEF PrepareVolumes, MoveInvariant, InPouch, AtDocker, PostMigratePcs
  <2>5. PostInvariant'
    BY <1>11
    DEF PrepareVolumes, PostInvariant, HandoverComplete, Prepared, InPouch,
        PostMigratePcs
  <2>6. QED BY <2>1, <2>2, <2>3, <2>4, <2>5 DEF Rest
<1>12. CASE GenerateSandboxMetaJSON
  <2>1. FilesAccounted'
    BY <1>12
    DEF GenerateSandboxMetaJSON, FilesAccounted, NoFileLost, AtRest, AtDocker,
        PreMigratePcs, PreMigrateLoop, SafeOutcomes
  <2>2. LoopInvariant'
    BY <1>12 DEF GenerateSandboxMetaJSON, LoopInvariant, Prepared, PreMigrateLoop
  <2>3. KnownInvariant'
    BY <1>12
    DEF GenerateSandboxMetaJSON, KnownInvariant, ReadyPcs, Mapped, Prepared, MigratePcs,
        RevertPcs, PostMigratePcs
  <2>4. MoveInvariant'
    BY <1>12
    DEF GenerateSandboxMetaJSON, MoveInvariant, InPouch, AtDocker, PostMigratePcs
  <2>5. PostInvariant'
    BY <1>12
    DEF GenerateSandboxMetaJSON, PostInvariant, HandoverComplete, Prepared, InPouch,
        PostMigratePcs
  <2>6. QED BY <2>1, <2>2, <2>3, <2>4, <2>5 DEF Rest
<1>13. QED BY <1>1, <1>2, <1>3, <1>4, <1>5, <1>6, <1>7, <1>8, <1>9, <1>10, <1>11, <1>12
DEF PreMigrate

(***************************************************************************)
(* Migrate moves files only, between the two sides of a container, and      *)
(* ends with every container complete in pouch.                            *)
(***************************************************************************)
LEMMA MigrateStep ==
    ASSUME IInv, Migrate
    PROVE  Rest'
<1> USE DEF IInv, TypeOK, HostTypeOK
<1>1. CASE MigrateNetworkFile
  <2>1. FilesAccounted'
    BY <1>1
    DEF MigrateNetworkFile, FilesAccounted, NoFileLost, AtRest, AtDocker, PreMigratePcs,
        PreMigrateLoop, SafeOutcomes
  <2>2. LoopInvariant'
    BY <1>1 DEF MigrateNetworkFile, LoopInvariant, Prepared, PreMigrateLoop
  <2>3. KnownInvariant'
    <3>1. \/ pc' = "stop" /\ netdb' = TRUE
          \/ pc' = "back"
      BY <1>1 DEF MigrateNetworkFile
    <3>2. homeDir' /\ \A c \in Containers : Alive(c) => Prepared(c) /\ Mapped(c)
      BY <1>1 DEF MigrateNetworkFile, KnownInvariant, ReadyPcs, MigratePcs
    <3>3. UNCHANGED <<cstate, snapshot, meta, upperDirMappingList>>
      BY <1>1 DEF MigrateNetworkFile
    <3>4. QED BY <3>1, <3>2, <3>3 DEF KnownInvariant, Prepared, Mapped, PostMigratePcs
  <2>4. MoveInvariant'
    <3>1. pc' \in {"stop", "back"} /\ k' = 1
      BY <1>1 DEF MigrateNetworkFile
    <3>2. QED BY <3>1 DEF MoveInvariant, PostMigratePcs
  <2>5. PostInvariant'
    BY <1>1
    DEF MigrateNetworkFile, PostInvariant, HandoverComplete, Prepared, InPouch,
        PostMigratePcs
  <2>6. QED BY <2>1, <2>2, <2>3, <2>4, <2>5 DEF Rest
<1>2. CASE StopContainer
  <2>1. FilesAccounted'
    BY <1>2
    DEF StopContainer, FilesAccounted, NoFileLost, AtRest, AtDocker, PreMigratePcs,
        PreMigrateLoop, SafeOutcomes
  <2>2. LoopInvariant'
    BY <1>2 DEF StopContainer, LoopInvariant, Prepared, PreMigrateLoop
  <2>3. KnownInvariant'
    BY <1>2
    DEF StopContainer, KnownInvariant, ReadyPcs, Mapped, Prepared, MigratePcs,
        RevertPcs, PostMigratePcs
  <2>4. MoveInvariant'
    BY <1>2 DEF StopContainer, MoveInvariant, InPouch, AtDocker, PostMigratePcs
  <2>5. PostInvariant'
    BY <1>2
    DEF StopContainer, PostInvariant, HandoverComplete, Prepared, InPouch,
        PostMigratePcs
  <2>6. QED BY <2>1, <2>2, <2>3, <2>4, <2>5 DEF Rest
<1>3. CASE EndOfStops
  <2>1. FilesAccounted'
    BY <1>3
    DEF EndOfStops, FilesAccounted, NoFileLost, AtRest, AtDocker, PreMigratePcs,
        PreMigrateLoop, SafeOutcomes
  <2>2. LoopInvariant'
    BY <1>3 DEF EndOfStops, LoopInvariant, Prepared, PreMigrateLoop
  <2>3. KnownInvariant'
    BY <1>3
    DEF EndOfStops, KnownInvariant, ReadyPcs, Mapped, Prepared, MigratePcs, RevertPcs,
        PostMigratePcs
  <2>4. MoveInvariant'
    BY <1>3 DEF EndOfStops, MoveInvariant, InPouch, AtDocker, PostMigratePcs
  <2>5. PostInvariant'
    BY <1>3
    DEF EndOfStops, PostInvariant, HandoverComplete, Prepared, InPouch, PostMigratePcs
  <2>6. QED BY <2>1, <2>2, <2>3, <2>4, <2>5 DEF Rest
<1>4. CASE MoveUpperDir
  <2> DEFINE c == upperDirMappingList[k]
  <2>a. c \in Containers
    BY <1>4 DEF MoveUpperDir
  <2>b. PICK dir \in Touched(c) : \E r \in MoveDir(dir, Fails("mv")) :
              /\ upper' = [upper EXCEPT ![c] = dir \ r.moved]
              /\ snapUpper' = [snapUpper EXCEPT ![c] = @ \union r.moved]
              /\ IF r.ok THEN Again("move") ELSE FailMigrate
    BY <1>4 DEF MoveUpperDir
  <2>c. PICK r \in MoveDir(dir, Fails("mv")) :
              /\ upper' = [upper EXCEPT ![c] = dir \ r.moved]
              /\ snapUpper' = [snapUpper EXCEPT ![c] = @ \union r.moved]
              /\ IF r.ok THEN Again("move") ELSE FailMigrate
    BY <2>b
  <2>d. /\ upper[c] \subseteq dir
        /\ r.moved \subseteq dir \ Hidden
        /\ r.ok => r.moved = dir \ Hidden
    BY <2>a, TouchedFacts, MoveFacts
  <2>e. UNCHANGED <<cstate, legacy, upperDirMappingList>>
    BY <1>4 DEF MoveUpperDir
  <2>1. FilesAccounted'
    <3>1. pc' \in {"move", "back"}
      BY <2>c
    <3>2. NoFileLost'
      BY <2>a, <2>c, <2>d, <2>e DEF NoFileLost, FilesAccounted
    <3>3. \A d \in Containers : snapUpper'[d] \cap Hidden = {}
      BY <2>a, <2>c, <2>d DEF FilesAccounted
    <3>4. QED
      BY <3>1, <3>2, <3>3 DEF FilesAccounted, AtRest, PreMigratePcs, PreMigrateLoop
  <2>2. LoopInvariant'
    BY <1>4 DEF MoveUpperDir, LoopInvariant, Prepared, PreMigrateLoop
  <2>3. KnownInvariant'
    BY <1>4
    DEF MoveUpperDir, KnownInvariant, ReadyPcs, Mapped, Prepared, MigratePcs, RevertPcs,
        PostMigratePcs
  <2>4. MoveInvariant'
    <3>1. CASE r.ok
      <4>1. pc' = "move" /\ k' = k + 1
        BY <2>c, <3>1
      <4>2. Alive(c) => legacy[c] \ Hidden \subseteq snapUpper'[c]
        BY <2>a, <2>c, <2>d, <3>1 DEF FilesAccounted, NoFileLost
      <4>3. \A d \in Containers : snapUpper[d] \subseteq snapUpper'[d]
        BY <2>a, <2>c
      <4>4. ASSUME NEW j \in 1..Len(upperDirMappingList), j < k + 1,
                   Alive(upperDirMappingList[j])
            PROVE  Glob(legacy[upperDirMappingList[j]])
                       \subseteq snapUpper'[upperDirMappingList[j]]
        <5>1. CASE j = k
          BY <4>2, <4>4, <5>1 DEF Glob
        <5>2. CASE j < k
          BY <1>4, <4>3, <4>4, <5>2 DEF MoveUpperDir, MoveInvariant, InPouch
        <5>3. QED BY <4>4, <5>1, <5>2
      <4>5. QED BY <2>e, <4>1, <4>4 DEF MoveInvariant, InPouch, PostMigratePcs
    <3>2. CASE ~r.ok
      <4>1. pc' = "back" /\ k' = 1
        BY <2>c, <3>2
      <4>2. QED BY <4>1 DEF MoveInvariant, PostMigratePcs
    <3>3. QED BY <3>1, <3>2
  <2>5. PostInvariant'
    BY <1>4
    DEF MoveUpperDir, PostInvariant, HandoverComplete, Prepared, InPouch, PostMigratePcs
  <2>6. QED BY <2>1, <2>2, <2>3, <2>4, <2>5 DEF Rest
<1>5. CASE EndOfMoves
  <2>1. FilesAccounted'
    BY <1>5
    DEF EndOfMoves, FilesAccounted, NoFileLost, AtRest, AtDocker, PreMigratePcs,
        PreMigrateLoop, SafeOutcomes
  <2>2. LoopInvariant'
    BY <1>5 DEF EndOfMoves, LoopInvariant, Prepared, PreMigrateLoop
  <2>3. KnownInvariant'
    BY <1>5
    DEF EndOfMoves, KnownInvariant, ReadyPcs, Mapped, Prepared, MigratePcs, RevertPcs,
        PostMigratePcs
  <2>4. MoveInvariant'
    <3>1. \A c \in Containers : Alive(c) => Mapped(c)
      BY <1>5 DEF EndOfMoves, KnownInvariant, ReadyPcs, MigratePcs
    <3>2. \A c \in Containers : Alive(c) => InPouch(c)
      <4>1. k > Len(upperDirMappingList) /\ pc = "move"
        BY <1>5 DEF EndOfMoves
      <4>2. \A j \in 1..Len(upperDirMappingList) :
                Alive(upperDirMappingList[j]) => InPouch(upperDirMappingList[j])
        BY <4>1 DEF MoveInvariant
      <4>3. QED BY <3>1, <4>2 DEF Mapped
    <3>3. pc' = "kill" /\ UNCHANGED <<cstate, legacy, snapUpper>>
      BY <1>5 DEF EndOfMoves
    <3>4. QED BY <3>2, <3>3 DEF MoveInvariant, InPouch
  <2>5. PostInvariant'
    BY <1>5
    DEF EndOfMoves, PostInvariant, HandoverComplete, Prepared, InPouch, PostMigratePcs
  <2>6. QED BY <2>1, <2>2, <2>3, <2>4, <2>5 DEF Rest
<1>6. CASE KillContainerd
  <2>1. FilesAccounted'
    BY <1>6
    DEF KillContainerd, FilesAccounted, NoFileLost, AtRest, AtDocker, PreMigratePcs,
        PreMigrateLoop, SafeOutcomes
  <2>2. LoopInvariant'
    BY <1>6 DEF KillContainerd, LoopInvariant, Prepared, PreMigrateLoop
  <2>3. KnownInvariant'
    BY <1>6
    DEF KillContainerd, KnownInvariant, ReadyPcs, Mapped, Prepared, MigratePcs,
        RevertPcs, PostMigratePcs
  <2>4. MoveInvariant'
    BY <1>6 DEF KillContainerd, MoveInvariant, InPouch, AtDocker, PostMigratePcs
  <2>5. PostInvariant'
    BY <1>6
    DEF KillContainerd, PostInvariant, HandoverComplete, Prepared, InPouch,
        PostMigratePcs
  <2>6. QED BY <2>1, <2>2, <2>3, <2>4, <2>5 DEF Rest
<1>7. QED BY <1>1, <1>2, <1>3, <1>4, <1>5, <1>6 DEF Migrate

(***************************************************************************)
(* RevertMigration moves files only, and starts no container before every  *)
(* file is back.                                                           *)
(***************************************************************************)
LEMMA RevertMigrationStep ==
    ASSUME IInv, RevertMigration
    PROVE  Rest'
<1> USE DEF IInv, TypeOK, HostTypeOK
<1>1. CASE MoveBack
  <2> DEFINE c == upperDirMappingList[k]
  <2>a. c \in Containers
    BY <1>1 DEF MoveBack
  <2>b. \/ /\ UNCHANGED <<upper, snapUpper>>
           /\ pc' = "off" /\ outcome' = "revertFailed"
        \/ \E r \in MoveDir(snapUpper[c], Fails("mv")) :
              /\ upper' = [upper EXCEPT ![c] = @ \union r.moved]
              /\ snapUpper' = [snapUpper EXCEPT ![c] = @ \ r.moved]
              /\ IF r.ok THEN Again("back") ELSE Leave("revertFailed")
    BY <1>1 DEF MoveBack
  <2>c. \A r \in MoveDir(snapUpper[c], Fails("mv")) :
            /\ r.moved \subseteq snapUpper[c]
            /\ r.ok \in BOOLEAN
            /\ r.ok => r.moved = snapUpper[c] \ Hidden
    BY MoveFacts
  <2>d. UNCHANGED <<cstate, legacy, upperDirMappingList>>
    BY <1>1 DEF MoveBack
  <2>1. FilesAccounted'
    <3>1. pc' = "back" \/ (pc' = "off" /\ outcome' = "revertFailed")
      BY <2>b, <2>c
    <3>2. NoFileLost'
      <4>1. CASE UNCHANGED <<upper, snapUpper>>
        BY <2>d, <4>1 DEF NoFileLost, FilesAccounted
      <4>2. CASE \E moved : /\ upper' = [upper EXCEPT ![c] = @ \union moved]
                            /\ snapUpper' = [snapUpper EXCEPT ![c] = @ \ moved]
        <5>1. PICK moved : /\ upper' = [upper EXCEPT ![c] = @ \union moved]
                           /\ snapUpper' = [snapUpper EXCEPT ![c] = @ \ moved]
          BY <4>2
        <5>2. \A d \in Containers :
                  upper[d] \union snapUpper[d] \subseteq upper'[d] \union snapUpper'[d]
          BY <5>1
        <5>3. QED BY <2>d, <5>2 DEF NoFileLost, FilesAccounted
      <4>3. QED BY <2>b, <4>1, <4>2, Zenon
    <3>3. \A d \in Containers : snapUpper'[d] \cap Hidden = {}
      <4>1. \A d \in Containers : snapUpper'[d] \subseteq snapUpper[d]
        <5>1. CASE UNCHANGED <<upper, snapUpper>>
          BY <5>1
        <5>2. CASE \E moved : snapUpper' = [snapUpper EXCEPT ![c] = @ \ moved]
          BY <2>a, <5>2
        <5>3. QED BY <2>b, <5>1, <5>2, Zenon
      <4>2. QED BY <4>1 DEF FilesAccounted
    <3>4. QED
      BY <3>1, <3>2, <3>3
      DEF FilesAccounted, AtRest, PreMigratePcs, PreMigrateLoop, SafeOutcomes
  <2>2. LoopInvariant'
    BY <1>1 DEF MoveBack, LoopInvariant, Prepared, PreMigrateLoop
  <2>3. KnownInvariant'
    BY <1>1
    DEF MoveBack, KnownInvariant, ReadyPcs, Mapped, Prepared, MigratePcs, RevertPcs,
        PostMigratePcs
  <2>4. MoveInvariant'
    <3>1. CASE pc' = "off"
      BY <3>1 DEF MoveInvariant, PostMigratePcs
    <3>2. CASE pc' # "off"
      <4>1. PICK r \in MoveDir(snapUpper[c], Fails("mv")) :
              /\ upper' = [upper EXCEPT ![c] = @ \union r.moved]
              /\ r.ok
              /\ pc' = "back" /\ k' = k + 1
        BY <2>b, <2>c, <3>2
      <4>2. r.moved = snapUpper[c]
        BY <2>a, <2>c, <4>1 DEF FilesAccounted
      <4>3. Alive(c) => legacy[c] \subseteq upper'[c]
        BY <2>a, <4>1, <4>2 DEF FilesAccounted, NoFileLost
      <4>4. \A d \in Containers : upper[d] \subseteq upper'[d]
        BY <2>a, <4>1
      <4>5. ASSUME NEW j \in 1..Len(upperDirMappingList), j < k + 1,
                   Alive(upperDirMappingList[j])
            PROVE  legacy[upperDirMappingList[j]] \subseteq upper'[upperDirMappingList[j]]
        <5>1. CASE j = k
          BY <4>3, <4>5, <5>1
        <5>2. CASE j < k
          BY <1>1, <4>4, <4>5, <5>2 DEF MoveBack, MoveInvariant, AtDocker
        <5>3. QED BY <4>5, <5>1, <5>2
      <4>6. QED BY <2>d, <4>1, <4>5 DEF MoveInvariant, AtDocker, PostMigratePcs
    <3>3. QED BY <3>1, <3>2
  <2>5. PostInvariant'
    BY <1>1
    DEF MoveBack, PostInvariant, HandoverComplete, Prepared, InPouch, PostMigratePcs
  <2>6. QED BY <2>1, <2>2, <2>3, <2>4, <2>5 DEF Rest
<1>2. CASE EndOfMovesBack
  <2>1. FilesAccounted'
    <3>1. \A c \in Containers : Alive(c) => Mapped(c)
      BY <1>2 DEF EndOfMovesBack, KnownInvariant, ReadyPcs, RevertPcs
    <3>2. \A c \in Containers : Alive(c) => AtDocker(c)
      BY <1>2, <3>1 DEF EndOfMovesBack, MoveInvariant, Mapped, AtDocker
    <3>3. UNCHANGED <<cstate, legacy, upper, snapUpper>>
      BY <1>2 DEF EndOfMovesBack
    <3>4. QED BY <3>2, <3>3 DEF FilesAccounted, NoFileLost, AtDocker
  <2>2. LoopInvariant'
    BY <1>2 DEF EndOfMovesBack, LoopInvariant, Prepared, PreMigrateLoop
  <2>3. KnownInvariant'
    BY <1>2
    DEF EndOfMovesBack, KnownInvariant, ReadyPcs, Mapped, Prepared, MigratePcs,
        RevertPcs, PostMigratePcs
  <2>4. MoveInvariant'
    BY <1>2 DEF EndOfMovesBack, MoveInvariant, InPouch, AtDocker, PostMigratePcs
  <2>5. PostInvariant'
    BY <1>2
    DEF EndOfMovesBack, PostInvariant, HandoverComplete, Prepared, InPouch,
        PostMigratePcs
  <2>6. QED BY <2>1, <2>2, <2>3, <2>4, <2>5 DEF Rest
<1>3. CASE RestartContainer
  <2>1. FilesAccounted'
    BY <1>3
    DEF RestartContainer, FilesAccounted, NoFileLost, AtRest, AtDocker, PreMigratePcs,
        PreMigrateLoop, SafeOutcomes
  <2>2. LoopInvariant'
    BY <1>3 DEF RestartContainer, LoopInvariant, Prepared, PreMigrateLoop
  <2>3. KnownInvariant'
    BY <1>3
    DEF RestartContainer, KnownInvariant, ReadyPcs, Mapped, Prepared, MigratePcs,
        RevertPcs, PostMigratePcs
  <2>4. MoveInvariant'
    BY <1>3 DEF RestartContainer, MoveInvariant, InPouch, AtDocker, PostMigratePcs
  <2>5. PostInvariant'
    BY <1>3
    DEF RestartContainer, PostInvariant, HandoverComplete, Prepared, InPouch,
        PostMigratePcs
  <2>6. QED BY <2>1, <2>2, <2>3, <2>4, <2>5 DEF Rest
<1>4. CASE EndOfRevert
  <2>1. FilesAccounted'
    BY <1>4
    DEF EndOfRevert, FilesAccounted, NoFileLost, AtRest, AtDocker, PreMigratePcs,
        PreMigrateLoop, SafeOutcomes
  <2>2. LoopInvariant'
    BY <1>4 DEF EndOfRevert, LoopInvariant, Prepared, PreMigrateLoop
  <2>3. KnownInvariant'
    BY <1>4
    DEF EndOfRevert, KnownInvariant, ReadyPcs, Mapped, Prepared, MigratePcs, RevertPcs,
        PostMigratePcs
  <2>4. MoveInvariant'
    BY <1>4 DEF EndOfRevert, MoveInvariant, InPouch, AtDocker, PostMigratePcs
  <2>5. PostInvariant'
    BY <1>4
    DEF EndOfRevert, PostInvariant, HandoverComplete, Prepared, InPouch, PostMigratePcs
  <2>6. QED BY <2>1, <2>2, <2>3, <2>4, <2>5 DEF Rest
<1>5. QED BY <1>1, <1>2, <1>3, <1>4 DEF RevertMigration

(***************************************************************************)
(* PostMigrate moves no file, and what it prunes docker no longer has.     *)
(***************************************************************************)
LEMMA PostMigrateStep ==
    ASSUME IInv, PostMigrate
    PROVE  Rest'
<1> USE DEF IInv, TypeOK, HostTypeOK
<1>1. CASE ListAgain
  <2>1. FilesAccounted'
    BY <1>1
    DEF ListAgain, FilesAccounted, NoFileLost, AtRest, AtDocker, PreMigratePcs,
        PreMigrateLoop, SafeOutcomes
  <2>2. LoopInvariant'
    BY <1>1 DEF ListAgain, LoopInvariant, Prepared, PreMigrateLoop
  <2>3. KnownInvariant'
    BY <1>1
    DEF ListAgain, KnownInvariant, ReadyPcs, Mapped, Prepared, MigratePcs, RevertPcs,
        PostMigratePcs
  <2>4. MoveInvariant'
    BY <1>1 DEF ListAgain, MoveInvariant, InPouch, AtDocker, PostMigratePcs
  <2>5. PostInvariant'
    <3>1. pc' = "uninstall" =>
              \A j \in 1..Len(deletedContainers') : ~Alive(deletedContainers'[j])
      <4>1. SUFFICES ASSUME pc' = "uninstall", NEW j \in 1..Len(deletedContainers')
                     PROVE  ~Alive(deletedContainers'[j])
        OBVIOUS
      <4>2. deletedContainers' \in
                ListingsOf({c \in Containers : allContainers'[c] = "false"})
        BY <1>1, <4>1 DEF ListAgain
      <4>3. deletedContainers'[j] \in {c \in Containers : allContainers'[c] = "false"}
        BY <4>1, <4>2, ListingFacts
      <4>4. QED BY <1>1, <4>1, <4>3 DEF ListAgain
    <3>2. pc' \in {"off", "uninstall"} /\ UNCHANGED <<cstate, dockerd>>
      BY <1>1 DEF ListAgain
    <3>3. dockerd = "up" /\ dockerd' = "up"
      BY <1>1, <3>2 DEF ListAgain, PostInvariant
    <3>4. QED BY <3>1, <3>2, <3>3 DEF PostInvariant, HandoverComplete, PostMigratePcs
  <2>6. QED BY <2>1, <2>2, <2>3, <2>4, <2>5 DEF Rest
<1>2. CASE StopDockerService
  <2>1. FilesAccounted'
    BY <1>2
    DEF StopDockerService, FilesAccounted, NoFileLost, AtRest, AtDocker, PreMigratePcs,
        PreMigrateLoop, SafeOutcomes
  <2>2. LoopInvariant'
    BY <1>2 DEF StopDockerService, LoopInvariant, Prepared, PreMigrateLoop
  <2>3. KnownInvariant'
    BY <1>2
    DEF StopDockerService, KnownInvariant, ReadyPcs, Mapped, Prepared, MigratePcs,
        RevertPcs, PostMigratePcs
  <2>4. MoveInvariant'
    BY <1>2 DEF StopDockerService, MoveInvariant, InPouch, AtDocker, PostMigratePcs
  <2>5. PostInvariant'
    <3>1. \A c \in Containers : Alive(c)' <=> Alive(c)
      BY <1>2 DEF StopDockerService
    <3>2. /\ netdb /\ homeDir
          /\ \A c \in Containers : Alive(c) => Prepared(c) /\ InPouch(c)
      BY <1>2
      DEF StopDockerService, KnownInvariant, MoveInvariant, ReadyPcs, PostMigratePcs
    <3>3. HandoverComplete'
      BY <1>2, <3>1, <3>2 DEF StopDockerService, HandoverComplete, Prepared, InPouch
    <3>4. pc' \in {"erase", "off"} /\ UNCHANGED deletedContainers
      BY <1>2 DEF StopDockerService
    <3>5. /\ dockerd = "up"
          /\ \A j \in 1..Len(deletedContainers) : ~Alive(deletedContainers[j])
      BY <1>2 DEF StopDockerService, PostInvariant, PostMigratePcs
    <3>6. QED BY <3>1, <3>3, <3>4, <3>5 DEF PostInvariant, PostMigratePcs
  <2>6. QED BY <2>1, <2>2, <2>3, <2>4, <2>5 DEF Rest
<1>3. CASE EraseDockerPackage
  <2>1. FilesAccounted'
    BY <1>3
    DEF EraseDockerPackage, FilesAccounted, NoFileLost, AtRest, AtDocker, PreMigratePcs,
        PreMigrateLoop, SafeOutcomes
  <2>2. LoopInvariant'
    BY <1>3 DEF EraseDockerPackage, LoopInvariant, Prepared, PreMigrateLoop
  <2>3. KnownInvariant'
    BY <1>3
    DEF EraseDockerPackage, KnownInvariant, ReadyPcs, Mapped, Prepared, MigratePcs,
        RevertPcs, PostMigratePcs
  <2>4. MoveInvariant'
    BY <1>3 DEF EraseDockerPackage, MoveInvariant, InPouch, AtDocker, PostMigratePcs
  <2>5. PostInvariant'
    <3>1. /\ netdb /\ homeDir
          /\ \A c \in Containers : Alive(c) => Prepared(c) /\ InPouch(c)
      BY <1>3
      DEF EraseDockerPackage, KnownInvariant, MoveInvariant, ReadyPcs, PostMigratePcs
    <3>2. HandoverComplete'
      BY <1>3, <3>1 DEF EraseDockerPackage, HandoverComplete, Prepared, InPouch
    <3>3. QED BY <1>3, <3>2 DEF EraseDockerPackage, PostInvariant, PostMigratePcs
  <2>6. QED BY <2>1, <2>2, <2>3, <2>4, <2>5 DEF Rest
<1>4. CASE InstallPouchService
  <2>1. FilesAccounted'
    BY <1>4
    DEF InstallPouchService, FilesAccounted, NoFileLost, AtRest, AtDocker,
        PreMigratePcs, PreMigrateLoop, SafeOutcomes
  <2>2. LoopInvariant'
    BY <1>4 DEF InstallPouchService, LoopInvariant, Prepared, PreMigrateLoop
  <2>3. KnownInvariant'
    BY <1>4
    DEF InstallPouchService, KnownInvariant, ReadyPcs, Mapped, Prepared, MigratePcs,
        RevertPcs, PostMigratePcs
  <2>4. MoveInvariant'
    BY <1>4 DEF InstallPouchService, MoveInvariant, InPouch, AtDocker, PostMigratePcs
  <2>5. PostInvariant'
    BY <1>4
    DEF InstallPouchService, PostInvariant, HandoverComplete, Prepared, InPouch,
        PostMigratePcs
  <2>6. QED BY <2>1, <2>2, <2>3, <2>4, <2>5 DEF Rest
<1>5. CASE RemoveDeleted
  <2> DEFINE c == deletedContainers[k]
  <2>a. c \in Containers /\ ~Alive(c)
    BY <1>5 DEF RemoveDeleted, PostInvariant, PostMigratePcs
  <2>b. /\ \A d \in Containers \ {c} :
              /\ snapUpper'[d] = snapUpper[d]
              /\ Prepared(d) => Prepared(d)'
        /\ snapUpper'[c] \in {snapUpper[c], {}}
    BY <1>5, <2>a DEF RemoveDeleted, Prepared
  <2>c. /\ pc' \in {"prune", "off"}
        /\ pc' = "off" => outcome' = "postFailed"
        /\ UNCHANGED <<cstate, upper, legacy, dockerd, homeDir, netdb, upperDirMappingList,
                       deletedContainers>>
    BY <1>5 DEF RemoveDeleted
  <2>d. /\ homeDir /\ netdb
        /\ \A d \in Containers : Alive(d) => Prepared(d) /\ Mapped(d) /\ InPouch(d)
    BY <1>5 DEF RemoveDeleted, KnownInvariant, MoveInvariant, ReadyPcs, PostMigratePcs
  <2>1. FilesAccounted'
    <3>1. NoFileLost'
      BY <2>a, <2>b, <2>c DEF FilesAccounted, NoFileLost
    <3>2. \A d \in Containers : snapUpper'[d] \cap Hidden = {}
      BY <2>a, <2>b DEF FilesAccounted
    <3>3. ~AtRest'
      BY <2>c DEF AtRest, PreMigratePcs, PreMigrateLoop, SafeOutcomes
    <3>4. QED BY <3>1, <3>2, <3>3 DEF FilesAccounted
  <2>2. LoopInvariant'
    BY <1>5 DEF RemoveDeleted, LoopInvariant, Prepared, PreMigrateLoop
  <2>3. KnownInvariant'
    BY <2>a, <2>b, <2>c, <2>d DEF KnownInvariant, Mapped
  <2>4. MoveInvariant'
    BY <2>a, <2>b, <2>c, <2>d DEF MoveInvariant, InPouch
  <2>5. PostInvariant'
    BY <1>5, <2>a, <2>b, <2>c, <2>d
    DEF RemoveDeleted, PostInvariant, HandoverComplete, InPouch, PostMigratePcs
  <2>6. QED BY <2>1, <2>2, <2>3, <2>4, <2>5 DEF Rest
<1>6. CASE EndOfPrune
  <2>1. FilesAccounted'
    BY <1>6
    DEF EndOfPrune, FilesAccounted, NoFileLost, AtRest, AtDocker, PreMigratePcs,
        PreMigrateLoop, SafeOutcomes
  <2>2. LoopInvariant'
    BY <1>6 DEF EndOfPrune, LoopInvariant, Prepared, PreMigrateLoop
  <2>3. KnownInvariant'
    BY <1>6
    DEF EndOfPrune, KnownInvariant, ReadyPcs, Mapped, Prepared, MigratePcs, RevertPcs,
        PostMigratePcs
  <2>4. MoveInvariant'
    BY <1>6 DEF EndOfPrune, MoveInvariant, InPouch, AtDocker, PostMigratePcs
  <2>5. PostInvariant'
    BY <1>6
    DEF EndOfPrune, PostInvariant, HandoverComplete, Prepared, InPouch, PostMigratePcs
  <2>6. QED BY <2>1, <2>2, <2>3, <2>4, <2>5 DEF Rest
<1>7. CASE LaunchContainer
  <2>1. FilesAccounted'
    BY <1>7
    DEF LaunchContainer, FilesAccounted, NoFileLost, AtRest, AtDocker, PreMigratePcs,
        PreMigrateLoop, SafeOutcomes
  <2>2. LoopInvariant'
    BY <1>7 DEF LaunchContainer, LoopInvariant, Prepared, PreMigrateLoop
  <2>3. KnownInvariant'
    BY <1>7
    DEF LaunchContainer, KnownInvariant, ReadyPcs, Mapped, Prepared, MigratePcs,
        RevertPcs, PostMigratePcs
  <2>4. MoveInvariant'
    BY <1>7 DEF LaunchContainer, MoveInvariant, InPouch, AtDocker, PostMigratePcs
  <2>5. PostInvariant'
    BY <1>7
    DEF LaunchContainer, PostInvariant, HandoverComplete, Prepared, InPouch,
        PostMigratePcs
  <2>6. QED BY <2>1, <2>2, <2>3, <2>4, <2>5 DEF Rest
<1>8. CASE EndOfLaunch
  <2>1. FilesAccounted'
    BY <1>8
    DEF EndOfLaunch, FilesAccounted, NoFileLost, AtRest, AtDocker, PreMigratePcs,
        PreMigrateLoop, SafeOutcomes
  <2>2. LoopInvariant'
    BY <1>8 DEF EndOfLaunch, LoopInvariant, Prepared, PreMigrateLoop
  <2>3. KnownInvariant'
    BY <1>8
    DEF EndOfLaunch, KnownInvariant, ReadyPcs, Mapped, Prepared, MigratePcs, RevertPcs,
        PostMigratePcs
  <2>4. MoveInvariant'
    BY <1>8 DEF EndOfLaunch, MoveInvariant, InPouch, AtDocker, PostMigratePcs
  <2>5. PostInvariant'
    BY <1>8
    DEF EndOfLaunch, PostInvariant, HandoverComplete, Prepared, InPouch, PostMigratePcs
  <2>6. QED BY <2>1, <2>2, <2>3, <2>4, <2>5 DEF Rest
<1>9. QED BY <1>1, <1>2, <1>3, <1>4, <1>5, <1>6, <1>7, <1>8 DEF PostMigrate

(***************************************************************************)
(* The start of a run, its death, and what happens on the host.            *)
(***************************************************************************)
LEMMA OtherStep ==
    ASSUME RerunAfter \subseteq SafeOutcomes, IInv, StartRun \/ Crash \/ HostStep
    PROVE  Rest'
<1> USE DEF IInv, TypeOK, HostTypeOK
<1>1. CASE StartRun
  <2>1. FilesAccounted'
    <3>1. AtRest
      BY <1>1 DEF StartRun, AtRest, SafeOutcomes
    <3>2. UNCHANGED <<cstate, legacy, upper, snapUpper>>
      BY <1>1 DEF StartRun
    <3>3. QED BY <3>1, <3>2 DEF FilesAccounted, NoFileLost, AtDocker
  <2>2. LoopInvariant'
    BY <1>1 DEF StartRun, LoopInvariant, Prepared, PreMigrateLoop
  <2>3. KnownInvariant'
    BY <1>1
    DEF StartRun, KnownInvariant, ReadyPcs, Mapped, Prepared, MigratePcs, RevertPcs,
        PostMigratePcs
  <2>4. MoveInvariant'
    BY <1>1 DEF StartRun, MoveInvariant, InPouch, AtDocker, PostMigratePcs
  <2>5. PostInvariant'
    BY <1>1
    DEF StartRun, PostInvariant, HandoverComplete, Prepared, InPouch, PostMigratePcs
  <2>6. QED BY <2>1, <2>2, <2>3, <2>4, <2>5 DEF Rest
<1>2. CASE Crash
  <2>1. FilesAccounted'
    BY <1>2
    DEF Crash, FilesAccounted, NoFileLost, AtRest, AtDocker, PreMigratePcs,
        PreMigrateLoop, SafeOutcomes
  <2>2. LoopInvariant'
    BY <1>2 DEF Crash, LoopInvariant, Prepared, PreMigrateLoop
  <2>3. KnownInvariant'
    BY <1>2
    DEF Crash, KnownInvariant, ReadyPcs, Mapped, Prepared, MigratePcs, RevertPcs,
        PostMigratePcs
  <2>4. MoveInvariant'
    BY <1>2 DEF Crash, MoveInvariant, InPouch, AtDocker, PostMigratePcs
  <2>5. PostInvariant'
    BY <1>2
    DEF Crash, PostInvariant, HandoverComplete, Prepared, InPouch, PostMigratePcs
  <2>6. QED BY <2>1, <2>2, <2>3, <2>4, <2>5 DEF Rest
<1>3. CASE HostStep
  <2>a. /\ UNCHANGED <<legacy, dockerd, snapshot, snapUpper, meta, homeDir, netdb>>
        /\ UNCHANGED <<pc, k, listed, upperDirMappingList, deletedContainers, outcome>>
    BY <1>3 DEF HostStep, Exit, Start, Pause, Remove, HostAct
  <2>b. \A d \in Containers : Alive(d)' => Alive(d) /\ upper'[d] = upper[d]
    BY <1>3 DEF HostStep, Exit, Start, Pause, Remove
  <2>1. FilesAccounted'
    BY <2>a, <2>b DEF FilesAccounted, NoFileLost, AtRest, AtDocker
  <2>2. LoopInvariant'
    BY <2>a, <2>b DEF LoopInvariant, Prepared
  <2>3. KnownInvariant'
    BY <2>a, <2>b DEF KnownInvariant, Prepared, Mapped
  <2>4. MoveInvariant'
    <3>1. \A j \in 1..Len(upperDirMappingList) : upperDirMappingList[j] \in Containers
      OBVIOUS
    <3>2. QED BY <2>a, <2>b, <3>1 DEF MoveInvariant, InPouch, AtDocker
  <2>5. PostInvariant'
    <3>1. \A j \in 1..Len(deletedContainers) : deletedContainers[j] \in Containers
      OBVIOUS
    <3>2. QED BY <2>a, <2>b, <3>1 DEF PostInvariant, HandoverComplete, Prepared, InPouch
  <2>6. QED BY <2>1, <2>2, <2>3, <2>4, <2>5 DEF Rest
<1>4. QED BY <1>1, <1>2, <1>3

-----------------------------------------------------------------------------
(* The theorems. *)

(***************************************************************************)
(* Every step of the system keeps the invariant, if the tool is never      *)
(* started again after an outcome that left files in the snapshots.        *)
(***************************************************************************)
LEMMA Inductive ==
    ASSUME RerunAfter \subseteq SafeOutcomes
    PROVE  IInv /\ [Next]_vars => IInv'
<1>1. SUFFICES ASSUME IInv, [Next]_vars PROVE IInv'
  OBVIOUS
<1>2. TypeOK'
  BY <1>1, TypeStep
<1>3. Rest'
  <2>1. CASE UNCHANGED vars
    <3>1. FilesAccounted'
      BY <1>1, <2>1 DEF IInv, vars, FilesAccounted, NoFileLost, AtRest, AtDocker
    <3>2. LoopInvariant'
      BY <1>1, <2>1 DEF IInv, vars, LoopInvariant, Prepared
    <3>3. KnownInvariant'
      BY <1>1, <2>1 DEF IInv, vars, KnownInvariant, Prepared, Mapped
    <3>4. MoveInvariant'
      BY <1>1, <2>1 DEF IInv, vars, MoveInvariant, InPouch, AtDocker
    <3>5. PostInvariant'
      BY <1>1, <2>1
      DEF IInv, vars, PostInvariant, HandoverComplete, Prepared, InPouch
    <3>6. QED BY <3>1, <3>2, <3>3, <3>4, <3>5 DEF Rest
  <2>2. CASE Next
    BY <1>1, <2>2, PreMigrateStep, MigrateStep, RevertMigrationStep, PostMigrateStep,
       OtherStep
    DEF Next, RunCmd
  <2>3. QED BY <1>1, <2>1, <2>2
<1>4. QED BY <1>2, <1>3 DEF IInv, Rest

(***************************************************************************)
(* IInv holds throughout, for any containers, images, files, failing calls *)
(* and acts of users, if the tool is started again after safe outcomes     *)
(* only.                                                                   *)
(***************************************************************************)
THEOREM InvariantHolds ==
    ASSUME RerunAfter \subseteq SafeOutcomes
    PROVE  Spec => []IInv
  BY InitInvariant, Inductive, PTL DEF Spec

(***************************************************************************)
(* Every variable keeps its type.                                          *)
(***************************************************************************)
THEOREM TypeCorrect ==
    ASSUME RerunAfter \subseteq SafeOutcomes
    PROVE  Spec => []TypeOK
<1>1. IInv => TypeOK
  BY DEF IInv
<1>2. QED BY <1>1, InvariantHolds, PTL

(***************************************************************************)
(* PostMigrate never stops docker before every remaining container is      *)
(* complete on the pouch side.                                             *)
(***************************************************************************)
THEOREM HandoverIsComplete ==
    ASSUME RerunAfter \subseteq SafeOutcomes
    PROVE  Spec => []HandoverComplete
<1>1. IInv => HandoverComplete
  BY DEF IInv, PostInvariant
<1>2. QED BY <1>1, InvariantHolds, PTL

(***************************************************************************)
(* No run destroys an entry of an upper directory, not even by deleting    *)
(* the snapshot an earlier run has left.                                   *)
(***************************************************************************)
THEOREM FilesAreKept ==
    ASSUME RerunAfter \subseteq SafeOutcomes
    PROVE  Spec => []NoFileLost
<1>1. IInv => NoFileLost
  BY DEF IInv, FilesAccounted
<1>2. QED BY <1>1, InvariantHolds, PTL

(***************************************************************************)
(* A successful RevertMigration has brought every file back to docker.     *)
(***************************************************************************)
THEOREM RevertIsComplete ==
    ASSUME RerunAfter \subseteq SafeOutcomes
    PROVE  Spec => []RevertRestores
<1>1. IInv => RevertRestores
  BY DEF IInv, FilesAccounted, AtRest, SafeOutcomes, RevertRestores
<1>2. QED BY <1>1, InvariantHolds, PTL
=============================================================================
