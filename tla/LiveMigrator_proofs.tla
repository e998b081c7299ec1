------------------------- MODULE LiveMigrator_proofs -------------------------
(***************************************************************************)
(* Proofs about LiveMigrator, for any containers, failing calls, acts of   *)
(* users and reruns: docker is not stopped before pouch knows everything,  *)
(* pouchd takes over what runs, and the live migration implements the      *)
(* hand-over.  LiveInv is inductive without a restriction on reruns, as no *)
(* run of the live migrator moves a file.                                  *)
(***************************************************************************)
EXTENDS LiveHandover, FiniteSetTheorems, TLAPS

LoopPcs == {"forget", "register", "open", "write"}
ReadyPcs == {"volumes", "sandboxes", "network", "kill"} \union PostMigratePcs

\* Listed by the run at hand, or by the last one.
Seen(c) == allContainers[c] # "none"

\* What meta.json says of c, if it is there, tells pouchd to take c over; a
\* container that a user starts after its inspection is taken for stopped.
Known(c) ==
    /\ Prepared(c)
    /\ Locked /\ cstate[c] = "running" => savedStatus[c] = "running"

\* The loop has come to index k, and prepared what it has seen.
LoopInv ==
    /\ pc \in {"env", "list"} => \A c \in Containers : ~Seen(c)
    /\ pc \in {"inspect"} \union LoopPcs =>
          /\ k <= IF pc = "inspect" THEN Len(listed) + 1 ELSE Len(listed)
          /\ \A c \in Containers : Alive(c) => \E j \in 1..Len(listed) : listed[j] = c
          /\ \A j \in 1..k - 1 : Seen(listed[j])
          /\ \A c \in Containers :
                Seen(c) /\ (pc = "inspect" \/ c # listed[k]) => Known(c)
    /\ pc \in LoopPcs =>
          /\ Seen(listed[k])
          /\ Locked /\ cstate[listed[k]] = "running" => status = "running"
    /\ pc \in {"open", "write"} /\ status = "running" => listed[k] \in registered

\* From the end of the loop on, nothing is left out.
ReadyInv ==
    /\ pc # "off" => outcome = "none"
    /\ pc \notin {"off", "env"} => homeDir
    /\ pc \in ReadyPcs => \A c \in Containers : Alive(c) => Known(c)
    /\ pc \in ReadyPcs \ {"prune"} => \A c \in Containers : Seen(c) => Known(c)
    /\ pc = "sandboxes" => volumes
    /\ pc \in {"network", "kill"} \union PostMigratePcs =>
          ((\E c \in Containers : Seen(c)) => volumes /\ sandboxes)
    /\ pc \in {"kill"} \union PostMigratePcs => netdb

\* What the second listing has found, and what is left of it.
PruneInv ==
    /\ pc \in PostMigratePcs \ {"relist"} =>
          /\ \A c \in Containers : allContainers[c] = "false" =>
                ~Alive(c) /\ \E j \in 1..Len(deletedContainers) : deletedContainers[j] = c
          /\ \A j \in 1..Len(deletedContainers) : ~Alive(deletedContainers[j])
    /\ pc = "prune" =>
          /\ \A j \in 1..Len(deletedContainers) :
                j < k => pstate[deletedContainers[j]] = "none"
          /\ \A c \in Containers : Seen(c) /\ pstate[c] = "none" => c \notin registered

\* Which engine may be there, and what is promised from then on.
EngineInv ==
    /\ dockerd # "up" => pc \in {"off", "erase", "install", "prune"}
    /\ pc \in {"erase", "install", "prune"} => dockerd # "up"
    /\ pouchd = "up" => dockerd # "up"
    /\ HandoverComplete
    /\ Locked => NoOrphans
    /\ DeletedArePruned

LiveInv == TypeOK /\ LoopInv /\ ReadyInv /\ PruneInv /\ EngineInv

-----------------------------------------------------------------------------
(* Type correctness. *)

(***************************************************************************)
(* A listing names every container of the set it lists, and no other.      *)
(***************************************************************************)
LEMMA ListingFacts ==
    ASSUME NEW S, S \subseteq Containers, NEW s \in ListingsOf(S)
    PROVE  /\ s \in Seq(Containers)
           /\ \A c \in S : \E j \in 1..Len(s) : s[j] = c
           /\ \A j \in 1..Len(s) : s[j] \in S
<1>1. Cardinality(S) \in Nat
  BY ContainersAssumption, FS_Subset, FS_CardinalityType
<1>2. /\ s \in [1..Cardinality(S) -> S]
      /\ \A c \in S : \E j \in 1..Cardinality(S) : s[j] = c
  BY DEF ListingsOf, Bijection, Injection, Surjection
<1>3. QED BY <1>1, <1>2

USE DEF Goto, Enter, Again, Leave, FailPreMigrate, EndPreMigrate, dockerVars, pouchData,
        pouchVars, saved, memory, Alive

(***************************************************************************)
(* What the loop of PreMigrate works on is a container.                    *)
(***************************************************************************)
LEMMA CurrentFacts ==
    ASSUME TypeOK, LoopInv, pc \in LoopPcs
    PROVE  k \in 1..Len(listed) /\ listed[k] \in Containers
  BY DEF TypeOK, LoopInv, LoopPcs

(***************************************************************************)
(* Every act on the host keeps the types, brings no container back, and    *)
(* starts none while the tool has the users locked out.                    *)
(***************************************************************************)
LEMMA HostFacts ==
    ASSUME TypeOK, HostStep
    PROVE  /\ HostTypeOK'
           /\ \A c \in Containers : Alive(c)' => Alive(c)
           /\ Locked /\ (pc # "off" \/ dockerd # "up") =>
                 \A c \in Containers : cstate'[c] = "running" => cstate[c] = "running"
           /\ UNCHANGED <<dockerd, legacy, ctrd, pouchData, pouchVars, pc, k, memory,
                          registered, savedStatus, outcome, runs>>
<1>1. PICK c \in Containers :
          \/ Exit(c) \/ Remove(c)
          \/ (~Locked \/ pc = "off") /\ (Start(c) \/ Pause(c))
  BY DEF HostStep
<1>2. /\ cstate' \in [Containers -> {"running", "paused", "exited", "gone"}]
      /\ upper' \in [Containers -> SUBSET Files]
      /\ down' \subseteq Containers
  BY <1>1 DEF Exit, Start, Pause, Remove, TypeOK, HostTypeOK
<1>3. acts' \in 0..MaxActs
  BY <1>1, HostAssumption DEF Exit, Start, Pause, Remove, HostAct, TypeOK, HostTypeOK
<1>4. UNCHANGED <<dockerd, legacy, ctrd, pouchData, pouchVars, pc, k, memory, registered,
                  savedStatus, outcome, runs>>
  BY <1>1 DEF HostStep, Exit, Start, Pause, Remove, HostAct
<1>5. HostTypeOK'
  BY <1>2, <1>3, <1>4 DEF TypeOK, HostTypeOK
<1>6. \A d \in Containers : Alive(d)' => Alive(d)
  BY <1>1 DEF Exit, Start, Pause, Remove, TypeOK, HostTypeOK
<1>7. ASSUME Locked, pc # "off" \/ dockerd # "up",
             NEW d \in Containers, cstate'[d] = "running"
      PROVE  cstate[d] = "running"
  BY <1>1, <1>7 DEF Exit, Start, Pause, Remove, TypeOK, HostTypeOK
<1>8. QED BY <1>4, <1>5, <1>6, <1>7

(***************************************************************************)
(* Every step keeps the types; LoopInv tells which container the loop is   *)
(* at.                                                                     *)
(***************************************************************************)
LEMMA TypeStep == TypeOK /\ LoopInv /\ [Next]_vars => TypeOK'
<1> SUFFICES ASSUME TypeOK, LoopInv, [Next]_vars PROVE TypeOK'
  OBVIOUS
<1> USE DEF TypeOK, HostTypeOK, Outcomes, SafeOutcomes, PreMigratePcs, PostMigratePcs
<1>1. CASE UNCHANGED vars
  BY <1>1 DEF vars
<1>2. CASE StartRun
  <2>1. runs' \in 0..MaxRuns /\ <<>> \in Seq(Containers)
    BY <1>2, RunAssumption DEF StartRun
  <2>2. allContainers' \in [Containers -> {"none", "false", "true"}]
    BY <1>2 DEF StartRun
  <2>3. QED BY <1>2, <2>1, <2>2 DEF StartRun
<1>3. CASE InitPouchEnv
  <2>1. homeDir' \in BOOLEAN
    BY <1>3 DEF InitPouchEnv
  <2>2. QED BY <1>3, <2>1 DEF InitPouchEnv
<1>4. CASE ListContainers
  <2>1. listed' \in Seq(Containers)
    BY <1>4, ListingFacts DEF ListContainers, Present
  <2>2. QED BY <1>4, <2>1 DEF ListContainers
<1>5. CASE InspectContainer
  <2>1. listed[k] \in Containers
    BY <1>5 DEF InspectContainer
  <2>2. allContainers' \in [Containers -> {"none", "false", "true"}]
    BY <1>5, <2>1 DEF InspectContainer
  <2>3. status' \in {"running", "paused", "exited"}
    BY <1>5, <2>1 DEF InspectContainer
  <2>4. QED BY <1>5, <2>2, <2>3 DEF InspectContainer
<1>6. CASE EndOfContainers
  BY <1>6 DEF EndOfContainers
<1>7. CASE DeleteOldEntry
  BY <1>7 DEF DeleteOldEntry
<1>8. CASE NewContainer
  <2>1. listed[k] \in Containers
    BY <1>8, CurrentFacts DEF NewContainer, LoopPcs
  <2>2. registered' \subseteq Containers
    BY <1>8, <2>1 DEF NewContainer
  <2>3. QED BY <1>8, <2>2 DEF NewContainer
<1>9. CASE TruncateMeta
  <2>1. meta' \in [Containers -> {"none", "torn", "saved"}]
    BY <1>9 DEF TruncateMeta
  <2>2. QED BY <1>9, <2>1 DEF TruncateMeta
<1>10. CASE WriteMeta
  <2>1. /\ meta' \in [Containers -> {"none", "torn", "saved"}]
        /\ savedStatus' \in [Containers -> {"none", "running", "paused", "exited"}]
    <3>1. CASE UNCHANGED saved
      BY <3>1
    <3>2. CASE savedStatus' = [savedStatus EXCEPT ![listed[k]] = status]
      BY <1>10, <3>2 DEF WriteMeta
    <3>3. QED BY <1>10, <3>1, <3>2 DEF WriteMeta
  <2>2. QED BY <1>10, <2>1 DEF WriteMeta
<1>11. CASE PrepareVolumes
  <2>1. volumes' \in BOOLEAN
    BY <1>11 DEF PrepareVolumes
  <2>2. QED BY <1>11, <2>1 DEF PrepareVolumes
<1>12. CASE GenerateSandboxMetaJSON
  <2>1. sandboxes' \in BOOLEAN
    BY <1>12 DEF GenerateSandboxMetaJSON
  <2>2. QED BY <1>12, <2>1 DEF GenerateSandboxMetaJSON
<1>13. CASE MigrateNetworkFile
  <2>1. netdb' \in BOOLEAN
    BY <1>13 DEF MigrateNetworkFile
  <2>2. /\ pc' \in {"kill", "off"} /\ k' = k
        /\ outcome' \in Outcomes /\ ctrd' \in {"running", "stopped"}
    BY <1>13 DEF MigrateNetworkFile
  <2>3. UNCHANGED <<dockerVars, store, snapshot, snapUpper, saved, homeDir, volumes,
                    sandboxes, pouchVars, down, memory, registered, runs>>
    BY <1>13 DEF MigrateNetworkFile
  <2>4. QED BY <2>1, <2>2, <2>3
<1>14. CASE KillContainerd
  BY <1>14 DEF KillContainerd
<1>15. CASE ListAgain
  <2>1. allContainers' \in [Containers -> {"none", "false", "true"}]
    BY <1>15 DEF ListAgain
  <2>2. deletedContainers' \in Seq(Containers)
    BY <1>15, ListingFacts DEF ListAgain
  <2>3. QED BY <1>15, <2>1, <2>2 DEF ListAgain
<1>16. CASE StopDockerService
  <2>1. /\ cstate' \in [Containers -> {"running", "paused", "exited", "gone"}]
        /\ down' \subseteq Containers
    BY <1>16 DEF StopDockerService
  <2>2. QED BY <1>16, <2>1 DEF StopDockerService
<1>17. CASE EraseDockerPackage
  BY <1>17 DEF EraseDockerPackage
<1>18. CASE InstallPouchService
  <2>1. pstate' \in [Containers -> {"none", "stopped", "running"}]
    BY <1>18 DEF InstallPouchService, TakeOver
  <2>2. QED BY <1>18, <2>1 DEF InstallPouchService
<1>19. CASE RemoveDeleted
  <2>1. /\ pstate' \in [Containers -> {"none", "stopped", "running"}]
        /\ meta' \in [Containers -> {"none", "torn", "saved"}]
        /\ savedStatus' \in [Containers -> {"none", "running", "paused", "exited"}]
    BY <1>19 DEF RemoveDeleted
  <2>2. QED BY <1>19, <2>1 DEF RemoveDeleted
<1>20. CASE EndOfPrune
  BY <1>20 DEF EndOfPrune
<1>21. CASE Crash
  BY <1>21 DEF Crash
<1>22. CASE HostStep
  <2>1. HostTypeOK'
    BY <1>22, HostFacts
  <2>2. QED BY <1>22, <2>1 DEF HostStep
<1>23. QED
  BY <1>1, <1>2, <1>3, <1>4, <1>5, <1>6, <1>7, <1>8, <1>9, <1>10, <1>11, <1>12, <1>13,
     <1>14, <1>15, <1>16, <1>17, <1>18, <1>19, <1>20, <1>21, <1>22
  DEF Next, RunCmd, PreMigrate, Migrate, PostMigrate

-----------------------------------------------------------------------------
(* The parts of the invariant. *)

(***************************************************************************)
(* The loop of PreMigrate skips no container, and leaves none behind that  *)
(* pouchd would not know.                                                  *)
(***************************************************************************)
LEMMA LoopStep == LiveInv /\ [Next]_vars => LoopInv'
<1> SUFFICES ASSUME TypeOK, LoopInv, ReadyInv, [Next]_vars PROVE LoopInv'
  BY DEF LiveInv
<1> USE DEF TypeOK, HostTypeOK, LoopPcs, PostMigratePcs, Seen, Known, Prepared
<1>1. CASE UNCHANGED vars
  BY <1>1 DEF vars, LoopInv
<1>2. CASE StartRun \/ InitPouchEnv
  BY <1>2 DEF StartRun, InitPouchEnv, LoopInv
<1>3. CASE ListContainers
  <2>1. CASE pc' = "inspect"
    <3>1. listed' \in ListingsOf(Present) /\ k' = 1 /\ UNCHANGED <<cstate, allContainers>>
      BY <1>3, <2>1 DEF ListContainers
    <3>2. Present \subseteq Containers /\ \A c \in Containers : Alive(c) => c \in Present
      BY DEF Present
    <3>3. \A c \in Containers : Alive(c) => \E j \in 1..Len(listed') : listed'[j] = c
      BY <3>1, <3>2, ListingFacts
    <3>4. listed' \in Seq(Containers)
      BY <3>1, <3>2, ListingFacts
    <3>5. \A c \in Containers : ~Seen(c)'
      BY <1>3, <3>1 DEF ListContainers, LoopInv
    <3>6. QED BY <2>1, <3>1, <3>3, <3>4, <3>5 DEF LoopInv
  <2>2. CASE pc' # "inspect"
    BY <1>3, <2>2 DEF ListContainers, LoopInv
  <2>3. QED BY <2>1, <2>2
<1>4. CASE InspectContainer
  <2>1. k \in 1..Len(listed) /\ listed[k] \in Containers
    BY <1>4 DEF InspectContainer
  <2>2. CASE pc' = "off"
    BY <1>4, <2>2 DEF InspectContainer, LoopInv
  <2>3. CASE pc' # "off"
    <3>1. /\ pc' = IF cstate[listed[k]] = "running" THEN "forget" ELSE "open"
          /\ status' = cstate[listed[k]]
          /\ allContainers' = [allContainers EXCEPT ![listed[k]] = "false"]
          /\ UNCHANGED <<k, cstate, listed, meta, savedStatus, registered>>
      BY <1>4, <2>3 DEF InspectContainer
    <3>2. /\ \A c \in Containers : Alive(c) => \E j \in 1..Len(listed) : listed[j] = c
          /\ \A j \in 1..k - 1 : Seen(listed[j])
          /\ \A c \in Containers : Seen(c) => Known(c)
      BY <1>4 DEF InspectContainer, LoopInv
    <3>3. \A j \in 1..k - 1 : Seen(listed[j])'
      BY <2>1, <3>1, <3>2
    <3>4. \A c \in Containers : Seen(c)' /\ c # listed'[k'] => Known(c)'
      BY <2>1, <3>1, <3>2
    <3>5. Seen(listed[k])'
      BY <2>1, <3>1
    <3>6. QED BY <2>1, <3>1, <3>2, <3>3, <3>4, <3>5 DEF LoopInv
  <2>4. QED BY <2>2, <2>3
<1>5. CASE EndOfContainers
  BY <1>5 DEF EndOfContainers, LoopInv
<1>6. CASE DeleteOldEntry
  BY <1>6, CurrentFacts DEF DeleteOldEntry, LoopInv
<1>7. CASE NewContainer
  BY <1>7, CurrentFacts DEF NewContainer, LoopInv
<1>8. CASE TruncateMeta
  BY <1>8, CurrentFacts DEF TruncateMeta, LoopInv
<1>9. CASE WriteMeta
  <2>1. k \in 1..Len(listed) /\ listed[k] \in Containers
    BY <1>9, CurrentFacts DEF WriteMeta
  <2>2. CASE pc' = "off"
    BY <1>9, <2>2 DEF WriteMeta, LoopInv
  <2>3. CASE pc' # "off"
    <3>1. /\ pc' = "inspect" /\ k' = k + 1
          /\ meta' = [meta EXCEPT ![listed[k]] = "saved"]
          /\ savedStatus' = [savedStatus EXCEPT ![listed[k]] = status]
          /\ UNCHANGED <<cstate, listed, allContainers, registered>>
      BY <1>9, <2>3 DEF WriteMeta
    <3>2. /\ \A c \in Containers : Alive(c) => \E j \in 1..Len(listed) : listed[j] = c
          /\ \A j \in 1..k - 1 : Seen(listed[j])
          /\ \A c \in Containers : Seen(c) /\ c # listed[k] => Known(c)
          /\ Seen(listed[k])
          /\ Locked /\ cstate[listed[k]] = "running" => status = "running"
          /\ status = "running" => listed[k] \in registered
      BY <1>9 DEF WriteMeta, LoopInv
    <3>3. \A j \in 1..k' - 1 : Seen(listed[j])'
      BY <2>1, <3>1, <3>2
    <3>4. \A c \in Containers : Seen(c)' => Known(c)'
      BY <2>1, <3>1, <3>2
    <3>5. QED BY <2>1, <3>1, <3>2, <3>3, <3>4 DEF LoopInv
  <2>4. QED BY <2>2, <2>3
<1>10. CASE PrepareVolumes \/ GenerateSandboxMetaJSON \/ Migrate \/ PostMigrate \/ Crash
  <2>1. pc' \notin {"env", "list", "inspect"} \union LoopPcs
    BY <1>10
    DEF PrepareVolumes, GenerateSandboxMetaJSON, Migrate, MigrateNetworkFile, KillContainerd,
        PostMigrate, ListAgain, StopDockerService, EraseDockerPackage, InstallPouchService,
        RemoveDeleted, EndOfPrune, Crash
  <2>2. QED BY <2>1 DEF LoopInv
<1>11. CASE HostStep
  <2>1. CASE pc = "off"
    <3>1. pc' = "off"
      BY <1>11, <2>1, HostFacts
    <3>2. QED BY <3>1 DEF LoopInv
  <2>2. CASE pc # "off"
    <3>1. /\ \A c \in Containers : Alive(c)' => Alive(c)
          /\ Locked => \A c \in Containers : cstate'[c] = "running" => cstate[c] = "running"
          /\ UNCHANGED <<pc, k, listed, allContainers, status, meta, savedStatus, registered>>
      BY <1>11, <2>2, HostFacts
    <3>2. pc \in {"inspect"} \union LoopPcs => \A j \in 1..Len(listed) : listed[j] \in Containers
      OBVIOUS
    <3>3. pc \in LoopPcs => listed[k] \in Containers
      BY CurrentFacts
    <3>4. \A c \in Containers : Known(c) => Known(c)'
      BY <3>1
    <3>5. QED BY <3>1, <3>2, <3>3, <3>4 DEF LoopInv
  <2>3. QED BY <2>1, <2>2
<1>12. QED
  BY <1>1, <1>2, <1>3, <1>4, <1>5, <1>6, <1>7, <1>8, <1>9, <1>10, <1>11
  DEF Next, RunCmd, PreMigrate

(***************************************************************************)
(* From the end of that loop on pouchd would know every container that is  *)
(* left, and nothing of it is undone.                                      *)
(***************************************************************************)
LEMMA ReadyStep == LiveInv /\ [Next]_vars => ReadyInv'
<1> SUFFICES ASSUME TypeOK, LoopInv, ReadyInv, PruneInv, [Next]_vars PROVE ReadyInv'
  BY DEF LiveInv
<1> USE DEF TypeOK, HostTypeOK, ReadyPcs, PostMigratePcs, Seen, Known, Prepared
<1>1. CASE UNCHANGED vars
  BY <1>1 DEF vars, ReadyInv
<1>2. CASE StartRun \/ InitPouchEnv
  BY <1>2 DEF StartRun, InitPouchEnv, ReadyInv
<1>3. CASE ListContainers
  <2>1. homeDir' /\ UNCHANGED <<cstate, allContainers>> /\ \A c \in Containers : ~Seen(c)
    BY <1>3 DEF ListContainers, ReadyInv, LoopInv
  <2>2. pc' \in {"inspect", "network", "off"} /\ (pc' # "off" => outcome' = "none")
    BY <1>3 DEF ListContainers, ReadyInv
  <2>3. pc' = "network" => \A c \in Containers : ~Alive(c)
    BY <1>3 DEF ListContainers, Present
  <2>4. QED BY <2>1, <2>2, <2>3 DEF ReadyInv
<1>4. CASE InspectContainer \/ DeleteOldEntry \/ NewContainer \/ TruncateMeta \/ WriteMeta
  <2>1. pc' \in {"inspect", "off"} \union LoopPcs
    BY <1>4
    DEF InspectContainer, DeleteOldEntry, NewContainer, TruncateMeta, WriteMeta, LoopPcs
  <2>2. homeDir' /\ (pc' # "off" => outcome' = "none")
    BY <1>4
    DEF InspectContainer, DeleteOldEntry, NewContainer, TruncateMeta, WriteMeta, ReadyInv
  <2>3. QED BY <2>1, <2>2 DEF ReadyInv, LoopPcs
<1>5. CASE EndOfContainers
  <2>1. /\ k = Len(listed) + 1
        /\ \A c \in Containers : Alive(c) => \E j \in 1..Len(listed) : listed[j] = c
        /\ \A j \in 1..k - 1 : Seen(listed[j])
        /\ \A c \in Containers : Seen(c) => Known(c)
    <3>1. pc = "inspect" /\ k > Len(listed)
      BY <1>5 DEF EndOfContainers
    <3>2. k <= Len(listed) + 1
      BY <3>1 DEF LoopInv
    <3>3. Len(listed) \in Nat
      OBVIOUS
    <3>4. \A c \in Containers : Alive(c) => \E j \in 1..Len(listed) : listed[j] = c
      BY <3>1 DEF LoopInv
    <3>5. \A j \in 1..k - 1 : Seen(listed[j])
      BY <3>1 DEF LoopInv
    <3>6. \A c \in Containers : Seen(c) => Known(c)
      BY <3>1 DEF LoopInv
    <3>7. QED BY <3>1, <3>2, <3>3, <3>4, <3>5, <3>6
  <2>2. \A c \in Containers : Alive(c) => Seen(c)
    BY <2>1
  <2>3. QED BY <1>5, <2>1, <2>2 DEF EndOfContainers, ReadyInv
<1>6. CASE PrepareVolumes
  BY <1>6 DEF PrepareVolumes, ReadyInv
<1>7. CASE GenerateSandboxMetaJSON
  BY <1>7 DEF GenerateSandboxMetaJSON, ReadyInv
<1>8. CASE MigrateNetworkFile
  BY <1>8 DEF MigrateNetworkFile, ReadyInv
<1>9. CASE KillContainerd
  BY <1>9 DEF KillContainerd, ReadyInv
<1>10. CASE ListAgain
  <2>1. \A c \in Containers : Seen(c)' => Seen(c)
    BY <1>10 DEF ListAgain
  <2>2. QED BY <1>10, <2>1 DEF ListAgain, ReadyInv
<1>11. CASE StopDockerService
  <2>1. \A c \in Containers :
            (Alive(c)' => Alive(c)) /\ (cstate'[c] = "running" => cstate[c] = "running")
    BY <1>11 DEF StopDockerService
  <2>2. QED BY <1>11, <2>1 DEF StopDockerService, ReadyInv
<1>12. CASE EraseDockerPackage
  BY <1>12 DEF EraseDockerPackage, ReadyInv
<1>13. CASE InstallPouchService
  BY <1>13 DEF InstallPouchService, ReadyInv
<1>14. CASE RemoveDeleted
  <2>1. deletedContainers[k] \in Containers /\ ~Alive(deletedContainers[k])
    BY <1>14 DEF RemoveDeleted, PruneInv
  <2>2. \A c \in Containers : c # deletedContainers[k] =>
            /\ meta'[c] = meta[c] /\ savedStatus'[c] = savedStatus[c]
            /\ c \in registered' <=> c \in registered
    BY <1>14 DEF RemoveDeleted
  <2>3. \A c \in Containers : Alive(c)' => Known(c)'
    BY <1>14, <2>1, <2>2 DEF RemoveDeleted, ReadyInv
  <2>4. pc' \in {"prune", "off"} /\ (pc' # "off" => outcome' = "none")
    BY <1>14 DEF RemoveDeleted, ReadyInv
  <2>5. UNCHANGED <<homeDir, netdb, volumes, sandboxes, allContainers>>
    BY <1>14 DEF RemoveDeleted
  <2>6. QED BY <1>14, <2>3, <2>4, <2>5 DEF RemoveDeleted, ReadyInv
<1>15. CASE EndOfPrune \/ Crash
  BY <1>15 DEF EndOfPrune, Crash, ReadyInv
<1>16. CASE HostStep
  <2>1. /\ \A c \in Containers : Alive(c)' => Alive(c)
        /\ UNCHANGED <<pc, outcome, homeDir, netdb, volumes, sandboxes, allContainers, meta,
                       savedStatus, registered>>
    BY <1>16, HostFacts
  <2>2. pc # "off" => \A c \in Containers : Known(c) => Known(c)'
    BY <1>16, <2>1, HostFacts
  <2>3. QED BY <2>1, <2>2 DEF ReadyInv
<1>17. QED
  BY <1>1, <1>2, <1>3, <1>4, <1>5, <1>6, <1>7, <1>8, <1>9, <1>10, <1>11, <1>12, <1>13,
     <1>14, <1>15, <1>16
  DEF Next, RunCmd, PreMigrate, Migrate, PostMigrate

(***************************************************************************)
(* What the second listing misses stays away, and is removed from pouch    *)
(* and from containerd.                                                    *)
(***************************************************************************)
LEMMA PruneStep == LiveInv /\ [Next]_vars => PruneInv'
<1> SUFFICES ASSUME TypeOK, ReadyInv, PruneInv, [Next]_vars PROVE PruneInv'
  BY DEF LiveInv
<1> USE DEF TypeOK, HostTypeOK, PostMigratePcs, Seen
<1>1. CASE UNCHANGED vars
  BY <1>1 DEF vars, PruneInv
<1>2. CASE StartRun \/ PreMigrate \/ Migrate \/ Crash \/ EndOfPrune
  <2>1. pc' \notin PostMigratePcs \ {"relist"}
    BY <1>2
    DEF StartRun, PreMigrate, InitPouchEnv, ListContainers, InspectContainer, EndOfContainers,
        DeleteOldEntry, NewContainer, TruncateMeta, WriteMeta, PrepareVolumes,
        GenerateSandboxMetaJSON, Migrate, MigrateNetworkFile, KillContainerd, Crash, EndOfPrune
  <2>2. QED BY <2>1 DEF PruneInv
<1>3. CASE ListAgain
  <2>1. CASE pc' = "off"
    BY <2>1 DEF PruneInv
  <2>2. CASE pc' # "off"
    <3>1. /\ allContainers' = [c \in Containers |->
                 IF allContainers[c] # "none" /\ Alive(c) THEN "true" ELSE allContainers[c]]
          /\ deletedContainers' \in
                 ListingsOf({c \in Containers : allContainers'[c] = "false"})
          /\ pc' = "uninstall" /\ UNCHANGED cstate
      BY <1>3, <2>2 DEF ListAgain
    <3>2. \A c \in Containers : allContainers'[c] = "false" => ~Alive(c)
      <4>1. \A c \in Containers : allContainers'[c] =
                IF allContainers[c] # "none" /\ Alive(c) THEN "true" ELSE allContainers[c]
        BY <3>1
      <4>2. \A c \in Containers : allContainers[c] \in {"none", "false", "true"}
        OBVIOUS
      <4>3. QED BY <4>1, <4>2, Zenon
    <3>3. /\ deletedContainers' \in Seq(Containers)
          /\ \A c \in {d \in Containers : allContainers'[d] = "false"} :
                \E j \in 1..Len(deletedContainers') : deletedContainers'[j] = c
          /\ \A j \in 1..Len(deletedContainers') :
                deletedContainers'[j] \in {d \in Containers : allContainers'[d] = "false"}
      <4> DEFINE S == {c \in Containers : allContainers'[c] = "false"}
      <4>1. S \subseteq Containers /\ deletedContainers' \in ListingsOf(S)
        BY <3>1
      <4> HIDE DEF S
      <4>2. /\ deletedContainers' \in Seq(Containers)
            /\ \A c \in S : \E j \in 1..Len(deletedContainers') : deletedContainers'[j] = c
            /\ \A j \in 1..Len(deletedContainers') : deletedContainers'[j] \in S
        BY <4>1, ListingFacts, Zenon
      <4>3. QED BY <4>2 DEF S
    <3>4. \A c \in Containers : allContainers'[c] = "false" =>
             ~Alive(c)' /\ \E j \in 1..Len(deletedContainers') : deletedContainers'[j] = c
      BY <3>1, <3>2, <3>3
    <3>5. \A j \in 1..Len(deletedContainers') : ~Alive(deletedContainers[j])'
      <4>1. \A j \in 1..Len(deletedContainers') : ~Alive(deletedContainers'[j])
        BY <3>2, <3>3, Zenon
      <4>2. QED BY <3>1, <4>1
    <3>6. pc' # "prune"
      BY <3>1
    <3>7. QED
      <4> HIDE DEF TypeOK, HostTypeOK
      <4>1. QED BY <3>4, <3>5, <3>6 DEF PruneInv
  <2>3. QED BY <2>1, <2>2
<1>4. CASE StopDockerService
  <2>1. \A c \in Containers : Alive(c)' => Alive(c)
    BY <1>4 DEF StopDockerService
  <2>2. \A j \in 1..Len(deletedContainers) : deletedContainers[j] \in Containers
    OBVIOUS
  <2>3. QED BY <1>4, <2>1, <2>2 DEF StopDockerService, PruneInv
<1>5. CASE EraseDockerPackage
  BY <1>5 DEF EraseDockerPackage, PruneInv
<1>6. CASE InstallPouchService
  <2>1. CASE pc' = "prune"
    <3>1. k' = 1 /\ pstate' = TakeOver
      BY <1>6, <2>1 DEF InstallPouchService
    <3>2. \A c \in Containers : Seen(c) => meta[c] = "saved"
      BY <1>6 DEF InstallPouchService, ReadyInv, ReadyPcs, Known, Prepared
    <3>3. homeDir
      BY <1>6 DEF InstallPouchService, ReadyInv
    <3>4. \A c \in Containers : Seen(c) => pstate'[c] # "none"
      BY <3>1, <3>2, <3>3 DEF TakeOver
    <3>5. QED BY <1>6, <2>1, <3>1, <3>4 DEF InstallPouchService, PruneInv
  <2>2. CASE pc' # "prune"
    BY <1>6, <2>2 DEF InstallPouchService, PruneInv
  <2>3. QED BY <2>1, <2>2
<1>7. CASE RemoveDeleted
  <2>1. CASE pc' = "off"
    BY <2>1 DEF PruneInv
  <2>2. CASE pc' # "off"
    <3> DEFINE c == deletedContainers[k]
    <3>1. c \in Containers /\ k \in 1..Len(deletedContainers)
      BY <1>7 DEF RemoveDeleted
    <3>2. /\ pc' = "prune" /\ k' = k + 1
          /\ pstate'[c] = "none"
          /\ \A d \in Containers : d # c => pstate'[d] = pstate[d]
          /\ registered' = IF pstate[c] = "none" THEN registered ELSE registered \ {c}
          /\ UNCHANGED <<cstate, allContainers, deletedContainers>>
      BY <1>7, <2>2, <3>1 DEF RemoveDeleted
    <3>3. \A j \in 1..Len(deletedContainers) :
              j < k + 1 => pstate'[deletedContainers[j]] = "none"
      BY <1>7, <3>1, <3>2 DEF RemoveDeleted, PruneInv
    <3>4. \A d \in Containers : Seen(d)' /\ pstate'[d] = "none" => d \notin registered'
      BY <1>7, <3>1, <3>2 DEF RemoveDeleted, PruneInv
    <3>5. QED BY <1>7, <3>2, <3>3, <3>4 DEF RemoveDeleted, PruneInv
  <2>3. QED BY <2>1, <2>2
<1>8. CASE HostStep
  <2>1. /\ \A c \in Containers : Alive(c)' => Alive(c)
        /\ UNCHANGED <<pc, k, allContainers, deletedContainers, pstate, registered>>
    BY <1>8, HostFacts
  <2>2. \A j \in 1..Len(deletedContainers) : deletedContainers[j] \in Containers
    OBVIOUS
  <2>3. ASSUME pc \in PostMigratePcs \ {"relist"}
        PROVE  /\ \A c \in Containers : allContainers[c] = "false" => ~Alive(c)'
               /\ \A j \in 1..Len(deletedContainers) : ~Alive(deletedContainers[j])'
    <3>1. \A c \in Containers : allContainers[c] = "false" => ~Alive(c)'
      BY <2>1, <2>3 DEF PruneInv
    <3>2. \A j \in 1..Len(deletedContainers) : ~Alive(deletedContainers[j])
      BY <2>3 DEF PruneInv
    <3>3. QED BY <2>1, <2>2, <3>1, <3>2
  <2>4. ASSUME pc = "prune"
        PROVE  /\ \A j \in 1..Len(deletedContainers) :
                      j < k => pstate[deletedContainers[j]] = "none"
               /\ \A c \in Containers : Seen(c) /\ pstate[c] = "none" => c \notin registered
    BY <2>4 DEF PruneInv
  <2>5. QED
    <3> HIDE DEF TypeOK, HostTypeOK
    <3>1. QED BY <2>1, <2>3, <2>4 DEF PruneInv
<1>9. QED
  BY <1>1, <1>2, <1>3, <1>4, <1>5, <1>6, <1>7, <1>8 DEF Next, RunCmd, PostMigrate

(***************************************************************************)
(* Docker is stopped at the end of a ready run only, nothing undoes that,  *)
(* and what is promised from then on holds when it happens.                *)
(***************************************************************************)
LEMMA EngineStep == LiveInv /\ [Next]_vars => EngineInv'
<1> SUFFICES ASSUME TypeOK, ReadyInv, PruneInv, EngineInv, [Next]_vars PROVE EngineInv'
  BY DEF LiveInv
<1> USE DEF TypeOK, HostTypeOK, PreMigratePcs, PostMigratePcs, HandoverComplete, NoOrphans,
            DeletedArePruned
<1>1. CASE UNCHANGED vars
  BY <1>1 DEF vars, EngineInv, Prepared
<1>2. CASE StartRun \/ PreMigrate \/ Migrate \/ ListAgain
  <2>1. dockerd = "up" /\ pouchd = "down" /\ UNCHANGED <<dockerd, pouchd>>
    BY <1>2
    DEF StartRun, PreMigrate, InitPouchEnv, ListContainers, InspectContainer, EndOfContainers,
        DeleteOldEntry, NewContainer, TruncateMeta, WriteMeta, PrepareVolumes,
        GenerateSandboxMetaJSON, Migrate, MigrateNetworkFile, KillContainerd, ListAgain,
        EngineInv
  <2>2. pc' \notin {"erase", "install", "prune"}
    BY <1>2
    DEF StartRun, PreMigrate, InitPouchEnv, ListContainers, InspectContainer, EndOfContainers,
        DeleteOldEntry, NewContainer, TruncateMeta, WriteMeta, PrepareVolumes,
        GenerateSandboxMetaJSON, Migrate, MigrateNetworkFile, KillContainerd, ListAgain
  <2>3. outcome' # "done"
    BY <1>2
    DEF StartRun, PreMigrate, InitPouchEnv, ListContainers, InspectContainer, EndOfContainers,
        DeleteOldEntry, NewContainer, TruncateMeta, WriteMeta, PrepareVolumes,
        GenerateSandboxMetaJSON, Migrate, MigrateNetworkFile, KillContainerd, ListAgain,
        ReadyInv
  <2>4. QED BY <2>1, <2>2, <2>3 DEF EngineInv
<1>3. CASE StopDockerService
  <2>1. /\ netdb /\ homeDir
        /\ \A c \in Containers : Alive(c) => Prepared(c)
        /\ (\E c \in Containers : Seen(c)) => volumes /\ sandboxes
        /\ outcome = "none"
    BY <1>3 DEF StopDockerService, ReadyInv, ReadyPcs, Known
  <2>2. /\ pouchd = "down" /\ pc' \in {"erase", "off"} /\ (pc' = "erase" => dockerd' # "up")
        /\ outcome' # "done" /\ (dockerd' = "up" => pc' = "off")
        /\ \A c \in Containers : Alive(c)' => Alive(c)
    BY <1>3, <2>1 DEF StopDockerService, EngineInv
  <2>3. UNCHANGED <<netdb, homeDir, volumes, sandboxes, allContainers, meta, savedStatus,
                    registered, pouchd>>
    BY <1>3 DEF StopDockerService
  <2>4. HandoverComplete'
    BY <2>1, <2>2, <2>3 DEF Prepared, Seen
  <2>5. QED BY <2>2, <2>3, <2>4 DEF EngineInv
<1>4. CASE EraseDockerPackage
  <2>1. outcome' # "done" /\ dockerd' # "up" /\ pc' \in {"install", "off"}
    BY <1>4 DEF EraseDockerPackage, EngineInv, ReadyInv
  <2>2. QED BY <1>4, <2>1 DEF EraseDockerPackage, EngineInv, Prepared
<1>5. CASE InstallPouchService
  <2>1. outcome' # "done" /\ dockerd' # "up" /\ pc' \in {"prune", "off"}
    BY <1>5 DEF InstallPouchService, EngineInv, ReadyInv
  <2>2. HandoverComplete'
    BY <1>5 DEF InstallPouchService, EngineInv, Prepared
  <2>3. ASSUME Locked PROVE NoOrphans'
    <3>1. CASE UNCHANGED pouchVars
      BY <1>5, <2>3, <3>1 DEF InstallPouchService, EngineInv
    <3>2. CASE pstate' = TakeOver
      <4>1. homeDir /\ \A c \in Containers : cstate[c] = "running" =>
                /\ meta[c] = "saved" /\ savedStatus[c] = "running" /\ c \in registered
        BY <1>5, <2>3 DEF InstallPouchService, ReadyInv, ReadyPcs, Known, Prepared
      <4>2. QED BY <1>5, <3>2, <4>1 DEF InstallPouchService, TakeOver
    <3>3. QED BY <1>5, <3>1, <3>2 DEF InstallPouchService
  <2>4. QED BY <1>5, <2>1, <2>2, <2>3 DEF InstallPouchService, EngineInv
<1>6. CASE RemoveDeleted
  <2> DEFINE c == deletedContainers[k]
  <2>1. c \in Containers /\ ~Alive(c)
    BY <1>6 DEF RemoveDeleted, PruneInv
  <2>2. /\ outcome' # "done" /\ pc' \in {"prune", "off"}
        /\ \A d \in Containers : d # c =>
              /\ meta'[d] = meta[d] /\ savedStatus'[d] = savedStatus[d] /\ pstate'[d] = pstate[d]
              /\ d \in registered' <=> d \in registered
        /\ UNCHANGED <<cstate, dockerd, pouchd, netdb, homeDir, volumes, sandboxes,
                       allContainers>>
    BY <1>6 DEF RemoveDeleted, ReadyInv
  <2>3. HandoverComplete' /\ (Locked => NoOrphans')
    BY <2>1, <2>2 DEF EngineInv, Prepared
  <2>4. QED BY <1>6, <2>2, <2>3 DEF RemoveDeleted, EngineInv
<1>7. CASE EndOfPrune
  <2>1. \A c \in Containers :
            allContainers[c] = "false" => pstate[c] = "none" /\ c \notin registered
    <3>1. SUFFICES ASSUME NEW c \in Containers, allContainers[c] = "false"
                   PROVE  pstate[c] = "none" /\ c \notin registered
      OBVIOUS
    <3>2. \E j \in 1..Len(deletedContainers) : deletedContainers[j] = c /\ j < k
      BY <1>7, <3>1 DEF EndOfPrune, PruneInv
    <3>3. QED BY <1>7, <3>1, <3>2 DEF EndOfPrune, PruneInv, Seen
  <2>2. QED BY <1>7, <2>1 DEF EndOfPrune, EngineInv, Prepared
<1>8. CASE Crash
  BY <1>8 DEF Crash, EngineInv, Prepared
<1>9. CASE HostStep
  <2>1. /\ \A c \in Containers : Alive(c)' => Alive(c)
        /\ UNCHANGED <<dockerd, pouchd, pstate, pc, netdb, homeDir, volumes, sandboxes,
                       allContainers, meta, savedStatus, registered, outcome>>
    BY <1>9, HostFacts
  <2>2. Locked /\ dockerd # "up" =>
            \A c \in Containers : cstate'[c] = "running" => cstate[c] = "running"
    BY <1>9, HostFacts
  <2>3. QED BY <2>1, <2>2 DEF EngineInv, Prepared
<1>10. QED
  BY <1>1, <1>2, <1>3, <1>4, <1>5, <1>6, <1>7, <1>8, <1>9 DEF Next, RunCmd, PostMigrate

(***************************************************************************)
(* Init establishes the invariant, and every step keeps it.                *)
(***************************************************************************)
LEMMA InitInv == Init => LiveInv
<1> SUFFICES ASSUME Init PROVE LiveInv
  OBVIOUS
<1>1. HostTypeOK
  <2>1. /\ cstate \in [Containers -> {"running", "paused", "exited", "gone"}]
        /\ legacy \in [Containers -> SUBSET Files]
        /\ acts \in 0..MaxActs
    <3>1. cstate \in [Containers -> {"running", "paused", "exited", "gone"}]
      BY HostAssumption DEF Init, HostInit
    <3>2. legacy \in [Containers -> SUBSET Files]
      BY DEF Init, HostInit
    <3>3. QED BY <3>1, <3>2, HostAssumption DEF Init, HostInit
  <2>2. /\ snapUpper \in [Containers -> SUBSET Files]
        /\ meta \in [Containers -> {"none", "torn", "saved"}]
        /\ pstate \in [Containers -> {"none", "stopped", "running"}]
    BY DEF Init, HostInit
  <2>3. QED BY <2>1, <2>2 DEF Init, HostInit, HostTypeOK
<1>2. TypeOK
  <2>1. /\ allContainers \in [Containers -> {"none", "false", "true"}]
        /\ savedStatus \in [Containers -> {"none", "running", "paused", "exited"}]
        /\ runs \in 0..MaxRuns
    BY RunAssumption DEF Init
  <2>2. <<>> \in Seq(Containers) /\ 1 \in Nat \ {0} /\ FALSE \in BOOLEAN
    OBVIOUS
  <2>3. QED BY <1>1, <2>1, <2>2 DEF Init, TypeOK, Outcomes, SafeOutcomes
<1>3. LoopInv /\ ReadyInv /\ PruneInv
  BY DEF Init, LoopInv, LoopPcs, ReadyInv, ReadyPcs, PruneInv, PostMigratePcs
<1>4. EngineInv
  BY DEF Init, HostInit, EngineInv, HandoverComplete, NoOrphans, DeletedArePruned
<1>5. QED BY <1>2, <1>3, <1>4 DEF LiveInv

LEMMA Inductive == LiveInv /\ [Next]_vars => LiveInv'
<1>1. LiveInv /\ [Next]_vars => TypeOK'
  BY TypeStep DEF LiveInv
<1>2. QED BY <1>1, LoopStep, ReadyStep, PruneStep, EngineStep DEF LiveInv

-----------------------------------------------------------------------------
(* The theorems. *)

(***************************************************************************)
(* LiveInv holds throughout, however often the tool fails, is killed and   *)
(* is started again.                                                       *)
(***************************************************************************)
THEOREM LiveInvHolds == Spec => []LiveInv
  BY InitInv, Inductive, PTL DEF Spec

(***************************************************************************)
(* Every variable keeps its type.                                          *)
(***************************************************************************)
THEOREM LiveTypeCorrect == Spec => []TypeOK
<1>1. LiveInv => TypeOK
  BY DEF LiveInv
<1>2. QED BY <1>1, LiveInvHolds, PTL

(***************************************************************************)
(* PostMigrate never stops docker before every remaining container, the    *)
(* network database, the volumes and the sandboxes are known to pouch.     *)
(***************************************************************************)
THEOREM LiveHandoverIsComplete == Spec => []HandoverComplete
<1>1. LiveInv => HandoverComplete
  BY DEF LiveInv, EngineInv
<1>2. QED BY <1>1, LiveInvHolds, PTL

(***************************************************************************)
(* pouchd takes over every container that runs when it starts, if users    *)
(* start none while the tool is at work.                                   *)
(***************************************************************************)
THEOREM NoContainerIsOrphaned ==
    ASSUME Locked
    PROVE  Spec => []NoOrphans
<1>1. LiveInv => NoOrphans
  BY DEF LiveInv, EngineInv
<1>2. QED BY <1>1, LiveInvHolds, PTL

(***************************************************************************)
(* A run that succeeds has removed from pouch, and from containerd, every  *)
(* container that its second listing did not find.                         *)
(***************************************************************************)
THEOREM LiveDeletedArePruned == Spec => []DeletedArePruned
<1>1. LiveInv => DeletedArePruned
  BY DEF LiveInv, EngineInv
<1>2. QED BY <1>1, LiveInvHolds, PTL

-----------------------------------------------------------------------------
(* Refinement. *)

(***************************************************************************)
(* The sides of a container follow from whether it is there and prepared.  *)
(***************************************************************************)
LEMMA SidesKept ==
    ASSUME \A c \in Containers : Alive(c)' <=> Alive(c),
           \A c \in Containers : Alive(c) => (Prepared(c)' <=> Prepared(c))
    PROVE  UNCHANGED <<sides, gone>>
<1>1. \A c \in Containers : sides'[c] = sides[c]
  BY DEF sides
<1>2. QED BY <1>1 DEF sides, gone

LEMMA OneSideChanges ==
    ASSUME NEW x \in Containers,
           \A c \in Containers : Alive(c)' <=> Alive(c),
           \A c \in Containers : c # x => (Prepared(c)' <=> Prepared(c))
    PROVE  /\ gone' = gone
           /\ ~Alive(x) => sides' = sides
           /\ \E s \in SUBSET {"docker", "pouch"} :
                 (Alive(x) => "docker" \in s) /\ sides' = [sides EXCEPT ![x] = s]
<1>1. \A c \in Containers : c # x \/ ~Alive(x) => sides'[c] = sides[c]
  BY DEF sides
<1>2. /\ sides'[x] \in SUBSET {"docker", "pouch"}
      /\ Alive(x) => "docker" \in sides'[x]
  BY DEF sides
<1>3. sides' = [sides EXCEPT ![x] = sides'[x]] /\ (~Alive(x) => sides' = sides)
  <2>1. /\ sides = [c \in Containers |-> sides[c]]
        /\ sides' = [c \in Containers |-> sides'[c]]
    BY DEF sides
  <2>2. QED BY <1>1, <2>1
<1>4. gone' = gone
  BY DEF gone
<1>5. QED BY <1>2, <1>3, <1>4

LEMMA InitIsHandoverInit == Init => H!Init
<1> SUFFICES ASSUME Init PROVE H!Init
  OBVIOUS
<1>1. engine = "docker" /\ phase = "serving" /\ gone \in SUBSET Containers
  BY DEF Init, HostInit, engine, phase, gone, SafeOutcomes
<1>2. \A c \in Containers : ~Prepared(c)
  BY DEF Init, HostInit, Prepared
<1>3. \A c \in Containers : sides[c] = IF c \in gone THEN {} ELSE {"docker"}
  BY <1>2 DEF sides, gone
<1>4. sides = [c \in Containers |-> IF c \in gone THEN {} ELSE {"docker"}]
  BY <1>3 DEF sides
<1>5. QED BY <1>1, <1>4 DEF H!Init

(***************************************************************************)
(* PreMigrate prepares one container at a time, and docker's side of it    *)
(* stays as it is.                                                         *)
(***************************************************************************)
LEMMA PreMigrateIsPrepare ==
    ASSUME LiveInv, PreMigrate
    PROVE  [H!Next]_H!vars
<1> USE DEF LiveInv, TypeOK, HostTypeOK
<1>1. /\ UNCHANGED <<dockerd, pouchd, cstate>> /\ dockerd = "up" /\ pouchd = "down"
      /\ \/ pc' \in PreMigratePcs \union {"network"}
         \/ pc' = "off" /\ outcome' \in {"prepared", "unprepared"}
  BY DEF PreMigrate, InitPouchEnv, ListContainers, InspectContainer, EndOfContainers,
         DeleteOldEntry, NewContainer, TruncateMeta, WriteMeta, PrepareVolumes,
         GenerateSandboxMetaJSON, EngineInv, PreMigratePcs
<1>2. pc \in PreMigratePcs
  BY DEF PreMigrate, InitPouchEnv, ListContainers, InspectContainer, EndOfContainers,
         DeleteOldEntry, NewContainer, TruncateMeta, WriteMeta, PrepareVolumes,
         GenerateSandboxMetaJSON, PreMigratePcs
<1>3. engine = "docker" /\ engine' = engine
  BY <1>1 DEF engine
<1>4. phase = "serving" /\ phase' = IF pc' = "network" THEN "moving" ELSE "serving"
  BY <1>1, <1>2 DEF phase, PreMigratePcs, SafeOutcomes
<1>5. CASE DeleteOldEntry \/ NewContainer \/ TruncateMeta \/ WriteMeta
  <2>1. pc' # "network" /\ pc \in LoopPcs
    BY <1>5 DEF DeleteOldEntry, NewContainer, TruncateMeta, WriteMeta, LoopPcs
  <2>2. listed[k] \in Containers
    BY <2>1, CurrentFacts
  <2>3. \A c \in Containers : c # listed[k] =>
            /\ meta'[c] = meta[c] /\ savedStatus'[c] = savedStatus[c]
            /\ c \in registered' <=> c \in registered
    BY <1>5 DEF DeleteOldEntry, NewContainer, TruncateMeta, WriteMeta
  <2>4. /\ gone' = gone
        /\ ~Alive(listed[k]) => sides' = sides
        /\ \E s \in SUBSET {"docker", "pouch"} :
              (Alive(listed[k]) => "docker" \in s) /\ sides' = [sides EXCEPT ![listed[k]] = s]
    <3>1. /\ \A c \in Containers : Alive(c)' <=> Alive(c)
          /\ \A c \in Containers : c # listed[k] => (Prepared(c)' <=> Prepared(c))
      BY <1>1, <2>3 DEF Prepared
    <3>2. QED BY <2>2, <3>1, OneSideChanges
  <2>5. CASE Alive(listed[k])
    <3>1. listed[k] \in H!Present
      BY <2>2, <2>5 DEF H!Present, gone
    <3>2. H!Prepare(listed[k])
      BY <1>3, <1>4, <2>1, <2>4, <2>5, <3>1 DEF H!Prepare
    <3>3. QED BY <2>2, <3>2 DEF H!Next
  <2>6. CASE ~Alive(listed[k])
    BY <1>3, <1>4, <2>1, <2>4, <2>6 DEF H!vars
  <2>7. QED BY <2>5, <2>6
<1>6. CASE \/ InitPouchEnv \/ ListContainers \/ InspectContainer \/ EndOfContainers
           \/ PrepareVolumes \/ GenerateSandboxMetaJSON
  <2>1. UNCHANGED <<meta, savedStatus, registered>>
    BY <1>6
    DEF InitPouchEnv, ListContainers, InspectContainer, EndOfContainers, PrepareVolumes,
        GenerateSandboxMetaJSON
  <2>2. UNCHANGED <<sides, gone>>
    BY <1>1, <2>1, SidesKept DEF Prepared
  <2>3. QED BY <1>3, <1>4, <2>2 DEF H!vars, H!Next, H!Begin
<1>7. QED BY <1>5, <1>6 DEF PreMigrate

LEMMA StopKeepsContainers ==
    ASSUME StopDockerService
    PROVE  \A c \in Containers : Alive(c)' <=> Alive(c)
<1> DEFINE ended == {c \in Containers : cstate[c] \in {"running", "paused"} /\ ~LiveRestore}
<1>1. \/ cstate' = cstate
      \/ cstate' = [c \in Containers |-> IF c \in ended THEN "exited" ELSE cstate[c]]
  BY DEF StopDockerService
<1>2. \A c \in ended : Alive(c)
  OBVIOUS
<1> HIDE DEF ended
<1>3. QED BY <1>1, <1>2

(***************************************************************************)
(* The decision falls with the copy of the network database; from then on  *)
(* the steps of the run retire docker and let pouch take over.             *)
(***************************************************************************)
LEMMA OtherStepsAreHandoverSteps ==
    ASSUME LiveInv, StartRun \/ Migrate \/ PostMigrate \/ Crash
    PROVE  [H!Next]_H!vars
<1> USE DEF LiveInv, TypeOK, HostTypeOK
<1>1. UNCHANGED <<sides, gone>>
  <2>1. \A c \in Containers : Alive(c)' <=> Alive(c)
    <3>1. CASE StopDockerService
      BY <3>1, StopKeepsContainers
    <3>2. CASE ~StopDockerService
      <4>1. CASE StartRun \/ Migrate \/ Crash
        BY <4>1 DEF StartRun, Migrate, MigrateNetworkFile, KillContainerd, Crash
      <4>2. CASE PostMigrate
        BY <3>2, <4>2
        DEF PostMigrate, ListAgain, EraseDockerPackage, InstallPouchService, RemoveDeleted,
            EndOfPrune
      <4>3. QED BY <4>1, <4>2
    <3>3. QED BY <3>1, <3>2
  <2>2. CASE RemoveDeleted
    <3>1. deletedContainers[k] \in Containers /\ ~Alive(deletedContainers[k])
      BY <2>2 DEF RemoveDeleted, PruneInv, PostMigratePcs
    <3>2. \A c \in Containers : c # deletedContainers[k] =>
              /\ meta'[c] = meta[c] /\ savedStatus'[c] = savedStatus[c]
              /\ c \in registered' <=> c \in registered
      BY <2>2 DEF RemoveDeleted
    <3>3. \A c \in Containers : Alive(c) => (Prepared(c)' <=> Prepared(c))
      BY <3>1, <3>2 DEF Prepared
    <3>4. QED BY <2>1, <3>3, SidesKept
  <2>3. CASE ~RemoveDeleted
    <3>1. UNCHANGED <<meta, savedStatus, registered>>
      BY <2>3
      DEF StartRun, Migrate, MigrateNetworkFile, KillContainerd, PostMigrate, ListAgain,
          StopDockerService, EraseDockerPackage, InstallPouchService, EndOfPrune, Crash
    <3>2. \A c \in Containers : Alive(c) => (Prepared(c)' <=> Prepared(c))
      BY <3>1 DEF Prepared
    <3>3. QED BY <2>1, <3>2, SidesKept
  <2>4. QED BY <2>2, <2>3
<1>2. \A c \in H!Present : Alive(c) /\ "docker" \in sides[c]
  BY DEF H!Present, gone, sides
<1>3. CASE StartRun
  <2>1. engine = "docker" /\ engine' = engine /\ phase \in {"serving", "stuck"}
    BY <1>3 DEF StartRun, engine, phase, EngineInv
  <2>2. phase' = "serving"
    BY <1>3 DEF StartRun, phase
  <2>3. QED BY <1>1, <1>2, <2>1, <2>2 DEF H!vars, H!Next, H!Resume
<1>4. CASE MigrateNetworkFile
  <2>1. engine = "docker" /\ engine' = engine /\ phase = "moving"
    BY <1>4 DEF MigrateNetworkFile, engine, phase, EngineInv
  <2>2. \A c \in H!Present : "pouch" \in sides[c]
    <3>1. \A c \in Containers : Alive(c) => Prepared(c)
      BY <1>4 DEF MigrateNetworkFile, ReadyInv, ReadyPcs, Known
    <3>2. QED BY <3>1 DEF H!Present, gone, sides
  <2>3. phase' \in {"committed", "serving"}
    BY <1>4 DEF MigrateNetworkFile, phase, EngineInv, SafeOutcomes
  <2>4. QED BY <1>1, <1>2, <2>1, <2>2, <2>3 DEF H!vars, H!Next, H!Commit, H!Abort
<1>5. CASE KillContainerd
  BY <1>1, <1>5 DEF KillContainerd, engine, phase, H!vars
<1>6. CASE ListAgain
  <2>1. engine = "docker" /\ engine' = engine /\ phase = "committed"
    BY <1>6 DEF ListAgain, engine, phase, EngineInv
  <2>2. phase' \in {"committed", "stuck"}
    BY <1>6 DEF ListAgain, phase, SafeOutcomes, EngineInv
  <2>3. QED BY <1>1, <2>1, <2>2 DEF H!vars, H!Next, H!GiveUp
<1>7. CASE StopDockerService
  <2>1. engine = "docker" /\ phase = "committed" /\ dockerd = "up" /\ pouchd' = "down"
    BY <1>7 DEF StopDockerService, engine, phase, EngineInv
  <2>2. \/ engine' = "none" /\ phase' = "committed"
        \/ engine' = "docker" /\ phase' = "stuck"
    BY <1>7, <2>1 DEF StopDockerService, engine, phase, SafeOutcomes
  <2>3. QED BY <1>1, <2>1, <2>2 DEF H!Next, H!Retire, H!GiveUp
<1>8. CASE InstallPouchService
  <2>1. phase = "committed" /\ phase' = "committed" /\ engine # "docker"
    BY <1>8 DEF InstallPouchService, engine, phase, EngineInv
  <2>2. engine' = engine \/ (engine = "none" /\ engine' = "pouch")
    BY <1>8, <2>1 DEF InstallPouchService, engine
  <2>3. QED BY <1>1, <2>1, <2>2 DEF H!vars, H!Next, H!TakeOver
<1>9. CASE EraseDockerPackage \/ RemoveDeleted \/ EndOfPrune
  <2>1. dockerd # "up" /\ dockerd' # "up" /\ pouchd' = pouchd
    BY <1>9 DEF EraseDockerPackage, RemoveDeleted, EndOfPrune, EngineInv
  <2>2. QED BY <1>1, <2>1 DEF engine, phase, H!vars
<1>10. CASE Crash
  <2>1. CASE dockerd = "up"
    <3>1. engine = "docker" /\ engine' = engine
      BY <1>10, <2>1 DEF Crash, engine, EngineInv
    <3>2. phase' = "stuck" \/ (phase = "serving" /\ phase' = "serving")
      BY <1>10, <2>1
      DEF Crash, phase, SafeOutcomes, PreMigratePcs, PostMigratePcs
    <3>3. QED BY <1>1, <3>1, <3>2 DEF H!vars, H!Next, H!GiveUp
  <2>2. CASE dockerd # "up"
    BY <1>1, <1>10, <2>2 DEF Crash, engine, phase, H!vars
  <2>3. QED BY <2>1, <2>2
<1>11. QED BY <1>3, <1>4, <1>5, <1>6, <1>7, <1>8, <1>9, <1>10 DEF Migrate, PostMigrate

(***************************************************************************)
(* Of the acts on the host, the hand-over sees removals only.              *)
(***************************************************************************)
LEMMA HostStepIsDelete ==
    ASSUME LiveInv, HostStep
    PROVE  [H!Next]_H!vars
<1> USE DEF LiveInv, TypeOK, HostTypeOK
<1>1. UNCHANGED <<dockerd, pouchd, pc, outcome, meta, savedStatus, registered>>
  BY HostFacts
<1>2. UNCHANGED <<engine, phase>> /\ \A c \in Containers : Prepared(c)' <=> Prepared(c)
  BY <1>1 DEF engine, phase, Prepared
<1>3. PICK x \in Containers : Exit(x) \/ Remove(x) \/ Start(x) \/ Pause(x)
  BY DEF HostStep
<1>4. CASE Remove(x)
  <2>1. dockerd = "up" /\ cstate' = [cstate EXCEPT ![x] = "gone"]
    BY <1>4 DEF Remove
  <2>2. \A c \in Containers : sides'[c] = IF c = x THEN {} ELSE sides[c]
    BY <1>2, <2>1 DEF sides
  <2>3. sides' = [sides EXCEPT ![x] = {}]
    BY <2>2 DEF sides
  <2>4. gone' = gone \union {x}
    BY <2>1 DEF gone
  <2>5. engine = "docker"
    BY <2>1 DEF engine, EngineInv
  <2>6. H!Delete(x)
    BY <1>2, <2>3, <2>4, <2>5 DEF H!Delete
  <2>7. QED BY <2>6 DEF H!Next
<1>5. CASE ~Remove(x)
  <2>1. \A c \in Containers : Alive(c)' <=> Alive(c)
    BY <1>3, <1>5 DEF Exit, Start, Pause
  <2>2. UNCHANGED <<sides, gone>>
    BY <1>2, <2>1, SidesKept
  <2>3. QED BY <1>2, <2>2 DEF H!vars
<1>6. QED BY <1>4, <1>5

(***************************************************************************)
(* The live migration is a hand-over decided once for all containers,      *)
(* whatever fails and however often it is tried.                           *)
(***************************************************************************)
THEOREM LiveIsHandover == Spec => ImplementsHandover
<1>1. LiveInv /\ [Next]_vars => [H!Next]_H!vars
  <2>1. ASSUME LiveInv, Next PROVE [H!Next]_H!vars
    BY <2>1, PreMigrateIsPrepare, OtherStepsAreHandoverSteps, HostStepIsDelete
    DEF Next, RunCmd
  <2>2. ASSUME UNCHANGED vars PROVE UNCHANGED H!vars
    BY <2>2 DEF vars, H!vars, engine, sides, gone, phase, Prepared
  <2>3. QED BY <2>1, <2>2
<1>2. QED
  BY InitIsHandoverInit, <1>1, LiveInvHolds, PTL DEF Spec, ImplementsHandover, H!Spec
=============================================================================
