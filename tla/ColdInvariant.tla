---------------------------- MODULE ColdInvariant ----------------------------
(***************************************************************************)
(* The inductive invariant behind HandoverComplete, NoFileLost and         *)
(* RevertRestores: what is known about the host at each point of a run,    *)
(* provided the tool is started again only after an outcome that has left  *)
(* all files with docker.                                                  *)
(***************************************************************************)
EXTENDS ColdMigrator

\* Points at which all listed containers are prepared.
ReadyPcs ==
    {"volumes", "sandboxes"} \union MigratePcs \union RevertPcs \union PostMigratePcs

\* Points, between runs and in one, at which no file has left docker's side.
AtRest ==
    \/ pc \in PreMigratePcs \union {"network", "stop", "restart"}
    \/ pc = "off" /\ outcome \in SafeOutcomes

Mapped(c) == \E j \in 1..Len(upperDirMappingList) : upperDirMappingList[j] = c

FilesAccounted ==
    /\ NoFileLost
    /\ \A c \in Containers : snapUpper[c] \cap Hidden = {}
    /\ AtRest => \A c \in Containers : Alive(c) => AtDocker(c)

\* The loop over the listed containers has prepared those before index k, and
\* works on the k-th, which may be a container it has met before.
LoopInvariant ==
    /\ pc \in {"env", "list"} => upperDirMappingList = <<>>
    /\ pc \in {"inspect"} \union PreMigrateLoop =>
           /\ k <= IF pc = "inspect" THEN Len(listed) + 1 ELSE Len(listed)
           /\ \A c \in Containers : Alive(c) => \E j \in 1..Len(listed) : listed[j] = c
           /\ Len(upperDirMappingList) = IF pc \in {"open", "write"} THEN k ELSE k - 1
           /\ \A j \in 1..Len(upperDirMappingList) : upperDirMappingList[j] = listed[j]
           /\ \A j \in 1..k - 1 :
                 pc = "inspect" \/ listed[j] # listed[k] => Prepared(listed[j])
           /\ pc \in {"quota", "open", "write"} => listed[k] \in snapshot

\* From the end of that loop on, nothing is left out.
KnownInvariant ==
    /\ pc \notin {"off", "env"} => homeDir
    /\ pc \in ReadyPcs => \A c \in Containers : Alive(c) => Prepared(c) /\ Mapped(c)
    /\ pc \in {"stop", "move", "kill"} \union PostMigratePcs => netdb

MoveInvariant ==
    /\ pc = "move" =>
          \A j \in 1..Len(upperDirMappingList) :
              j < k /\ Alive(upperDirMappingList[j]) => InPouch(upperDirMappingList[j])
    /\ pc = "back" =>
          \A j \in 1..Len(upperDirMappingList) :
              j < k /\ Alive(upperDirMappingList[j]) => AtDocker(upperDirMappingList[j])
    /\ pc \in {"kill"} \union PostMigratePcs =>
          \A c \in Containers : Alive(c) => InPouch(c)

PostInvariant ==
    /\ pc \in PostMigratePcs \ {"relist"} =>
          \A j \in 1..Len(deletedContainers) : ~Alive(deletedContainers[j])
    /\ dockerd # "up" => pc \in {"off", "erase", "install", "prune", "launch"}
    /\ HandoverComplete

(***************************************************************************)
(* The conjunction of all that; checked on small instances, and proved     *)
(* inductive for every value of the constants.                             *)
(***************************************************************************)
IInv ==
    /\ TypeOK
    /\ FilesAccounted
    /\ LoopInvariant
    /\ KnownInvariant
    /\ MoveInvariant
    /\ PostInvariant
=============================================================================
