-------------------------------- MODULE Runner --------------------------------
(***************************************************************************)
(* What the runs of the tool have in common, whichever Migrator they use:  *)
(* the process of main.runCmd and D2pMigrator, how it goes from call to    *)
(* call and leaves, and how its last run ended.                            *)
(***************************************************************************)
EXTENDS Host

CONSTANTS
    Locked,     \* users start and pause no container while the tool runs
    RerunAfter, \* outcomes after which the operator starts the tool again
    MaxRuns     \* bound on the number of runs

VARIABLES
    pc,                \* the call that comes next; "off" when no process runs
    k,                 \* index of the loop it is in
    migrateAll,        \* cfg.MigrateAll
    listed,            \* PreMigrate's containers, in docker's order
    allContainers,     \* "none" (no key), "false" or "true"
    deletedContainers,
    outcome,           \* how the last run ended
    runs               \* runs so far

\* Outcomes that leave every file where docker had it.
SafeOutcomes == {"none", "prepared", "unprepared", "reverted"}
Outcomes == SafeOutcomes \union {"interrupted", "revertFailed", "postFailed", "done"}

ASSUME RunAssumption ==
    /\ Locked \in BOOLEAN
    /\ RerunAfter \subseteq Outcomes
    /\ MaxRuns \in Nat

\* The process ends; the kernel kills its containerd with it (Pdeathsig).
Leave(how) ==
    /\ pc' = "off"
    /\ outcome' = how
    /\ ctrd' = "stopped"
    /\ UNCHANGED k

Goto(label) == pc' = label /\ UNCHANGED <<k, ctrd, outcome>>

\* Enters the loop at label, or returns to its head for the next element.
Enter(label) == pc' = label /\ k' = 1 /\ UNCHANGED <<ctrd, outcome>>
Again(label) == pc' = label /\ k' = k + 1 /\ UNCHANGED <<ctrd, outcome>>

\* PreMigrate returned an error.
FailPreMigrate == Leave("unprepared")

\* PreMigrate returned nil.
EndPreMigrate ==
    \/ migrateAll /\ Goto("network")
    \/ ~migrateAll /\ Leave("prepared")
=============================================================================
