---------------------------- MODULE ColdHandover ----------------------------
(***************************************************************************)
(* The refinement mapping by which ColdMigrator implements Handover.       *)
(***************************************************************************)
EXTENDS ColdMigrator

engine == IF pouchd = "up" THEN "pouch" ELSE IF dockerd = "up" THEN "docker" ELSE "none"

sides ==
    [c \in Containers |->
        {s \in {"docker", "pouch"} :
            /\ Alive(c)
            /\ s = "docker" => AtDocker(c)
            /\ s = "pouch" => Prepared(c) /\ InPouch(c)}]

gone == {c \in Containers : ~Alive(c)}

\* The decision falls when the last move has succeeded.
phase ==
    IF dockerd # "up" \/ pc \in {"kill", "relist", "uninstall"} THEN "committed"
    ELSE IF pc \in {"move"} \union RevertPcs THEN "moving"
    ELSE IF pc = "off" /\ outcome \notin SafeOutcomes THEN "stuck"
    ELSE "serving"

H == INSTANCE Handover

(***************************************************************************)
(* The whole of the tool, with its failures, restarts of the tool after a  *)
(* safe outcome and acts of users, is a hand-over that is decided once for *)
(* all containers: docker is never retired unless every remaining          *)
(* container is complete in pouch, an attempt is never undone unless docker *)
(* has everything back, and from the decision on no file moves.            *)
(***************************************************************************)
ImplementsHandover == H!Spec
=============================================================================
