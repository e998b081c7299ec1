---------------------------- MODULE LiveHandover ----------------------------
(***************************************************************************)
(* The refinement mapping by which LiveMigrator implements Handover.       *)
(***************************************************************************)
EXTENDS LiveMigrator

engine == IF pouchd = "up" THEN "pouch" ELSE IF dockerd = "up" THEN "docker" ELSE "none"

\* Files stay where docker has them; pouch's side is what pouchd has to know.
sides ==
    [c \in Containers |->
        {s \in {"docker", "pouch"} : Alive(c) /\ (s = "pouch" => Prepared(c))}]

gone == {c \in Containers : ~Alive(c)}

\* The decision falls when the network database has been copied.
phase ==
    IF dockerd # "up" \/ pc \in {"kill", "relist", "uninstall"} THEN "committed"
    ELSE IF pc = "network" THEN "moving"
    ELSE IF pc = "off" /\ outcome \notin SafeOutcomes THEN "stuck"
    ELSE "serving"

H == INSTANCE Handover

(***************************************************************************)
(* Live migration keeps the same promise as cold migration: docker is not  *)
(* retired unless pouch can take over every remaining container, and then  *)
(* nothing that it needs is touched again; but here another attempt may    *)
(* follow an attempt that was interrupted or gave up.                      *)
(***************************************************************************)
ImplementsHandover == H!Spec
=============================================================================
