--------------------------- MODULE MCColdMigrator ---------------------------
(* Small instances of ColdMigrator. *)
EXTENDS ColdHandover, ColdInvariant, TLC

CONSTANTS c1, c2, c3, i1, i2

SharedImage == [c \in Containers |-> i1]
OwnImage == c1 :> i1 @@ c2 :> i2
=============================================================================
