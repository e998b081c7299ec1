--------------------------- MODULE MCLiveMigrator ---------------------------
(* Small instances of LiveMigrator. *)
EXTENDS LiveHandover, TLC

CONSTANTS c1, c2, i1

SharedImage == [c \in Containers |-> i1]
=============================================================================
