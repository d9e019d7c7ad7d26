--------------------------- MODULE MCBackupUpload ---------------------------
(* An instance of BackupUpload for TLC: a Live Photo and two libraries.      *)
EXTENDS BackupUpload

\* The still is sent in two chunks, the motion in one.
Sizes == [c \in Component |-> IF c[2] = 1 THEN 2 ELSE 1]
=============================================================================
