--------------------------- MODULE MCBackupEngine ---------------------------
(* An instance of BackupEngine for TLC: two albums, of three items and of one. *)
EXTENDS BackupEngine

Albums2 == <<1, 2, 1, 1>>
Selections == {<<1, 2>>, <<1>>}
=============================================================================
