---------------------------- MODULE MCImportQueue ----------------------------
(* Instances of ImportQueue for TLC.                                          *)
EXTENDS ImportQueue

\* A browser upload of two files and a capture; f1 and f3 are copies.
QueueFile == {"f1", "f2", "f3"}
QueueDirOf == [f \in QueueFile |-> IF f = "f3" THEN "k" ELSE "u"]
QueueContentOf == [f \in QueueFile |-> IF f = "f2" THEN "b" ELSE "a"]

\* An upload and a command-line import of copies of one file.
LiveFile == {"f1", "f2"}
LiveDirOf == [f \in LiveFile |-> IF f = "f1" THEN "u" ELSE "l"]
LiveContentOf == [f \in LiveFile |-> "a"]
=============================================================================
