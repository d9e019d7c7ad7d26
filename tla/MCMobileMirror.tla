--------------------------- MODULE MCMobileMirror ---------------------------
(* An instance of MobileMirror for TLC. *)
EXTENDS MobileMirror
=============================================================================
