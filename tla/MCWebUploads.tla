---------------------------- MODULE MCWebUploads ----------------------------
(* Instances of WebUploads for TLC.                                          *)
EXTENDS WebUploads
=============================================================================
