--------------------------- MODULE MCCaptureUpload ---------------------------
(* Instances of CaptureUpload for TLC.                                        *)
EXTENDS CaptureUpload

\* One session.
OneFile == {"f1"}
OneDirOf == [f \in OneFile |-> "s1"]
OneContentOf == [f \in OneFile |-> "a"]

\* Two sessions that upload copies of one file.
TwoFile == {"f1", "f2"}
TwoDirOf == [f \in TwoFile |-> IF f = "f1" THEN "s1" ELSE "s2"]
TwoContentOf == [f \in TwoFile |-> "a"]
=============================================================================
