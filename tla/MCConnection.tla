---------------------------- MODULE MCConnection ----------------------------
(* An instance of Connection for TLC: two servers, the first with two         *)
(* libraries.                                                                 *)
EXTENDS Connection
Libraries == {"x1", "x2", "y1"}
Where == [l \in Libraries |-> IF l = "y1" THEN "y" ELSE "x"]
=============================================================================
