------------------------------- MODULE Intake -------------------------------
(***************************************************************************)
(* What the import queue promises to whoever uploads a file, without       *)
(* saying how: from the moment the upload is accepted the server has the   *)
(* file in its keeping, first as staged bytes and then as an asset of the  *)
(* library, and it never drops one that has not become an asset.           *)
(***************************************************************************)
CONSTANT Item

VARIABLE keeping

Init == keeping = [f \in Item |-> "outside"]

\* One upload brings some files in; a copy of what the library already has
\* counts as stored from the start.
Accept(S, known) ==
  /\ S # {} /\ known \subseteq S
  /\ \A f \in S : keeping[f] = "outside"
  /\ keeping' = [f \in Item |-> IF f \in known THEN "stored"
                                ELSE IF f \in S THEN "staged" ELSE keeping[f]]

\* One new asset may be the content of several staged files.
Store(S) ==
  /\ S # {}
  /\ \A f \in S : keeping[f] = "staged"
  /\ keeping' = [f \in Item |-> IF f \in S THEN "stored" ELSE keeping[f]]

Next == \E S \in SUBSET Item :
          Store(S) \/ \E known \in SUBSET S : Accept(S, known)

Spec == Init /\ [][Next]_keeping
=============================================================================
