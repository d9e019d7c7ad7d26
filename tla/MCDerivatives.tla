---------------------------- MODULE MCDerivatives ----------------------------
(* Instances of Derivatives for TLC.                                         *)
EXTENDS Derivatives
=============================================================================
