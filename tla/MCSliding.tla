----------------------------- MODULE MCSliding ------------------------------
(***************************************************************************)
(* Instances of Sliding for TLC.  The runs check liveness or look for one  *)
(* counterexample, so no symmetry set is used.                             *)
(***************************************************************************)
EXTENDS Sliding

CONSTANTS i1, i2, i3

=============================================================================
