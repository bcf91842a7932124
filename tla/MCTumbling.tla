----------------------------- MODULE MCTumbling -----------------------------
(***************************************************************************)
(* Instances of Tumbling for TLC.  Receipts are interchangeable, so that   *)
(* safety runs may use their permutations as a symmetry set.               *)
(***************************************************************************)
EXTENDS Tumbling, TLC

CONSTANTS i1, i2, i3

ReceiptSymmetry == Permutations(Ids)

=============================================================================
