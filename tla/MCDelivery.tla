----------------------------- MODULE MCDelivery -----------------------------
(***************************************************************************)
(* Instances of Delivery for TLC: one tumbling stream, which has a store,  *)
(* and one sliding stream, which has none.                                 *)
(***************************************************************************)
EXTENDS Delivery

CONSTANTS m1, m2, bad, post, tumbling, sliding

TwoStreams == <<sliding, tumbling>>

=============================================================================
