------------------------------ MODULE MCStripe ------------------------------
(* Small instances of the reconciliation of an order.                       *)
EXTENDS StripeProperties, TLC

ReceiverSymmetry == Permutations(Receivers)
=============================================================================
