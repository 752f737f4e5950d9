------------------------------ MODULE MCRefund ------------------------------
(* Refund on small instances; see the configurations MCRefund*.cfg. *)
EXTENDS Refund, TLC

MCSymmetry == Permutations(Pods) \cup Permutations(Admins)
=============================================================================
