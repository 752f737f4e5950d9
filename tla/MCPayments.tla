----------------------------- MODULE MCPayments -----------------------------
(* Payments on small instances; see the configurations MCPayments*.cfg. *)
EXTENDS Payments, TLC

MCDiscounts == {2, 4}
MCSymmetry == Permutations(Procs) \cup Permutations(Orders)
=============================================================================
