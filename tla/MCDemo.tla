------------------------------- MODULE MCDemo -------------------------------
(* Demo on small instances; see the configurations MCDemo*.cfg. *)
EXTENDS Demo, TLC

MCSymmetry == Permutations(Workers)
=============================================================================
