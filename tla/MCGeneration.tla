---------------------------- MODULE MCGeneration ----------------------------
(* Generation on small instances; see the configurations MCGeneration*.cfg. *)
EXTENDS Generation, TLC

MCSymmetry == Permutations(Workers) \cup Permutations(Orders)
=============================================================================
