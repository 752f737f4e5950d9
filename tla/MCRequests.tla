----------------------------- MODULE MCRequests -----------------------------
(* Requests on small instances; see the configurations MCRequests*.cfg. *)
EXTENDS Requests, TLC

MCSymmetry ==
  Permutations(Attempts) \cup Permutations(Workers) \cup Permutations(Emails)
=============================================================================
