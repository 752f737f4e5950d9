----------------------------- MODULE MCCatalog -----------------------------
(* Catalog on small instances; see the configurations MCCatalog*.cfg. *)
EXTENDS Catalog

\* A choice of two options, one without any, which is refused, and words.
MCForms == {
  [kind |-> "inline", required |-> TRUE, n |-> 2], [kind |-> "inline", required |-> TRUE, n |-> 0],
  [kind |-> "text", required |-> FALSE, n |-> 0]}
=============================================================================
