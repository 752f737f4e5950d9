----------------------------- MODULE MCService -----------------------------
(* Service on small instances; see the configurations MCService*.cfg. *)
EXTENDS Service

Good == [env |-> "prod", mode |-> "all", password |-> "own", session |-> "own",
         admin |-> "own", rest |-> TRUE]

\* Production whole, as a worker, and with one mistake; development with nothing set.
MCSettings == {
  Good, [Good EXCEPT !.mode = "worker"],
  [Good EXCEPT !.password = "unset"], [Good EXCEPT !.mode = "api", !.session = "malformed"],
  [env |-> "dev", mode |-> "all", password |-> "unset", session |-> "unset",
   admin |-> "unset", rest |-> FALSE]}
=============================================================================
