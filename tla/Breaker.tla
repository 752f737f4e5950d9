------------------------------ MODULE Breaker ------------------------------
(***************************************************************************)
(* The circuit breaker (pkg/circuitbreaker) that every client of a remote  *)
(* service is wrapped in: Suno, the LLM, S3, the refunds of Robokassa.  It *)
(* is a value of its pod; Do takes the lock to admit a call and again to   *)
(* settle it, and holds it over neither the call nor a retry inside it.    *)
(***************************************************************************)
EXTENDS Integers

\* rested: the timeout has passed since the breaker opened.
BreakerState == [state : {"closed", "open", "halfOpen"}, failures : Nat, rested : BOOLEAN]

ClosedBreaker == [state |-> "closed", failures |-> 0, rested |-> FALSE]

\* Do lets a call through, unless the breaker is open and its timeout runs.
Admits(b) == b.state # "open" \/ b.rested
Admitted(b) == IF b.state = "open" THEN [b EXCEPT !.state = "halfOpen"] ELSE b

SucceededKeepingFailures(b) == [b EXCEPT !.state = "closed"]

\* The call succeeded: whatever the state is by now, it becomes closed.
Succeeded(b) == ClosedBreaker

\* The call failed.  A failure of the trial opens it again, and its timeout restarts.
\* The code counts on past the threshold; no step tells such counts apart.
Failed(b, threshold) ==
  LET n == IF b.failures < threshold THEN b.failures + 1 ELSE threshold
  IN IF b.state = "halfOpen" \/ n >= threshold
       THEN [state |-> "open", failures |-> n, rested |-> FALSE]
       ELSE [b EXCEPT !.failures = n]

Rested(b) == [b EXCEPT !.rested = TRUE]
=============================================================================
