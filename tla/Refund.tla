------------------------------- MODULE Refund -------------------------------
(***************************************************************************)
(* The refund of a delivered order: AdminUseCase.RefundOrder, the Refund   *)
(* of the Robokassa client under its breaker, and Robokassa.               *)
(*                                                                         *)
(* A refund is three calls (the key of the operation, the creation of a    *)
(* refund, polls of its state) and a save of the whole row, read before    *)
(* all of them.  What stops a second refund of the same money is a map in  *)
(* the memory of the pod, from the order to the refund it waits for.       *)
(*                                                                         *)
(* The order is complete: what a refund does to a running generation is    *)
(* told in Generation.  Its owner may meanwhile revoke the public link, a  *)
(* save of the whole row as well.                                          *)
(***************************************************************************)
EXTENDS Breaker, Sequences

CONSTANTS
  Pods,
  Admins,      \* goroutines of RefundOrder, each a click after another
  Owners,      \* goroutines of SetShareRevoked
  Threshold,   \* failures that open the breaker (3)
  MaxRefunds,  \* bound: refunds created at Robokassa
  MaxDeaths,   \* bound: pods that die
  NoPod

ASSUME RefundNumbers ==
  /\ Threshold \in Nat \ {0} /\ MaxRefunds \in Nat /\ MaxDeaths \in Nat
ASSUME RefundAbsent == NoPod \notin Pods /\ Admins \cap Owners = {}

VARIABLES
  row,       \* the order: payment_status, and whether the link is revoked
  refunds,   \* Robokassa: the refunds of the order, in the order of creation
  breaker,   \* the breaker of each pod
  pending,   \* Client.pendingRefunds of each pod: the refund waited for, 0 for none
  proc,      \* the goroutines
  deaths,
  rivals,    \* history: who found no refund in its map while one was on its way or made
  slips      \* history: the times a refund was lost sight of

vars == <<row, refunds, breaker, pending, proc, deaths, rivals, slips>>

Procs == Admins \cup Owners
Created == DOMAIN refunds
Row == [payment : {"paid", "refunded"}, revoked : BOOLEAN]
NewRow == [payment |-> "paid", revoked |-> FALSE]

\* A goroutine: its pod, its copy of the row, its refund, the answer it ends with.
Idle == [pc |-> "idle", pod |-> NoPod, copy |-> NewRow, refund |-> 0]

Init ==
  /\ row = NewRow
  /\ refunds = <<>>
  /\ breaker = [p \in Pods |-> ClosedBreaker]
  /\ pending = [p \in Pods |-> 0]
  /\ proc = [g \in Procs |-> Idle]
  /\ deaths = 0 /\ rivals = {} /\ slips = 0

-----------------------------------------------------------------------------

At(g, pc) == proc[g].pc = pc
Goto(g, pc) ==
  /\ proc' = [proc EXCEPT ![g].pc = pc]
  /\ rivals' = IF pc = "failure" THEN rivals \ {g} ELSE rivals
Return(g) == proc' = [proc EXCEPT ![g] = Idle] /\ rivals' = rivals \ {g}
Pod(g) == proc[g].pod

\* Some pod's map, some goroutine or the order tells of a refund that was created;
\* some goroutine is about to create one.
Known ==
  \/ row.payment = "refunded" \/ \E p \in Pods : pending[p] # 0
  \/ \E g \in Admins : proc[g].pc \in {"remember", "forget", "success", "save"}
Asking == {g \in Admins : proc[g].pc \in {"opkey", "create"}}

Slip(condition) == slips' = IF condition THEN slips + 1 ELSE slips
LostSight == Known /\ ~Known'

\* RefundOrder reads the order, and refuses one that is not paid.
Click(g, p) ==
  /\ At(g, "idle") /\ row.payment = "paid"
  /\ proc' = [proc EXCEPT ![g] = [Idle EXCEPT !.pc = "admit", !.pod = p, !.copy = row]]
  /\ UNCHANGED <<row, refunds, breaker, pending, deaths, rivals, slips>>

\* Breaker.Do admits the call, or answers ErrCircuitOpen.
Admit(g) ==
  /\ At(g, "admit")
  /\ LET b == breaker[Pod(g)]
     IN IF Admits(b)
          THEN /\ breaker' = [breaker EXCEPT ![Pod(g)] = Admitted(b)]
               /\ Goto(g, "lookup")
          ELSE Return(g) /\ UNCHANGED breaker
  /\ UNCHANGED <<row, refunds, pending, deaths, slips>>

\* Refund: a refund that was created before is waited for again.
LookUp(g) ==
  /\ At(g, "lookup")
  /\ LET r == pending[Pod(g)]
     IN /\ proc' = [proc EXCEPT ![g].pc = IF r = 0 THEN "opkey" ELSE "wait", ![g].refund = r]
        /\ rivals' = IF r = 0 /\ (Known \/ Asking # {}) THEN rivals \cup {g} ELSE rivals
  /\ UNCHANGED <<row, refunds, breaker, pending, deaths, slips>>

\* fetchOpKey: OpStateExt knows the operation, or the call fails.
FetchOpKey(g) ==
  /\ At(g, "opkey")
  /\ Goto(g, "create") \/ Goto(g, "failure")
  /\ UNCHANGED <<row, refunds, breaker, pending, deaths, slips>>

NewRefund == refunds' = Append(refunds, "processing")

\* createRefund: Robokassa creates a refund of the whole payment.
CreateRefund(g) ==
  /\ At(g, "create") /\ Len(refunds) < MaxRefunds
  /\ NewRefund
  /\ proc' = [proc EXCEPT ![g].pc = "remember", ![g].refund = Len(refunds) + 1]
  /\ Slip(g \in rivals) /\ rivals' = rivals \ {g}
  /\ UNCHANGED <<row, breaker, pending, deaths>>

\* It refuses, or creates the refund and its answer is lost.
CreateFails(g) ==
  /\ At(g, "create")
  /\ \/ UNCHANGED <<refunds, slips>>
     \/ Len(refunds) < MaxRefunds /\ NewRefund /\ Slip(TRUE)
  /\ Goto(g, "failure")
  /\ UNCHANGED <<row, breaker, pending, deaths>>

\* setPendingRefund.
Remember(g) ==
  /\ At(g, "remember")
  /\ pending' = [pending EXCEPT ![Pod(g)] = proc[g].refund]
  /\ Goto(g, "wait")
  /\ UNCHANGED <<row, refunds, breaker, deaths, slips>>

WaitInVain(g) ==
  /\ At(g, "wait")
  /\ refunds[proc[g].refund] # "processing"
  /\ Goto(g, "forget")
  /\ UNCHANGED <<row, refunds, breaker, pending, deaths, slips>>

\* waitRefundFinished: a poll finds the refund finished, or cancelled.
Wait(g) ==
  /\ At(g, "wait")
  /\ refunds[proc[g].refund] # "processing"
  /\ Goto(g, IF refunds[proc[g].refund] = "finished" THEN "forget" ELSE "failure")
  /\ UNCHANGED <<row, refunds, breaker, pending, deaths, slips>>

WaitForgetful(g) ==
  /\ At(g, "wait")
  /\ Goto(g, "failure")
  /\ pending' = [pending EXCEPT ![Pod(g)] = 0]
  /\ UNCHANGED <<row, refunds, breaker, deaths, slips>>

\* The deadline of 45 seconds, a failed poll, a label the client does not know, or an
\* admin who has closed the page.  The refund stays in the map.
WaitFails(g) ==
  /\ At(g, "wait")
  /\ Goto(g, "failure")
  /\ UNCHANGED <<row, refunds, breaker, pending, deaths, slips>>

\* clearPendingRefund, before the order is saved.
Forget(g) ==
  /\ At(g, "forget")
  /\ pending' = [pending EXCEPT ![Pod(g)] = 0]
  /\ Goto(g, "success")
  /\ UNCHANGED <<row, refunds, breaker, deaths, slips>>

\* Breaker.Do settles the call: any error counts, the admin's own included.
Succeed(g) ==
  /\ At(g, "success")
  /\ breaker' = [breaker EXCEPT ![Pod(g)] = Succeeded(@)]
  /\ Goto(g, "save")
  /\ UNCHANGED <<row, refunds, pending, deaths, slips>>

Fail(g) ==
  /\ At(g, "failure")
  /\ breaker' = [breaker EXCEPT ![Pod(g)] = Failed(@, Threshold)]
  /\ Return(g)
  /\ UNCHANGED <<row, refunds, pending, deaths, slips>>

\* MarkRefunded and the Update of the whole row, on the copy read before the calls.
Save(g) ==
  /\ At(g, "save")
  /\ row' = [proc[g].copy EXCEPT !.payment = "refunded"]
  /\ Return(g)
  /\ UNCHANGED <<refunds, breaker, pending, deaths, slips>>

\* The money is back and the order stays paid.
SaveFails(g) ==
  /\ At(g, "save")
  /\ Return(g)
  /\ UNCHANGED <<row, refunds, breaker, pending, deaths>>
  /\ Slip(LostSight)

-----------------------------------------------------------------------------
(* Around it.                                                              *)

\* requireOrderAccess reads the order of the owner.
StartShare(g, p) ==
  /\ At(g, "idle")
  /\ proc' = [proc EXCEPT ![g] = [Idle EXCEPT !.pc = "share", !.pod = p, !.copy = row]]
  /\ UNCHANGED <<row, refunds, breaker, pending, deaths, rivals, slips>>

\* RevokeShare, RestoreShare.
ShareToggled(copy) == [copy EXCEPT !.revoked = ~@]

\* SetShareRevoked: an Update of the whole row.
SetShareRevoked(g) ==
  /\ At(g, "share")
  /\ row' = ShareToggled(proc[g].copy)
  /\ Return(g)
  /\ UNCHANGED <<refunds, breaker, pending, deaths>>
  /\ Slip(LostSight)

\* Robokassa carries a refund out, or cancels it.
Settle(r) ==
  /\ refunds[r] = "processing"
  /\ \E s \in {"finished", "canceled"} : refunds' = [refunds EXCEPT ![r] = s]
  /\ UNCHANGED <<row, breaker, pending, proc, deaths, rivals, slips>>

\* The timeout of an open breaker passes.
Rest(p) ==
  /\ breaker[p].state = "open" /\ ~breaker[p].rested
  /\ breaker' = [breaker EXCEPT ![p] = Rested(@)]
  /\ UNCHANGED <<row, refunds, pending, proc, deaths, rivals, slips>>

\* A pod dies, and another takes its place: its goroutines, its map and its breaker
\* are gone.
Die(p) ==
  LET gone == {g \in Procs : Pod(g) = p}
  IN /\ deaths < MaxDeaths /\ deaths' = deaths + 1
     /\ breaker' = [breaker EXCEPT ![p] = ClosedBreaker]
     /\ pending' = [pending EXCEPT ![p] = 0]
     /\ proc' = [g \in Procs |-> IF g \in gone THEN Idle ELSE proc[g]] /\ rivals' = rivals \ gone
     /\ UNCHANGED <<row, refunds>>
     /\ Slip(LostSight)

-----------------------------------------------------------------------------

ClientRefund(g) ==
  \/ LookUp(g) \/ FetchOpKey(g) \/ CreateRefund(g) \/ CreateFails(g)
  \/ Remember(g) \/ Wait(g) \/ WaitFails(g) \/ Forget(g)

AdminStep(g) ==
  \/ Admit(g) \/ ClientRefund(g) \/ Succeed(g) \/ Fail(g) \/ Save(g) \/ SaveFails(g)

Next ==
  \/ \E g \in Admins : AdminStep(g) \/ \E p \in Pods : Click(g, p)
  \/ \E g \in Owners : SetShareRevoked(g) \/ \E p \in Pods : StartShare(g, p)
  \/ \E r \in Created : Settle(r)
  \/ \E p \in Pods : Rest(p) \/ Die(p)

Spec == Init /\ [][Next]_vars

-----------------------------------------------------------------------------
(* Properties.                                                             *)

\* Every variable has its type; a goroutine waits for a refund that exists.
TypeOK ==
  /\ row \in Row
  /\ refunds \in Seq({"processing", "finished", "canceled"})
  /\ breaker \in [Pods -> BreakerState]
  /\ pending \in [Pods -> Created \cup {0}]
  /\ proc \in [Procs -> [
       pc : {"idle", "admit", "lookup", "opkey", "create", "remember", "wait", "forget",
             "success", "failure", "save", "share"},
       pod : Pods \cup {NoPod}, copy : Row, refund : Created \cup {0}]]
  /\ \A g \in Procs : At(g, "wait") => proc[g].refund \in Created
  /\ deaths \in 0 .. MaxDeaths
  /\ rivals \subseteq Admins /\ slips \in Nat

\* An order is refunded only after Robokassa has returned the money: no timeout, no
\* cancelled refund and no answer the client does not understand passes for one.
RefundedIsReturned == row.payment = "refunded" => \E r \in Created : refunds[r] = "finished"

\* The money of an order is asked back once, and once more for each time a refund was
\* lost sight of: the answer of createRefund was lost; a click that overlapped another,
\* or came to another pod, found its map empty; the save after the last refund known
\* failed, its pod died, or an owner's save made the order paid again.  No other failure
\* leads to a second refund, however often an admin clicks again: not a refusal, a
\* missing key, a timeout, a failed poll, a cancelled refund, a closed page or a breaker.
RefundsAccountedFor == Len(refunds) <= 1 + slips

\* A closed breaker has seen fewer failures in a row than open it, however the calls
\* that ended late were interleaved.
ClosedBelowThreshold == \A p \in Pods :
  breaker[p].state = "closed" => breaker[p].failures < Threshold
=============================================================================
