---------------------------- MODULE RefundProofs ----------------------------
(* Refunds for any pods, admins and owners, any threshold of the breaker.  *)
EXTENDS Refund, TLAPS, SequenceTheorems

States == {"processing", "finished", "canceled"}

\* A goroutine in work has a pod, and one that has created a refund or waits for it
\* has that refund to the end.
InHand == \A g \in Procs :
  /\ ~At(g, "idle") => Pod(g) \in Pods
  /\ proc[g].pc \in {"remember", "wait", "forget", "success", "save"}
       => proc[g].refund \in Created

Returned == \E r \in Created : refunds[r] = "finished"

\* Past the last poll the money is back, and so it was when any goroutine has read
\* that the order is refunded.
MoneyFirst == \A g \in Procs :
  proc[g].pc \in {"forget", "success", "save"} \/ proc[g].copy.payment = "refunded" => Returned

\* An admin about to create a refund, who had found none and no rival on the way, is the
\* only one; until it has, the slips pay for every refund there is.  Otherwise the last
\* refund is free as long as some refund is known.
Fresh(g) == proc[g].pc \in {"opkey", "create"} /\ g \notin rivals
Accounted ==
  /\ \A g, h \in Admins : Fresh(g) /\ Fresh(h) => g = h
  /\ (\E g \in Admins : Fresh(g)) \/ ~Known => Len(refunds) <= slips
  /\ Len(refunds) <= 1 + slips

\* The same, for a step that asks for nothing.
Quiet ==
  /\ \A g \in Admins : Fresh(g)' => Fresh(g)
  /\ Len(refunds') = Len(refunds)
  /\ \/ slips' = slips /\ (Known => Known')
     \/ slips' = slips + 1

\* A new refund comes behind the others.
LEMMA OneRefundMore ==
  ASSUME refunds \in Seq(States), NewRefund
  PROVE  /\ refunds' \in Seq(States) /\ Created \subseteq Created' /\ Len(refunds) + 1 \in Created'
         /\ \A r \in Created : refunds'[r] = refunds[r]
         /\ Len(refunds) \in Nat /\ Len(refunds') = Len(refunds) + 1
<1>1. /\ refunds' \in Seq(States) /\ Len(refunds') = Len(refunds) + 1
      /\ \A r \in 1 .. Len(refunds) : refunds'[r] = refunds[r]
  BY AppendProperties DEF NewRefund, States
<1>2. Len(refunds) \in Nat /\ Created = 1 .. Len(refunds) /\ Created' = 1 .. Len(refunds')
  BY <1>1, LenProperties DEF Created
<1> QED
  BY <1>1, <1>2

\* A refund that is settled is none more and none less.
LEMMA SameRefunds ==
  ASSUME refunds \in Seq(States), NEW r \in Created, NEW s \in States,
         refunds' = [refunds EXCEPT ![r] = s]
  PROVE  /\ refunds' \in Seq(States) /\ Created' = Created /\ Len(refunds') = Len(refunds)
         /\ \A t \in Created : t # r => refunds'[t] = refunds[t]
<1>1. r \in 1 .. Len(refunds) /\ Len(refunds) \in Nat
  BY LenProperties DEF Created
<1>2. refunds' \in Seq(States) /\ Len(refunds') = Len(refunds)
  BY <1>1, ExceptSeq
<1>3. DOMAIN refunds' = DOMAIN refunds /\ \A t \in DOMAIN refunds : t # r => refunds'[t] = refunds[t]
  OBVIOUS
<1> QED
  BY <1>2, <1>3 DEF Created

\* The operations of the breaker keep its type.
LEMMA BreakerSteps ==
  ASSUME NEW b \in BreakerState
  PROVE  /\ Admitted(b) \in BreakerState /\ Failed(b, Threshold) \in BreakerState
         /\ Succeeded(b) \in BreakerState /\ Rested(b) \in BreakerState
<1>1. Admitted(b) \in BreakerState /\ Rested(b) \in BreakerState
  BY DEF Admitted, Rested, BreakerState
<1>2. Succeeded(b) \in BreakerState
  BY DEF Succeeded, ClosedBreaker, BreakerState
<1>3. Failed(b, Threshold) \in BreakerState
  <2>1. \A n \in Nat : [b EXCEPT !.failures = n] \in BreakerState
    BY DEF BreakerState
  <2>2. \A n \in Nat : [state |-> "open", failures |-> n, rested |-> FALSE] \in BreakerState
    BY DEF BreakerState
  <2>3. (IF b.failures < Threshold THEN b.failures + 1 ELSE Threshold) \in Nat
    BY RefundNumbers DEF BreakerState
  <2> QED
    BY <2>1, <2>2, <2>3 DEF Failed
<1> QED
  BY <1>1, <1>2, <1>3

(* Every variable has its type, and what a goroutine works with is there:   *)
(* only the death of a pod takes it away, and then the goroutine too.      *)
THEOREM RefundTypeCorrect == Spec => [](TypeOK /\ InHand)
<1> USE RefundNumbers, RefundAbsent
<1>1. Init => TypeOK /\ InHand
  BY DEF Init, TypeOK, InHand, Idle, NewRow, Row, ClosedBreaker, BreakerState, At, Pod
<1>2. TypeOK /\ InHand /\ [Next]_vars => TypeOK' /\ InHand'
  <2> SUFFICES ASSUME TypeOK, InHand, [Next]_vars PROVE TypeOK' /\ InHand'
    OBVIOUS
  <2> USE DEF TypeOK, InHand, At, Goto, Return, Pod, Idle, NewRow, Row
  <2>c. UNCHANGED refunds => Created' = Created
    BY DEF Created
  <2>a. Admins \subseteq Procs /\ Owners \subseteq Procs
    BY DEF Procs
  <2>0. CASE UNCHANGED vars
    BY <2>c, <2>a, <2>0 DEF vars
  <2>1. ASSUME NEW g \in Admins, NEW p \in Pods, Click(g, p) PROVE TypeOK' /\ InHand'
    BY <2>c, <2>a, <2>1 DEF Click
  <2>2. ASSUME NEW g \in Admins, Admit(g) PROVE TypeOK' /\ InHand'
    <3>b. breaker \in [Pods -> BreakerState] /\ breaker[Pod(g)] \in BreakerState
      BY <2>a, <2>2 DEF Admit
    <3>1. breaker' \in [Pods -> BreakerState]
      BY <2>2, <3>b, BreakerSteps DEF Admit
    <3>2. CASE Goto(g, "lookup")
      BY <2>c, <2>a, <2>2, <3>1, <3>2 DEF Admit
    <3>3. CASE Return(g)
      BY <2>c, <2>a, <2>2, <3>1, <3>3 DEF Admit
    <3> QED
      BY <2>2, <3>2, <3>3 DEF Admit
  <2>3. ASSUME NEW g \in Admins, ClientRefund(g) PROVE TypeOK' /\ InHand'
    <3>1. CASE LookUp(g)
      BY <2>c, <2>a, <3>1 DEF LookUp
    <3>2. CASE FetchOpKey(g)
      <4>1. CASE Goto(g, "create")
        BY <2>c, <2>a, <3>2, <4>1 DEF FetchOpKey
      <4>2. CASE Goto(g, "failure")
        BY <2>c, <2>a, <3>2, <4>2 DEF FetchOpKey
      <4> QED
        BY <3>2, <4>1, <4>2 DEF FetchOpKey
    <3>3. CASE CreateRefund(g)
      <4>1. /\ refunds' \in Seq(States) /\ Created \subseteq Created'
            /\ Len(refunds) + 1 \in Created'
        BY <3>3, OneRefundMore DEF CreateRefund, States
      <4>2. slips' \in Nat
        BY <3>3 DEF CreateRefund, Slip
      <4> QED
        BY <2>a, <3>3, <4>1, <4>2 DEF CreateRefund, States
    <3>4. CASE CreateFails(g)
      <4>1. refunds' \in Seq(States) /\ Created \subseteq Created'
        BY <2>c, <3>4, OneRefundMore DEF CreateFails, States
      <4>2. slips' \in Nat
        BY <3>4 DEF CreateFails, Slip
      <4> QED
        BY <2>a, <3>4, <4>1, <4>2 DEF CreateFails, States
    <3>5. CASE Remember(g)
      BY <2>c, <2>a, <3>5 DEF Remember
    <3>6. CASE Wait(g) \/ WaitFails(g)
      <4>1. CASE Goto(g, "forget")
        BY <2>c, <2>a, <3>6, <4>1 DEF Wait, WaitFails
      <4>2. CASE Goto(g, "failure")
        BY <2>c, <2>a, <3>6, <4>2 DEF Wait, WaitFails
      <4> QED
        BY <3>6, <4>1, <4>2 DEF Wait, WaitFails
    <3>7. CASE Forget(g)
      BY <2>c, <2>a, <3>7 DEF Forget
    <3> QED
      BY <2>3, <3>1, <3>2, <3>3, <3>4, <3>5, <3>6, <3>7 DEF ClientRefund
  <2>4. ASSUME NEW g \in Admins, Succeed(g) PROVE TypeOK' /\ InHand'
    BY <2>c, <2>a, <2>4, BreakerSteps DEF Succeed
  <2>5. ASSUME NEW g \in Admins, Fail(g) PROVE TypeOK' /\ InHand'
    <3>1. breaker' \in [Pods -> BreakerState]
      BY <2>a, <2>5, BreakerSteps DEF Fail
    <3> QED
      BY <2>c, <2>a, <2>5, <3>1 DEF Fail
  <2>6. ASSUME NEW g \in Admins, Save(g) \/ SaveFails(g) PROVE TypeOK' /\ InHand'
    <3>1. CASE Save(g)
      BY <2>c, <2>a, <3>1 DEF Save
    <3>2. CASE SaveFails(g)
      BY <2>c, <2>a, <3>2 DEF SaveFails, Slip
    <3> QED
      BY <2>6, <3>1, <3>2
  <2>7. ASSUME NEW g \in Owners, NEW p \in Pods, StartShare(g, p) PROVE TypeOK' /\ InHand'
    BY <2>c, <2>a, <2>7 DEF StartShare
  <2>8. ASSUME NEW g \in Owners, SetShareRevoked(g) PROVE TypeOK' /\ InHand'
    <3>1. slips' \in Nat
      BY <2>8 DEF SetShareRevoked, Slip
    <3> QED
      BY <2>c, <2>a, <2>8, <3>1 DEF SetShareRevoked, ShareToggled
  <2>9. ASSUME NEW r \in Created, Settle(r) PROVE TypeOK' /\ InHand'
    <3>1. refunds' \in Seq(States) /\ Created' = Created
      BY <2>9, SameRefunds DEF Settle, States
    <3> QED
      BY <2>9, <3>1 DEF Settle, States
  <2>10. ASSUME NEW p \in Pods, Rest(p) PROVE TypeOK' /\ InHand'
    BY <2>c, <2>10, BreakerSteps DEF Rest
  <2>11. ASSUME NEW p \in Pods, Die(p) PROVE TypeOK' /\ InHand'
    <3>1. breaker' \in [Pods -> BreakerState]
      BY <2>11 DEF Die, ClosedBreaker, BreakerState
    <3>2. slips' \in Nat
      BY <2>11 DEF Die, Slip
    <3>3. /\ row' = row /\ refunds' = refunds
          /\ pending' = [pending EXCEPT ![p] = 0]
          /\ proc' = [g \in Procs |-> IF Pod(g) = p THEN Idle ELSE proc[g]]
          /\ deaths < MaxDeaths /\ deaths' = deaths + 1
          /\ rivals' \subseteq rivals
      BY <2>11 DEF Die
    <3> QED
      BY <2>c, <2>a, <3>1, <3>2, <3>3
  <2> QED
    BY <2>0, <2>1, <2>2, <2>3, <2>4, <2>5, <2>6, <2>7, <2>8, <2>9, <2>10, <2>11
    DEF Next, AdminStep
<1> QED
  BY <1>1, <1>2, PTL DEF Spec

-----------------------------------------------------------------------------
(* A refunded order and its money.                                         *)

(* RefundedIsReturned: the row becomes refunded by a goroutine past a poll  *)
(* that found the money back, or by one whose copy said so already.        *)
THEOREM RefundedIsReturnedHolds == Spec => []RefundedIsReturned
<1> DEFINE Inv == MoneyFirst /\ RefundedIsReturned
<1> USE RefundAbsent
<1>1. Init => Inv
  BY DEF Init, MoneyFirst, RefundedIsReturned, Idle, NewRow
<1>2. TypeOK /\ TypeOK' /\ InHand /\ Inv /\ [Next]_vars => Inv'
  <2> SUFFICES ASSUME TypeOK, TypeOK', InHand, Inv, [Next]_vars PROVE Inv'
    OBVIOUS
  <2> USE DEF MoneyFirst, RefundedIsReturned, At, Goto, Return, Pod, Idle, NewRow
  <2>t. /\ proc \in [Procs -> [
             pc : {"idle", "admit", "lookup", "opkey", "create", "remember", "wait", "forget",
                   "success", "failure", "save", "share"},
             pod : Pods \cup {NoPod}, copy : Row, refund : Created \cup {0}]]
        /\ row \in Row /\ refunds \in Seq(States)
    BY DEF TypeOK, States
  <2>a. Admins \subseteq Procs /\ Owners \subseteq Procs
    BY DEF Procs
  <2>c. UNCHANGED refunds => (Returned' <=> Returned)
    BY DEF Returned, Created
  <2>d. Returned => RefundedIsReturned
    BY DEF Returned
  <2>e. NewRefund /\ Returned => Returned'
    BY <2>t, OneRefundMore DEF Returned
  <2>f. RefundedIsReturned' <=> (row'.payment = "refunded" => Returned')
    BY DEF Returned
  <2>g. row.payment = "refunded" => Returned
    BY DEF Returned
  <2> HIDE DEF RefundedIsReturned
  <2>0. CASE UNCHANGED vars
    BY <2>0, <2>c, <2>f, <2>g DEF vars
  <2>1. ASSUME NEW g \in Admins, NEW p \in Pods, Click(g, p) PROVE Inv'
    BY <2>1, <2>t, <2>a, <2>c, <2>f, <2>g DEF Click
  <2>2. ASSUME NEW g \in Admins, Admit(g) PROVE Inv'
    <3>1. CASE Goto(g, "lookup")
      BY <2>2, <3>1, <2>t, <2>a, <2>c, <2>f, <2>g DEF Admit
    <3>2. CASE Return(g)
      BY <2>2, <3>2, <2>t, <2>a, <2>c, <2>f, <2>g DEF Admit
    <3> QED
      BY <2>2, <3>1, <3>2 DEF Admit
  <2>3. ASSUME NEW g \in Admins, ClientRefund(g) PROVE Inv'
    <3>1. CASE LookUp(g)
      BY <3>1, <2>t, <2>a, <2>c, <2>f, <2>g DEF LookUp
    <3>2. CASE FetchOpKey(g)
      <4>1. CASE Goto(g, "create")
        BY <3>2, <4>1, <2>t, <2>a, <2>c, <2>f, <2>g DEF FetchOpKey
      <4>2. CASE Goto(g, "failure")
        BY <3>2, <4>2, <2>t, <2>a, <2>c, <2>f, <2>g DEF FetchOpKey
      <4> QED
        BY <3>2, <4>1, <4>2 DEF FetchOpKey
    <3>3. CASE CreateRefund(g)
      BY <3>3, <2>t, <2>a, <2>e, <2>f, <2>g DEF CreateRefund
    <3>4. CASE CreateFails(g)
      <4>1. Returned => Returned'
        BY <3>4, <2>c, <2>e DEF CreateFails
      <4> QED
        BY <3>4, <4>1, <2>t, <2>a, <2>f, <2>g DEF CreateFails
    <3>5. CASE Remember(g)
      BY <3>5, <2>t, <2>a, <2>c, <2>f, <2>g DEF Remember
    <3>6. CASE Wait(g)
      <4>1. CASE refunds[proc[g].refund] = "finished"
        <5>1. Returned
          BY <3>6, <4>1, <2>a DEF Wait, Returned, InHand
        <5> QED
          BY <5>1, <3>6, <2>c, <2>f DEF Wait
      <4>2. CASE refunds[proc[g].refund] # "finished"
        BY <3>6, <4>2, <2>t, <2>a, <2>c, <2>f, <2>g DEF Wait
      <4> QED
        BY <4>1, <4>2
    <3>7. CASE WaitFails(g)
      BY <3>7, <2>t, <2>a, <2>c, <2>f, <2>g DEF WaitFails
    <3>8. CASE Forget(g)
      BY <3>8, <2>t, <2>a, <2>c, <2>f, <2>g DEF Forget
    <3> QED
      BY <2>3, <3>1, <3>2, <3>3, <3>4, <3>5, <3>6, <3>7, <3>8 DEF ClientRefund
  <2>4. ASSUME NEW g \in Admins, Succeed(g) PROVE Inv'
    BY <2>4, <2>t, <2>a, <2>c, <2>f, <2>g DEF Succeed
  <2>5. ASSUME NEW g \in Admins, Fail(g) PROVE Inv'
    BY <2>5, <2>t, <2>a, <2>c, <2>f, <2>g DEF Fail
  <2>6. ASSUME NEW g \in Admins, Save(g) \/ SaveFails(g) PROVE Inv'
    <3>1. Returned
      BY <2>6, <2>a DEF Save, SaveFails
    <3> QED
      BY <2>6, <3>1, <2>c, <2>f DEF Save, SaveFails
  <2>7. ASSUME NEW g \in Owners, NEW p \in Pods, StartShare(g, p) PROVE Inv'
    BY <2>7, <2>t, <2>a, <2>c, <2>f, <2>g DEF StartShare
  <2>8. ASSUME NEW g \in Owners, SetShareRevoked(g) PROVE Inv'
    <3>1. row'.payment = proc[g].copy.payment
      BY <2>8, <2>t, <2>a DEF SetShareRevoked, ShareToggled, Row
    <3>2. row'.payment = "refunded" => Returned
      BY <3>1, <2>a
    <3> QED
      BY <2>8, <3>2, <2>t, <2>a, <2>c, <2>f DEF SetShareRevoked
  <2>9. ASSUME NEW r \in Created, Settle(r) PROVE Inv'
    <3>1. Returned => Returned'
      BY <2>9, <2>t, SameRefunds DEF Settle, States, Returned
    <3> QED
      BY <2>9, <3>1, <2>f, <2>g DEF Settle
  <2>10. ASSUME NEW p \in Pods, Rest(p) PROVE Inv'
    BY <2>10, <2>c, <2>f, <2>g DEF Rest
  <2>11. ASSUME NEW p \in Pods, Die(p) PROVE Inv'
    <3>1. /\ row' = row /\ refunds' = refunds
          /\ proc' = [g \in Procs |-> IF Pod(g) = p THEN Idle ELSE proc[g]]
      BY <2>11 DEF Die
    <3> QED
      BY <3>1, <2>c, <2>f, <2>g
  <2> QED
    BY <2>0, <2>1, <2>2, <2>3, <2>4, <2>5, <2>6, <2>7, <2>8, <2>9, <2>10, <2>11
    DEF Next, AdminStep
<1> QED
  BY <1>1, <1>2, RefundTypeCorrect, PTL DEF Spec

-----------------------------------------------------------------------------
(* The breaker.                                                            *)

(* ClosedBelowThreshold: whichever calls are under way, a failure that      *)
(* reaches the threshold opens the breaker, and only a success closes it.  *)
THEOREM ClosedBelowThresholdHolds == Spec => []ClosedBelowThreshold
<1> DEFINE Below(b) == b.state = "closed" => b.failures < Threshold
<1>1. Init => ClosedBelowThreshold
  BY RefundNumbers DEF Init, ClosedBelowThreshold, ClosedBreaker
<1>2. ASSUME NEW b \in BreakerState, Below(b)
      PROVE  /\ Below(Admitted(b)) /\ Below(Succeeded(b)) /\ Below(Rested(b))
             /\ Below(Failed(b, Threshold))
  BY <1>2, RefundNumbers DEF Admitted, Succeeded, Rested, Failed, ClosedBreaker, BreakerState
<1>3. Below(ClosedBreaker)
  BY RefundNumbers DEF ClosedBreaker
<1>4. TypeOK /\ ClosedBelowThreshold /\ [Next]_vars => ClosedBelowThreshold'
  <2> SUFFICES ASSUME TypeOK, ClosedBelowThreshold, [Next]_vars, NEW q \in Pods
               PROVE  Below(breaker[q])'
    BY DEF ClosedBelowThreshold
  <2>1. breaker[q] \in BreakerState /\ breaker \in [Pods -> BreakerState] /\ Below(breaker[q])
    BY DEF TypeOK, ClosedBelowThreshold
  <2>2. \/ breaker'[q] = breaker[q] \/ breaker'[q] = Admitted(breaker[q])
        \/ breaker'[q] = Succeeded(breaker[q]) \/ breaker'[q] = Failed(breaker[q], Threshold)
        \/ breaker'[q] = Rested(breaker[q]) \/ breaker'[q] = ClosedBreaker
    <3>0. CASE UNCHANGED vars
      BY <3>0 DEF vars
    <3>1. ASSUME NEW g \in Admins, AdminStep(g) PROVE <2>2
      BY <3>1, <2>1 DEF AdminStep, ClientRefund, Admit, LookUp, FetchOpKey, CreateRefund,
        CreateFails, Remember, Wait, WaitFails, Forget, Succeed, Fail, Save, SaveFails
    <3>2. CASE Next /\ ~ \E g \in Admins : AdminStep(g)
      BY <3>2, <2>1 DEF Next, Click, StartShare, SetShareRevoked, Settle, Rest, Die
    <3> QED
      BY <3>0, <3>1, <3>2
  <2> QED
    BY <2>1, <2>2, <1>2, <1>3
<1> QED
  BY <1>1, <1>4, RefundTypeCorrect, PTL DEF Spec

-----------------------------------------------------------------------------
(* How often the money is asked back.                                      *)

\* A step that asks for nothing costs nothing.
LEMMA QuietKeeps ==
  ASSUME Accounted, Quiet, Len(refunds) \in Nat, slips \in Nat
  PROVE  Accounted'
<1>1. \A g, h \in Admins : Fresh(g)' /\ Fresh(h)' => g = h
  BY DEF Accounted, Quiet
<1>2. (\E g \in Admins : Fresh(g)') \/ ~Known' => Len(refunds') <= slips'
  <2> SUFFICES ASSUME (\E g \in Admins : Fresh(g)') \/ ~Known' PROVE Len(refunds') <= slips'
    OBVIOUS
  <2>1. CASE slips' = slips + 1
    BY <2>1 DEF Accounted, Quiet
  <2>2. CASE slips' # slips + 1
    <3>1. (\E g \in Admins : Fresh(g)) \/ ~Known
      BY <2>2 DEF Quiet
    <3> QED
      BY <3>1, <2>2 DEF Accounted, Quiet
  <2> QED
    BY <2>1, <2>2
<1>3. Len(refunds') <= 1 + slips'
  BY DEF Accounted, Quiet
<1> QED
  BY <1>1, <1>2, <1>3 DEF Accounted

(* RefundsAccountedFor: every refund but the last one known was followed by *)
(* a slip, and a click that no slip precedes finds the refund that exists. *)
THEOREM RefundsAccountedForHolds == Spec => []RefundsAccountedFor
<1> USE RefundAbsent
<1>1. Init => Accounted
  BY DEF Init, Accounted, Fresh, Idle, Procs
<1>2. TypeOK /\ TypeOK' /\ InHand /\ Accounted /\ [Next]_vars => Accounted'
  <2> SUFFICES ASSUME TypeOK, TypeOK', InHand, Accounted, [Next]_vars
               PROVE  Accounted'
    OBVIOUS
  <2>t. /\ proc \in [Procs -> [
             pc : {"idle", "admit", "lookup", "opkey", "create", "remember", "wait", "forget",
                   "success", "failure", "save", "share"},
             pod : Pods \cup {NoPod}, copy : Row, refund : Created \cup {0}]]
        /\ row \in Row /\ refunds \in Seq(States) /\ pending \in [Pods -> Created \cup {0}]
        /\ Len(refunds) \in Nat /\ 0 \notin Created /\ slips \in Nat
    BY LenProperties DEF TypeOK, States, Created
  <2>a. Admins \subseteq Procs /\ Owners \subseteq Procs /\ Admins \cap Owners = {}
    BY DEF Procs
  <2>q. Quiet => Accounted'
    BY <2>t, QuietKeeps
  <2>k. /\ \A g \in Procs : ~At(g, "idle") => Pod(g) \in Pods
        /\ \A g \in Procs : proc[g].pc \in {"remember", "wait", "forget", "success", "save"}
                              => proc[g].refund # 0
    BY <2>t DEF InHand
  <2> USE DEF Known, Asking, Fresh, At, Goto, Return, Pod, Idle
  <2>0. CASE UNCHANGED vars
    BY <2>0, <2>q DEF vars, Quiet
  <2>1. ASSUME NEW g \in Admins, NEW p \in Pods, Click(g, p) PROVE Quiet
    BY <2>1, <2>t, <2>a DEF Click, Quiet
  <2>2. ASSUME NEW g \in Admins, Admit(g) PROVE Quiet
    <3>1. CASE Goto(g, "lookup")
      BY <2>2, <3>1, <2>t, <2>a DEF Admit, Quiet
    <3>2. CASE Return(g)
      BY <2>2, <3>2, <2>t, <2>a DEF Admit, Quiet
    <3> QED
      BY <2>2, <3>1, <3>2 DEF Admit
  <2>3. ASSUME NEW g \in Admins, LookUp(g) PROVE Accounted'
    <3>1. CASE pending[Pod(g)] = 0 /\ ~Known /\ Asking = {}
      <4>1. Len(refunds) <= slips
        BY <3>1 DEF Accounted
      <4>2. /\ \A h \in Admins : Fresh(h)' => h = g
            /\ Len(refunds') = Len(refunds) /\ slips' = slips
        BY <2>3, <3>1, <2>t, <2>a DEF LookUp
      <4> QED
        BY <4>1, <4>2, <2>t DEF Accounted
    <3>2. CASE pending[Pod(g)] # 0
      BY <2>3, <3>2, <2>t, <2>a, <2>q DEF LookUp, Quiet
    <3>3. CASE pending[Pod(g)] = 0 /\ (Known \/ Asking # {})
      BY <2>3, <3>3, <2>t, <2>a, <2>q DEF LookUp, Quiet
    <3> QED
      BY <3>1, <3>2, <3>3
  <2>4. ASSUME NEW g \in Admins, FetchOpKey(g) PROVE Quiet
    <3>1. CASE Goto(g, "create")
      BY <2>4, <3>1, <2>t, <2>a DEF FetchOpKey, Quiet
    <3>2. CASE Goto(g, "failure")
      BY <2>4, <3>2, <2>t, <2>a DEF FetchOpKey, Quiet
    <3> QED
      BY <2>4, <3>1, <3>2 DEF FetchOpKey
  <2>5. ASSUME NEW g \in Admins, CreateRefund(g) PROVE Accounted'
    <3>1. Len(refunds') = Len(refunds) + 1
      BY <2>5, <2>t, OneRefundMore DEF CreateRefund
    <3>2. Known' /\ ~Fresh(g)' /\ \A h \in Admins : Fresh(h)' => Fresh(h)
      BY <2>5, <2>t, <2>a DEF CreateRefund
    <3>3. CASE g \in rivals
      <4>1. slips' = slips + 1
        BY <2>5, <3>3 DEF CreateRefund, Slip
      <4>2. (\E h \in Admins : Fresh(h)') \/ ~Known' => Len(refunds) <= slips
        BY <3>2 DEF Accounted
      <4>3. (\A h, i \in Admins : Fresh(h)' /\ Fresh(i)' => h = i) /\ Len(refunds) <= 1 + slips
        BY <3>2 DEF Accounted
      <4> HIDE DEF Known, Fresh
      <4> QED
        BY <3>1, <4>1, <4>2, <4>3, <2>t DEF Accounted
    <3>4. CASE g \notin rivals
      <4>1. Fresh(g)
        BY <2>5, <3>4 DEF CreateRefund
      <4>2. (\A h \in Admins : ~Fresh(h)') /\ Len(refunds) <= slips /\ slips' = slips
        BY <2>5, <3>2, <3>4, <4>1 DEF CreateRefund, Slip, Accounted
      <4> QED
        BY <3>1, <3>2, <4>2, <2>t DEF Accounted
    <3> QED
      BY <3>3, <3>4
  <2>6. ASSUME NEW g \in Admins, CreateFails(g) PROVE Accounted'
    <3>1. (\A h \in Admins : Fresh(h)' => Fresh(h)) /\ (Known => Known')
      BY <2>6, <2>t, <2>a DEF CreateFails
    <3>2. CASE UNCHANGED <<refunds, slips>>
      BY <3>1, <3>2, <2>q DEF Quiet
    <3>3. CASE NewRefund /\ Slip(TRUE)
      <4>1. Len(refunds') = Len(refunds) + 1 /\ slips' = slips + 1
        BY <3>3, <2>t, OneRefundMore DEF Slip
      <4>2. (\E h \in Admins : Fresh(h)') \/ ~Known' => Len(refunds) <= slips
        BY <3>1 DEF Accounted
      <4>3. (\A h, i \in Admins : Fresh(h)' /\ Fresh(i)' => h = i) /\ Len(refunds) <= 1 + slips
        BY <3>1 DEF Accounted
      <4> HIDE DEF Known, Fresh
      <4> QED
        BY <4>1, <4>2, <4>3, <2>t DEF Accounted
    <3> QED
      BY <2>6, <3>2, <3>3 DEF CreateFails
  <2>7. ASSUME NEW g \in Admins, Remember(g) PROVE Quiet
    <3>1. Pod(g) \in Pods /\ pending'[Pod(g)] # 0
      BY <2>7, <2>t, <2>a, <2>k DEF Remember
    <3> QED
      BY <2>7, <3>1, <2>t, <2>a DEF Remember, Quiet
  <2>8. ASSUME NEW g \in Admins, Wait(g) \/ WaitFails(g) PROVE Quiet
    <3>1. CASE Goto(g, "forget")
      BY <2>8, <3>1, <2>t, <2>a DEF Wait, WaitFails, Quiet
    <3>2. CASE Goto(g, "failure")
      BY <2>8, <3>2, <2>t, <2>a DEF Wait, WaitFails, Quiet
    <3> QED
      BY <2>8, <3>1, <3>2 DEF Wait, WaitFails
  <2>9. ASSUME NEW g \in Admins, Forget(g) PROVE Quiet
    BY <2>9, <2>t, <2>a DEF Forget, Quiet
  <2>10. ASSUME NEW g \in Admins, Succeed(g) PROVE Quiet
    BY <2>10, <2>t, <2>a DEF Succeed, Quiet
  <2>11. ASSUME NEW g \in Admins, Fail(g) PROVE Quiet
    BY <2>11, <2>t, <2>a DEF Fail, Quiet
  <2>12. ASSUME NEW g \in Admins, Save(g) PROVE Quiet
    <3>1. row'.payment = "refunded"
      BY <2>12, <2>t, <2>a DEF Save, Row
    <3> QED
      BY <2>12, <3>1, <2>t, <2>a DEF Save, Quiet
  <2>13. ASSUME NEW g \in Admins, SaveFails(g) PROVE Quiet
    <3>1. (\A h \in Admins : Fresh(h)' => Fresh(h)) /\ Len(refunds') = Len(refunds)
      BY <2>13, <2>t, <2>a DEF SaveFails
    <3> QED
      BY <2>13, <3>1 DEF SaveFails, Slip, LostSight, Quiet
  <2>14. ASSUME NEW g \in Owners, NEW p \in Pods, StartShare(g, p) PROVE Quiet
    BY <2>14, <2>t, <2>a DEF StartShare, Quiet
  <2>15. ASSUME NEW g \in Owners, SetShareRevoked(g) PROVE Quiet
    <3>1. (\A h \in Admins : Fresh(h)' => Fresh(h)) /\ Len(refunds') = Len(refunds)
      BY <2>15, <2>t, <2>a DEF SetShareRevoked
    <3> QED
      BY <2>15, <3>1 DEF SetShareRevoked, Slip, LostSight, Quiet
  <2>16. ASSUME NEW r \in Created, Settle(r) PROVE Quiet
    <3>1. Len(refunds') = Len(refunds)
      BY <2>16, <2>t, SameRefunds DEF Settle, States
    <3> QED
      BY <2>16, <3>1 DEF Settle, Quiet
  <2>17. ASSUME NEW p \in Pods, Rest(p) PROVE Quiet
    BY <2>17 DEF Rest, Quiet
  <2>18. ASSUME NEW p \in Pods, Die(p) PROVE Quiet
    <3>1. (\A h \in Admins : Fresh(h)' => Fresh(h)) /\ Len(refunds') = Len(refunds)
      BY <2>18, <2>t, <2>a DEF Die
    <3> QED
      BY <2>18, <3>1 DEF Die, Slip, LostSight, Quiet
  <2> QED
    BY <2>0, <2>1, <2>2, <2>3, <2>4, <2>5, <2>6, <2>7, <2>8, <2>9, <2>10, <2>11, <2>12,
       <2>13, <2>14, <2>15, <2>16, <2>17, <2>18, <2>q DEF Next, AdminStep, ClientRefund
<1>3. Accounted => RefundsAccountedFor
  BY DEF Accounted, RefundsAccountedFor
<1> QED
  BY <1>1, <1>2, <1>3, RefundTypeCorrect, PTL DEF Spec
=============================================================================
