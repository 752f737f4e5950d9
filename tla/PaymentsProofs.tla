--------------------------- MODULE PaymentsProofs ---------------------------
(* Proofs about Payments, for any orders, goroutines, prices and codes.    *)
EXTENDS Payments, TLAPS, FiniteSetTheorems

\* A goroutine that moves to a well-formed record leaves all of them well formed.
LEMMA BecomeOK ==
  ASSUME ProcOK, NEW p \in Procs, NEW g \in Goroutine, g.pc # "idle" => g.order \in Orders,
         Become(p, g)
  PROVE  ProcOK'
  BY DEF ProcOK, Become

\* Going to another program point, or back to idle, is such a move.
LEMMA GotoOK ==
  ASSUME ProcOK, NEW p \in Procs, proc[p].pc # "idle", NEW pc \in PCs, Goto(p, pc)
  PROVE  ProcOK'
<1> DEFINE g == [proc[p] EXCEPT !.pc = pc]
<1>1. g \in Goroutine /\ g.order = proc[p].order
  BY DEF ProcOK, Goroutine
<1>2. Become(p, g)
  BY DEF Goto
<1> HIDE DEF g
<1> QED
  BY <1>1, <1>2, BecomeOK DEF ProcOK

\* A goroutine that is done is idle again, and idle is well formed.
LEMMA ReturnOK ==
  ASSUME ProcOK, NEW p \in Procs, Return(p)
  PROVE  ProcOK'
<1>1. Idle \in Goroutine /\ Idle.pc = "idle"
  BY DEF Idle, Goroutine, PCs, Sources
<1> QED
  BY <1>1, BecomeOK DEF Return

\* A handler that enters on an order is well formed.
LEMMA BeginOK ==
  ASSUME ProcOK, NEW p \in Procs, NEW o \in Orders, NEW via \in Sources, NEW pc \in PCs,
         payment[o] \in {"absent", "pending", "paid"}, Begin(p, o, via, pc)
  PROVE  ProcOK'
<1> DEFINE g == [Idle EXCEPT !.pc = pc, !.order = o, !.via = via, !.outer = payment[o]]
<1>1. g \in Goroutine /\ g.order = o
  BY DEF Idle, Goroutine, PCs, Sources
<1>2. Become(p, g)
  BY DEF Begin
<1> HIDE DEF g
<1> QED
  BY <1>1, <1>2, BecomeOK

\* Leaving the demo lane, for the main lane or for good, is such a move.
LEMMA AfterDemoOK ==
  ASSUME ProcOK, NEW p \in Procs, proc[p].pc # "idle", AfterDemo(p)
  PROVE  ProcOK'
<1> DEFINE g == [proc[p] EXCEPT !.pc = "poll", !.sum = 0]
<1>1. g \in Goroutine /\ g.order = proc[p].order
  BY DEF ProcOK, Goroutine, PCs
<1>2. Become(p, g) \/ Return(p)
  BY DEF AfterDemo
<1> HIDE DEF g
<1> QED
  BY <1>1, <1>2, BecomeOK, ReturnOK DEF ProcOK

\* Counting one more release keeps the counters natural numbers.
LEMMA BumpOK ==
  ASSUME NEW f \in [Orders -> [Lanes -> Nat]], NEW o \in Orders, NEW l \in Lanes
  PROVE  [f EXCEPT ![o][l] = @ + 1] \in [Orders -> [Lanes -> Nat]]
<1>1. f[o] \in [Lanes -> Nat] /\ f[o][l] \in Nat
  OBVIOUS
<1>2. [f[o] EXCEPT ![l] = @ + 1] \in [Lanes -> Nat]
  BY <1>1
<1> QED
  BY <1>2

(* TypeOK: each handler step keeps every column and every goroutine in its *)
(* domain (the whole of Payments).                                         *)
THEOREM TypeCorrect == Spec => []TypeOK
<1> USE PricesAssumption, AbsentAssumption
<1>1. Init => TypeOK
  BY DEF Init, TypeOK, ProcOK, Goroutine, PCs, Idle, Sources, Lanes
<1>2. TypeOK /\ [Next]_vars => TypeOK'
  <2> SUFFICES ASSUME TypeOK, [Next]_vars PROVE TypeOK'
    OBVIOUS
  <2> USE DEF TypeOK, row, robokassa, history
  <2>1. ASSUME NEW p \in Procs, NEW o \in Orders, Enter(p, o) PROVE TypeOK'
    <3>1. ASSUME NEW c \in Discounts \cup {NoCode}, StartCreate(p, o, c) PROVE TypeOK'
      <4> DEFINE k == IF c = NoCode THEN Price ELSE Price - PromoApply(c, Price)
                 g == [Idle EXCEPT !.pc = IF c = NoCode THEN "insert" ELSE "createUse",
                                   !.order = o, !.via = "create", !.code = c, !.quote = k]
      <4>1. k \in Nat
        BY DEF PromoApply, Min2
      <4> HIDE DEF k
      <4>2. g \in Goroutine /\ g.order = o
        BY <4>1 DEF Idle, Goroutine, PCs, Sources
      <4>3. Become(p, g)
        BY <3>1 DEF StartCreate, k
      <4> HIDE DEF g
      <4>4. ProcOK'
        BY <4>2, <4>3, BecomeOK
      <4> QED
        BY <3>1, <4>4 DEF StartCreate
    <3>2. ASSUME NEW c \in Discounts, StartPromo(p, o, c) PROVE TypeOK'
      <4> DEFINE k == amount[o] - PromoApply(c, amount[o])
                 g == [Idle EXCEPT !.pc = "promoUse", !.order = o, !.code = c, !.quote = k]
      <4>1. k \in Nat
        BY DEF PromoApply, Min2
      <4> HIDE DEF k
      <4>2. g \in Goroutine /\ g.order = o
        BY <4>1 DEF Idle, Goroutine, PCs, Sources
      <4>3. Become(p, g)
        BY <3>2 DEF StartPromo, k
      <4> HIDE DEF g
      <4>4. ProcOK'
        BY <4>2, <4>3, BecomeOK
      <4> QED
        BY <3>2, <4>4 DEF StartPromo
    <3>3. ASSUME NEW l \in Lanes, Webhook(p, o, l) PROVE TypeOK'
      <4> DEFINE g == [Idle EXCEPT !.pc = IF l = "main" THEN "load" ELSE "demoLoad",
                                   !.order = o, !.sum = received[o][l]]
      <4>1. received[o][l] \in Nat
        OBVIOUS
      <4>2. g \in Goroutine /\ g.order = o
        BY <4>1 DEF Idle, Goroutine, PCs, Sources
      <4>4. Become(p, g)
        BY <3>3 DEF Webhook
      <4> HIDE DEF g
      <4>3. ProcOK'
        BY <4>2, <4>4, BecomeOK
      <4> QED
        BY <3>3, <4>3 DEF Webhook
    <3>4. CASE SyncPayment(p, o)
      <4>1. \E via \in Sources, pc \in PCs : Begin(p, o, via, pc)
        BY <3>4 DEF SyncPayment, Sources, PCs
      <4>2. ProcOK'
        BY <4>1, BeginOK
      <4> QED
        BY <3>4, <4>2 DEF SyncPayment
    <3>5. CASE Reconcile(p, o)
      <4>1. \E via \in Sources, pc \in PCs : Begin(p, o, via, pc)
        BY <3>5 DEF Reconcile, Sources, PCs
      <4>2. ProcOK'
        BY <4>1, BeginOK
      <4> QED
        BY <3>5, <4>2 DEF Reconcile
    <3>6. CASE RecoverFree(p, o)
      <4>1. \E via \in Sources, pc \in PCs : Begin(p, o, via, pc)
        BY <3>6 DEF RecoverFree, Sources, PCs
      <4>2. ProcOK'
        BY <4>1, BeginOK
      <4> QED
        BY <3>6, <4>2 DEF RecoverFree
    <3>7. CASE AdminConfirm(p, o)
      <4>1. \E via \in Sources, pc \in PCs : Begin(p, o, via, pc)
        BY <3>7 DEF AdminConfirm, Sources, PCs
      <4>2. ProcOK'
        BY <4>1, BeginOK
      <4> QED
        BY <3>7, <4>2 DEF AdminConfirm
    <3>8. CASE RecoverOrphanedQueued(p, o)
      <4>1. \E via \in Sources, pc \in PCs : Begin(p, o, via, pc)
        BY <3>8 DEF RecoverOrphanedQueued, Sources, PCs
      <4>2. ProcOK'
        BY <4>1, BeginOK
      <4> QED
        BY <3>8, <4>2 DEF RecoverOrphanedQueued
    <3> QED
      BY <2>1, <3>1, <3>2, <3>3, <3>4, <3>5, <3>6, <3>7, <3>8 DEF Enter
  <2>2. ASSUME NEW p \in Procs, Step(p) PROVE TypeOK'
    <3>1. CASE IncrementUses(p)
      <4>1. ProcOK'
        BY <3>1, GotoOK, ReturnOK DEF IncrementUses, At, PCs
      <4> QED
        BY <3>1, <4>1 DEF IncrementUses
    <3>2. CASE InsertOrder(p)
      <4>1. ProcOK'
        BY <3>2, GotoOK, ReturnOK DEF InsertOrder, At, PCs
      <4>2. /\ proc[p].order \in Orders /\ proc[p].quote \in Nat
            /\ proc[p].via \in Sources /\ proc[p].code \in Discounts \cup {NoCode}
        BY <3>2 DEF InsertOrder, At, ProcOK, Goroutine
      <4> QED
        BY <3>2, <4>1, <4>2 DEF InsertOrder, At
    <3>3. CASE WritePromo(p)
      <4>1. ProcOK'
        BY <3>3, ReturnOK DEF WritePromo
      <4>2. /\ proc[p].order \in Orders /\ proc[p].quote \in Nat
            /\ proc[p].via \in Sources /\ proc[p].code \in Discounts \cup {NoCode}
        BY <3>3 DEF WritePromo, At, ProcOK, Goroutine
      <4>3. \A k \in Nat : Min2(k, proc[p].quote) \in Nat
        BY <4>2 DEF Min2
      <4>4. amount' \in [Orders -> Nat] /\ lowest' \in [Orders -> Nat]
        <5>1. CASE payment[proc[p].order] = "pending"
          <6>1. /\ amount' = [amount EXCEPT ![proc[p].order] = proc[p].quote]
                /\ lowest' = [lowest EXCEPT ![proc[p].order] =
                                Min2(lowest[proc[p].order], proc[p].quote)]
            BY <3>3, <5>1 DEF WritePromo
          <6>2. amount \in [Orders -> Nat] /\ lowest \in [Orders -> Nat]
            OBVIOUS
          <6>3. Min2(lowest[proc[p].order], proc[p].quote) \in Nat
            BY <4>2, <4>3, <6>2
          <6> QED
            BY ONLY <4>2, <6>1, <6>2, <6>3
        <5>2. CASE payment[proc[p].order] # "pending"
          BY <3>3, <5>2 DEF WritePromo
        <5> QED
          BY <5>1, <5>2
      <4>5. promoCode' \in [Orders -> Discounts \cup {NoCode}]
        BY <3>3, <4>2 DEF WritePromo
      <4> QED
        BY <3>3, <4>1, <4>2, <4>3, <4>4, <4>5 DEF WritePromo
    <3>4. CASE PollDemoPaid(p)
      <4> DEFINE g == [proc[p] EXCEPT !.pc = "demoLoad", !.sum = received[proc[p].order]["demo"]]
      <4>1. proc[p].pc # "idle" /\ Become(p, g)
        BY <3>4 DEF PollDemoPaid, At
      <4>4. proc[p] \in Goroutine /\ proc[p].order \in Orders
        BY <4>1 DEF ProcOK
      <4>5. received[proc[p].order]["demo"] \in Nat
        BY <4>4 DEF Lanes
      <4>2. g \in Goroutine /\ g.order = proc[p].order
        BY <4>4, <4>5 DEF Goroutine, PCs
      <4> HIDE DEF g
      <4>3. ProcOK'
        BY <4>1, <4>2, <4>4, BecomeOK
      <4> QED
        BY <3>4, <4>3 DEF PollDemoPaid
    <3>5. CASE PollDemoSkip(p)
      <4>1. ProcOK'
        BY <3>5, AfterDemoOK DEF PollDemoSkip, At
      <4> QED
        BY <3>5, <4>1 DEF PollDemoSkip
    <3>6. CASE LoadDemo(p)
      <4>1. ProcOK'
        BY <3>6, GotoOK, AfterDemoOK DEF LoadDemo, At, PCs
      <4> QED
        BY <3>6, <4>1 DEF LoadDemo
    <3>7. CASE ApplyDemo(p)
      <4>1. ProcOK'
        BY <3>7, GotoOK, AfterDemoOK DEF ApplyDemo, At, PCs
      <4>2. /\ proc[p].order \in Orders /\ proc[p].quote \in Nat
            /\ proc[p].via \in Sources /\ proc[p].code \in Discounts \cup {NoCode}
        BY <3>7 DEF ApplyDemo, At, ProcOK, Goroutine
      <4> QED
        BY <3>7, <4>1, <4>2 DEF ApplyDemo, At
    <3>8. CASE EnqueueDemo(p)
      <4>1. ProcOK'
        BY <3>8, AfterDemoOK DEF EnqueueDemo, At
      <4>2. /\ proc[p].order \in Orders /\ proc[p].quote \in Nat
            /\ proc[p].via \in Sources /\ proc[p].code \in Discounts \cup {NoCode}
        BY <3>8 DEF EnqueueDemo, At, ProcOK, Goroutine
      <4>3. released' \in [Orders -> [Lanes -> Nat]]
        <5>1. "demo" \in Lanes
          BY DEF Lanes
        <5>2. [released EXCEPT ![proc[p].order]["demo"] = @ + 1] \in [Orders -> [Lanes -> Nat]]
          BY <4>2, <5>1, BumpOK
        <5> QED
          BY <3>8, <5>2 DEF EnqueueDemo
      <4> QED
        BY <3>8, <4>1, <4>2, <4>3 DEF EnqueueDemo
    <3>9. CASE PollPaid(p)
      <4> DEFINE g == [proc[p] EXCEPT !.pc = "load", !.sum = received[proc[p].order]["main"]]
      <4>1. proc[p].pc # "idle" /\ Become(p, g)
        BY <3>9 DEF PollPaid, At
      <4>4. proc[p] \in Goroutine /\ proc[p].order \in Orders
        BY <4>1 DEF ProcOK
      <4>5. received[proc[p].order]["main"] \in Nat
        BY <4>4 DEF Lanes
      <4>2. g \in Goroutine /\ g.order = proc[p].order
        BY <4>4, <4>5 DEF Goroutine, PCs
      <4> HIDE DEF g
      <4>3. ProcOK'
        BY <4>1, <4>2, <4>4, BecomeOK
      <4> QED
        BY <3>9, <4>3 DEF PollPaid
    <3>10. CASE PollFails(p)
      <4>1. ProcOK'
        BY <3>10, ReturnOK DEF PollFails
      <4> QED
        BY <3>10, <4>1 DEF PollFails
    <3>11. CASE Load(p)
      <4>1. ProcOK'
        BY <3>11, GotoOK, ReturnOK DEF Load, At, PCs
      <4> QED
        BY <3>11, <4>1 DEF Load
    <3>12. CASE Apply(p)
      <4>1. ProcOK'
        BY <3>12, GotoOK, ReturnOK DEF Apply, At, PCs
      <4>2. /\ proc[p].order \in Orders /\ proc[p].quote \in Nat
            /\ proc[p].via \in Sources /\ proc[p].code \in Discounts \cup {NoCode}
        BY <3>12 DEF Apply, At, ProcOK, Goroutine
      <4> QED
        BY <3>12, <4>1, <4>2 DEF Apply, At
    <3>13. CASE EnqueueTask(p)
      <4>1. ProcOK'
        BY <3>13, ReturnOK DEF EnqueueTask
      <4>2. /\ proc[p].order \in Orders /\ proc[p].quote \in Nat
            /\ proc[p].via \in Sources /\ proc[p].code \in Discounts \cup {NoCode}
        BY <3>13 DEF EnqueueTask, At, ProcOK, Goroutine
      <4> QED
        BY <3>13, <4>1, <4>2 DEF EnqueueTask, Lanes
    <3>14. CASE Abort(p)
      <4>1. ProcOK'
        BY <3>14, ReturnOK DEF Abort
      <4> QED
        BY <3>14, <4>1 DEF Abort
    <3> QED
      BY <2>2, <3>1, <3>2, <3>3, <3>4, <3>5, <3>6, <3>7, <3>8, <3>9, <3>10, <3>11, <3>12, <3>13, <3>14 DEF Step
  <2>3. ASSUME NEW o \in Orders, World(o) PROVE TypeOK'
    <3>1. ASSUME NEW l \in Lanes, OpenPage(o, l) PROVE TypeOK'
      <4>1. LinkSum(o, l) \in Nat
        BY DEF LinkSum, Remaining
      <4> QED
        BY <3>1, <4>1 DEF OpenPage, ProcOK
    <3>2. ASSUME NEW l \in Lanes, Pay(o, l) PROVE TypeOK'
      BY <3>2 DEF Pay, ProcOK
    <3>3. CASE Age(o)
      BY <3>3 DEF Age, ProcOK
    <3>4. CASE StartGeneration(o)
      BY <3>4 DEF StartGeneration, ProcOK
    <3>5. CASE LoseTask(o)
      BY <3>5 DEF LoseTask, ProcOK
    <3> QED
      BY <2>3, <3>1, <3>2, <3>3, <3>4, <3>5 DEF World
  <2>4. CASE UNCHANGED vars
    BY <2>4 DEF vars, ProcOK
  <2> QED
    BY <2>1, <2>2, <2>3, <2>4 DEF Next
<1>3. QED
  BY <1>1, <1>2, PTL DEF Spec

-----------------------------------------------------------------------------
(* Where each move leaves its goroutine; every other one stays as it was.  *)

\* What a step of p leaves alone: every other goroutine.
Others(p) == \A q \in Procs : q # p => proc'[q] = proc[q]

\* Become replaces the record of one goroutine and of no other.
LEMMA BecomeIs ==
  ASSUME ProcOK, NEW p \in Procs, NEW g, Become(p, g)
  PROVE  proc'[p] = g /\ Others(p)
  BY DEF ProcOK, Become, Others

\* Goto changes where a goroutine stands and nothing of what it carries.
LEMMA GotoIs ==
  ASSUME ProcOK, NEW p \in Procs, NEW pc \in PCs, Goto(p, pc)
  PROVE  /\ proc'[p].pc = pc /\ proc'[p].order = proc[p].order
         /\ proc'[p].via = proc[p].via /\ proc'[p].sum = proc[p].sum
         /\ Others(p)
<1> DEFINE g == [proc[p] EXCEPT !.pc = pc]
<1>1. /\ g.pc = pc /\ g.order = proc[p].order
      /\ g.via = proc[p].via /\ g.sum = proc[p].sum
  BY DEF ProcOK, Goroutine
<1>2. Become(p, g)
  BY DEF Goto
<1> HIDE DEF g
<1> QED
  BY <1>1, <1>2, BecomeIs

\* After Return the goroutine is idle and has no order.
LEMMA ReturnIs ==
  ASSUME ProcOK, NEW p \in Procs, Return(p)
  PROVE  proc'[p].pc = "idle" /\ proc'[p].order = NoOrder /\ Others(p)
<1>1. Idle.pc = "idle" /\ Idle.order = NoOrder
  BY DEF Idle
<1> QED
  BY <1>1, BecomeIs DEF Return

\* A handler starts from idle, with the order and the path it was called for.
LEMMA BeginIs ==
  ASSUME ProcOK, NEW p \in Procs, NEW o, NEW via, NEW pc, Begin(p, o, via, pc)
  PROVE  /\ proc[p].pc = "idle"
         /\ proc'[p].pc = pc /\ proc'[p].order = o
         /\ proc'[p].via = via /\ proc'[p].sum = 0
         /\ Others(p)
<1> DEFINE g == [Idle EXCEPT !.pc = pc, !.order = o, !.via = via, !.outer = payment[o]]
<1>1. g.pc = pc /\ g.order = o /\ g.via = via /\ g.sum = 0
  BY DEF Idle
<1>2. proc[p].pc = "idle" /\ Become(p, g)
  BY DEF Begin
<1> HIDE DEF g
<1> QED
  BY <1>1, <1>2, BecomeIs

\* After the demo lane the goroutine polls the main invoice of its order, or is idle.
LEMMA AfterDemoIs ==
  ASSUME ProcOK, NEW p \in Procs, AfterDemo(p)
  PROVE  /\ \/ proc'[p].pc = "poll" /\ proc'[p].order = proc[p].order
            \/ proc'[p].pc = "idle" /\ proc'[p].order = NoOrder
         /\ Others(p)
<1> DEFINE g == [proc[p] EXCEPT !.pc = "poll", !.sum = 0]
<1>1. g.pc = "poll" /\ g.order = proc[p].order
  BY DEF ProcOK, Goroutine
<1>2. Become(p, g) \/ Return(p)
  BY DEF AfterDemo
<1> HIDE DEF g
<1> QED
  BY <1>1, <1>2, BecomeIs, ReturnIs

\* CreateOrder starts from idle on an order that nobody has yet.
LEMMA StartCreateIs ==
  ASSUME ProcOK, NEW p \in Procs, NEW o, NEW c, StartCreate(p, o, c)
  PROVE  /\ proc[p].pc = "idle"
         /\ proc'[p].pc \in {"insert", "createUse"} /\ proc'[p].order = o
         /\ proc'[p].sum = 0
         /\ Others(p)
         /\ payment[o] = "absent"
         /\ \A q \in Procs : proc[q].order # o
         /\ UNCHANGED <<row, age, uses, tasks, robokassa, history>>
<1> DEFINE g == [Idle EXCEPT !.pc = IF c = NoCode THEN "insert" ELSE "createUse",
                             !.order = o, !.via = "create", !.code = c,
                             !.quote = IF c = NoCode THEN Price
                                       ELSE Price - PromoApply(c, Price)]
<1>1. g.pc \in {"insert", "createUse"} /\ g.order = o /\ g.sum = 0
  BY DEF Idle
<1>2. proc[p].pc = "idle" /\ Become(p, g)
  BY DEF StartCreate
<1>3. /\ payment[o] = "absent"
      /\ \A q \in Procs : proc[q].order # o
      /\ UNCHANGED <<row, age, uses, tasks, robokassa, history>>
  BY DEF StartCreate
<1> HIDE DEF g
<1> QED
  BY <1>1, <1>2, <1>3, BecomeIs

\* ApplyPromoToOrder starts from idle on a pending order.
LEMMA StartPromoIs ==
  ASSUME ProcOK, NEW p \in Procs, NEW o, NEW c, StartPromo(p, o, c)
  PROVE  /\ proc[p].pc = "idle"
         /\ proc'[p].pc = "promoUse" /\ proc'[p].order = o
         /\ Others(p)
         /\ payment[o] = "pending"
         /\ UNCHANGED <<row, age, uses, tasks, robokassa, history>>
<1> DEFINE g == [Idle EXCEPT !.pc = "promoUse", !.order = o, !.code = c,
                             !.quote = amount[o] - PromoApply(c, amount[o])]
<1>1. g.pc = "promoUse" /\ g.order = o
  BY DEF Idle
<1>2. proc[p].pc = "idle" /\ Become(p, g)
  BY DEF StartPromo
<1>3. /\ payment[o] = "pending"
      /\ UNCHANGED <<row, age, uses, tasks, robokassa, history>>
  BY DEF StartPromo
<1> HIDE DEF g
<1> QED
  BY <1>1, <1>2, <1>3, BecomeIs

\* A webhook carries the sum Robokassa has collected into the lane it names.
LEMMA WebhookIs ==
  ASSUME ProcOK, NEW p \in Procs, NEW o, NEW l, Webhook(p, o, l)
  PROVE  /\ proc[p].pc = "idle"
         /\ proc'[p].pc = IF l = "main" THEN "load" ELSE "demoLoad"
         /\ proc'[p].order = o /\ proc'[p].sum = received[o][l]
         /\ Others(p)
         /\ received[o][l] > 0
         /\ payment[o] # "absent"
         /\ UNCHANGED <<row, age, uses, tasks, robokassa, history>>
<1> DEFINE g == [Idle EXCEPT !.pc = IF l = "main" THEN "load" ELSE "demoLoad",
                             !.order = o, !.sum = received[o][l]]
<1>1. /\ g.pc = IF l = "main" THEN "load" ELSE "demoLoad"
      /\ g.order = o /\ g.sum = received[o][l]
  BY DEF Idle
<1>2. proc[p].pc = "idle" /\ Become(p, g)
  BY DEF Webhook
<1>3. /\ received[o][l] > 0
      /\ payment[o] # "absent"
      /\ UNCHANGED <<row, age, uses, tasks, robokassa, history>>
  BY DEF Webhook
<1> HIDE DEF g
<1> QED
  BY <1>1, <1>2, <1>3, BecomeIs

\* A poll that finds the demo paid carries the sum Robokassa names.
LEMMA PollDemoPaidIs ==
  ASSUME ProcOK, NEW p \in Procs, PollDemoPaid(p)
  PROVE  /\ proc'[p].pc = "demoLoad" /\ proc'[p].order = proc[p].order
         /\ proc'[p].sum = received[proc[p].order]["demo"]
         /\ Others(p)
         /\ proc[p].pc = "demoPoll"
         /\ received[proc[p].order]["demo"] > 0
         /\ UNCHANGED <<row, age, uses, tasks, robokassa, history>>
<1> DEFINE g == [proc[p] EXCEPT !.pc = "demoLoad", !.sum = received[proc[p].order]["demo"]]
<1>1. /\ g.pc = "demoLoad" /\ g.order = proc[p].order
      /\ g.sum = received[proc[p].order]["demo"]
  BY DEF ProcOK, Goroutine
<1>2. Become(p, g)
  BY DEF PollDemoPaid
<1>3. /\ proc[p].pc = "demoPoll"
      /\ received[proc[p].order]["demo"] > 0
      /\ UNCHANGED <<row, age, uses, tasks, robokassa, history>>
  BY DEF PollDemoPaid, At
<1> HIDE DEF g
<1> QED
  BY <1>1, <1>2, <1>3, BecomeIs

\* A poll that finds the order paid carries the sum Robokassa names.
LEMMA PollPaidIs ==
  ASSUME ProcOK, NEW p \in Procs, PollPaid(p)
  PROVE  /\ proc'[p].pc = "load" /\ proc'[p].order = proc[p].order
         /\ proc'[p].sum = received[proc[p].order]["main"]
         /\ Others(p)
         /\ proc[p].pc = "poll"
         /\ UNCHANGED <<row, age, uses, tasks, robokassa, history>>
<1> DEFINE g == [proc[p] EXCEPT !.pc = "load", !.sum = received[proc[p].order]["main"]]
<1>1. /\ g.pc = "load" /\ g.order = proc[p].order
      /\ g.sum = received[proc[p].order]["main"]
  BY DEF ProcOK, Goroutine
<1>2. Become(p, g)
  BY DEF PollPaid
<1>3. /\ proc[p].pc = "poll"
      /\ UNCHANGED <<row, age, uses, tasks, robokassa, history>>
  BY DEF PollPaid, At
<1> HIDE DEF g
<1> QED
  BY <1>1, <1>2, <1>3, BecomeIs

-----------------------------------------------------------------------------
(* CreatorAlone and LanesInOrder: a creating request owns its fresh order, *)
(* and a lane does not run ahead of the order (CreateOrder, MarkPaid).     *)
THEOREM OrdersInOrder == Spec => [](CreatorAlone /\ LanesInOrder)
<1> USE AbsentAssumption
<1>1. Init => CreatorAlone /\ LanesInOrder
  BY DEF Init, CreatorAlone, LanesInOrder, Idle
<1>2. TypeOK /\ CreatorAlone /\ LanesInOrder /\ [Next]_vars => (CreatorAlone /\ LanesInOrder)'
  <2> SUFFICES ASSUME TypeOK, CreatorAlone, LanesInOrder, [Next]_vars
               PROVE  CreatorAlone' /\ LanesInOrder'
    OBVIOUS
  <2> USE DEF CreatorAlone, LanesInOrder, row, robokassa, history
  <2>0. /\ ProcOK
        /\ \A p \in Procs : proc[p].pc # "idle" => proc[p].order \in Orders
        /\ payment \in [Orders -> {"absent", "pending", "paid"}]
        /\ generation \in [Orders -> {"new", "queued", "started"}]
        /\ demoPayment \in [Orders -> {"none", "pending", "paid"}]
    BY DEF TypeOK, ProcOK
  <2>1. ASSUME NEW p \in Procs, NEW o \in Orders, Enter(p, o) PROVE CreatorAlone' /\ LanesInOrder'
    <3>1. ASSUME NEW c \in Discounts \cup {NoCode}, StartCreate(p, o, c) PROVE CreatorAlone' /\ LanesInOrder'
      BY <3>1, <2>0, StartCreateIs DEF Others
    <3>2. ASSUME NEW c \in Discounts, StartPromo(p, o, c) PROVE CreatorAlone' /\ LanesInOrder'
      BY <3>2, <2>0, StartPromoIs DEF Others
    <3>3. ASSUME NEW l \in Lanes, Webhook(p, o, l) PROVE CreatorAlone' /\ LanesInOrder'
      BY <3>3, <2>0, WebhookIs DEF Others
    <3>4. CASE SyncPayment(p, o)
      BY <3>4, <2>0, BeginIs DEF SyncPayment, Others
    <3>5. CASE Reconcile(p, o)
      BY <3>5, <2>0, BeginIs DEF Reconcile, Others
    <3>6. CASE RecoverFree(p, o)
      BY <3>6, <2>0, BeginIs DEF RecoverFree, Others
    <3>7. CASE AdminConfirm(p, o)
      BY <3>7, <2>0, BeginIs DEF AdminConfirm, Others
    <3>8. CASE RecoverOrphanedQueued(p, o)
      BY <3>8, <2>0, BeginIs DEF RecoverOrphanedQueued, Others
    <3> QED
      BY <2>1, <3>1, <3>2, <3>3, <3>4, <3>5, <3>6, <3>7, <3>8 DEF Enter
  <2>2. ASSUME NEW p \in Procs, Step(p) PROVE CreatorAlone' /\ LanesInOrder'
    <3>1. CASE IncrementUses(p)
      BY <3>1, <2>0, GotoIs, ReturnIs DEF IncrementUses, At, PCs, Others
    <3>2. CASE InsertOrder(p)
      BY <3>2, <2>0, GotoIs, ReturnIs DEF InsertOrder, At, PCs, Others
    <3>3. CASE WritePromo(p)
      BY <3>3, <2>0, ReturnIs DEF WritePromo, At, Others
    <3>4. CASE PollDemoPaid(p)
      BY <3>4, <2>0, PollDemoPaidIs DEF Others
    <3>5. CASE PollDemoSkip(p)
      BY <3>5, <2>0, AfterDemoIs DEF PollDemoSkip, At, Others
    <3>6. CASE LoadDemo(p)
      BY <3>6, <2>0, GotoIs, AfterDemoIs DEF LoadDemo, At, PCs, Others
    <3>7. CASE ApplyDemo(p)
      BY <3>7, <2>0, GotoIs, AfterDemoIs DEF ApplyDemo, At, PCs, Others
    <3>8. CASE EnqueueDemo(p)
      BY <3>8, <2>0, AfterDemoIs DEF EnqueueDemo, At, Others
    <3>9. CASE PollPaid(p)
      BY <3>9, <2>0, PollPaidIs DEF Others
    <3>10. CASE PollFails(p)
      BY <3>10, <2>0, ReturnIs DEF PollFails, At, Others
    <3>11. CASE Load(p)
      BY <3>11, <2>0, GotoIs, ReturnIs DEF Load, At, PCs, Others
    <3>12. CASE Apply(p)
      BY <3>12, <2>0, GotoIs, ReturnIs DEF Apply, At, PCs, Others
    <3>13. CASE EnqueueTask(p)
      BY <3>13, <2>0, ReturnIs DEF EnqueueTask, At, Others
    <3>14. CASE Abort(p)
      BY <3>14, <2>0, ReturnIs DEF Abort, Others
    <3> QED
      BY <2>2, <3>1, <3>2, <3>3, <3>4, <3>5, <3>6, <3>7, <3>8, <3>9, <3>10, <3>11, <3>12, <3>13, <3>14 DEF Step
  <2>3. ASSUME NEW o \in Orders, World(o) PROVE CreatorAlone' /\ LanesInOrder'
    <3>1. ASSUME NEW l \in Lanes, OpenPage(o, l) PROVE CreatorAlone' /\ LanesInOrder'
      BY <3>1, <2>0 DEF OpenPage
    <3>2. ASSUME NEW l \in Lanes, Pay(o, l) PROVE CreatorAlone' /\ LanesInOrder'
      BY <3>2, <2>0 DEF Pay
    <3>3. CASE Age(o)
      BY <3>3, <2>0 DEF Age
    <3>4. CASE StartGeneration(o)
      BY <3>4, <2>0 DEF StartGeneration
    <3>5. CASE LoseTask(o)
      BY <3>5, <2>0 DEF LoseTask
    <3> QED
      BY <2>3, <3>1, <3>2, <3>3, <3>4, <3>5 DEF World
  <2>4. CASE UNCHANGED vars
    BY <2>4 DEF vars
  <2> QED
    BY <2>1, <2>2, <2>3, <2>4 DEF Next
<1>3. QED
  BY <1>1, <1>2, TypeCorrect, PTL DEF Spec

-----------------------------------------------------------------------------
\* A lane is settled when its own column says paid.
LEMMA SettledIs ==
  \A o \in Orders : /\ "main" \in SettledLanes(o) <=> payment[o] = "paid"
                    /\ "demo" \in SettledLanes(o) <=> demoPayment[o] = "paid"
  BY DEF SettledLanes, Lanes

\* The same after a step.
LEMMA SettledIsNext ==
  \A o \in Orders : /\ "main" \in SettledLanes(o)' <=> payment'[o] = "paid"
                    /\ "demo" \in SettledLanes(o)' <=> demoPayment'[o] = "paid"
  BY DEF SettledLanes, Lanes

-----------------------------------------------------------------------------
(* One confirmation of the main lane enqueues the generation: whoever moved *)
(* payment_status from pending is alone in front of its enqueue.           *)
THEOREM MainReleasedOnce ==
  Spec => [](OneWinner("enqueue", "main") /\ \A o \in Orders : released[o]["main"] <= 1)
<1> USE AbsentAssumption
<1> DEFINE Once == \A o \in Orders : released[o]["main"] <= 1
<1>1. Init => OneWinner("enqueue", "main") /\ Once
  BY SettledIs DEF Init, OneWinner, Idle, Lanes
<1>2. /\ TypeOK /\ TypeOK' /\ CreatorAlone /\ LanesInOrder /\ OneWinner("enqueue", "main") /\ Once
      /\ [Next]_vars
      => (OneWinner("enqueue", "main") /\ Once)'
  <2> SUFFICES ASSUME TypeOK, TypeOK', CreatorAlone, LanesInOrder, OneWinner("enqueue", "main"), Once,
                      [Next]_vars
               PROVE  OneWinner("enqueue", "main")' /\ Once'
    OBVIOUS
  <2> DEFINE W == /\ \A p \in Procs : proc[p].pc = "enqueue" =>
                       payment[proc[p].order] = "paid" /\ released[proc[p].order]["main"] = 0
                  /\ \A p, q \in Procs :
                       proc[p].pc = "enqueue" /\ proc[q].pc = "enqueue" /\ proc[p].order = proc[q].order
                       => p = q
                  /\ \A o \in Orders : released[o]["main"] > 0 => payment[o] = "paid"
                  /\ \A o \in Orders : released[o]["main"] <= 1
  <2>0. /\ W
        /\ ProcOK
        /\ \A p \in Procs : proc[p].pc # "idle" => proc[p].order \in Orders
        /\ payment \in [Orders -> {"absent", "pending", "paid"}]
        /\ demoPayment \in [Orders -> {"none", "pending", "paid"}]
        /\ released \in [Orders -> [Lanes -> Nat]]
        /\ \A p \in Procs : proc[p].pc = "insert" => payment[proc[p].order] = "absent"
        /\ \A o \in Orders : payment[o] = "absent" => demoPayment[o] = "none"
    BY SettledIs DEF TypeOK, ProcOK, OneWinner, CreatorAlone, LanesInOrder
  <2>5. SUFFICES W'
    BY SettledIsNext DEF OneWinner, TypeOK, ProcOK
  <2> USE DEF row, robokassa, history, Lanes
  <2>1. ASSUME NEW p \in Procs, NEW o \in Orders, Enter(p, o) PROVE W'
    <3>1. ASSUME NEW c \in Discounts \cup {NoCode}, StartCreate(p, o, c) PROVE W'
      BY <3>1, <2>0, StartCreateIs DEF Others
    <3>2. ASSUME NEW c \in Discounts, StartPromo(p, o, c) PROVE W'
      BY <3>2, <2>0, StartPromoIs DEF Others
    <3>3. ASSUME NEW l \in Lanes, Webhook(p, o, l) PROVE W'
      BY <3>3, <2>0, WebhookIs DEF Others
    <3>4. CASE SyncPayment(p, o)
      BY <3>4, <2>0, BeginIs DEF SyncPayment, Others
    <3>5. CASE Reconcile(p, o)
      BY <3>5, <2>0, BeginIs DEF Reconcile, Others
    <3>6. CASE RecoverFree(p, o)
      BY <3>6, <2>0, BeginIs DEF RecoverFree, Others
    <3>7. CASE AdminConfirm(p, o)
      BY <3>7, <2>0, BeginIs DEF AdminConfirm, Others
    <3>8. CASE RecoverOrphanedQueued(p, o)
      BY <3>8, <2>0, BeginIs DEF RecoverOrphanedQueued, Others
    <3> QED
      BY <2>1, <3>1, <3>2, <3>3, <3>4, <3>5, <3>6, <3>7, <3>8 DEF Enter
  <2>2. ASSUME NEW p \in Procs, Step(p) PROVE W'
    <3>1. CASE IncrementUses(p)
      BY <3>1, <2>0, GotoIs, ReturnIs DEF IncrementUses, At, PCs, Others
    <3>2. CASE InsertOrder(p)
      BY <3>2, <2>0, GotoIs, ReturnIs DEF InsertOrder, At, PCs, Others
    <3>3. CASE WritePromo(p)
      BY <3>3, <2>0, ReturnIs DEF WritePromo, At, Others
    <3>4. CASE PollDemoPaid(p)
      BY <3>4, <2>0, PollDemoPaidIs DEF Others
    <3>5. CASE PollDemoSkip(p)
      BY <3>5, <2>0, AfterDemoIs DEF PollDemoSkip, At, Others
    <3>6. CASE LoadDemo(p)
      BY <3>6, <2>0, GotoIs, AfterDemoIs DEF LoadDemo, At, PCs, Others
    <3>7. CASE ApplyDemo(p)
      BY <3>7, <2>0, GotoIs, AfterDemoIs DEF ApplyDemo, At, PCs, Others
    <3>8. CASE EnqueueDemo(p)
      BY <3>8, <2>0, AfterDemoIs DEF EnqueueDemo, At, Others
    <3>9. CASE PollPaid(p)
      BY <3>9, <2>0, PollPaidIs DEF Others
    <3>10. CASE PollFails(p)
      BY <3>10, <2>0, ReturnIs DEF PollFails, At, Others
    <3>11. CASE Load(p)
      BY <3>11, <2>0, GotoIs, ReturnIs DEF Load, At, PCs, Others
    <3>12. CASE Apply(p)
      BY <3>12, <2>0, GotoIs, ReturnIs DEF Apply, At, PCs, Others
    <3>13. CASE EnqueueTask(p)
      BY <3>13, <2>0, ReturnIs DEF EnqueueTask, At, Others
    <3>14. CASE Abort(p)
      BY <3>14, <2>0, ReturnIs DEF Abort, Others
    <3> QED
      BY <2>2, <3>1, <3>2, <3>3, <3>4, <3>5, <3>6, <3>7, <3>8, <3>9, <3>10, <3>11, <3>12, <3>13, <3>14 DEF Step
  <2>3. ASSUME NEW o \in Orders, World(o) PROVE W'
    <3>1. ASSUME NEW l \in Lanes, OpenPage(o, l) PROVE W'
      BY <3>1, <2>0 DEF OpenPage
    <3>2. ASSUME NEW l \in Lanes, Pay(o, l) PROVE W'
      BY <3>2, <2>0 DEF Pay
    <3>3. CASE Age(o)
      BY <3>3, <2>0 DEF Age
    <3>4. CASE StartGeneration(o)
      BY <3>4, <2>0 DEF StartGeneration
    <3>5. CASE LoseTask(o)
      BY <3>5, <2>0 DEF LoseTask
    <3> QED
      BY <2>3, <3>1, <3>2, <3>3, <3>4, <3>5 DEF World
  <2>4. CASE UNCHANGED vars
    BY <2>0, <2>4 DEF vars
  <2> QED
    BY <2>1, <2>2, <2>3, <2>4 DEF Next
<1>3. QED
  BY <1>1, <1>2, TypeCorrect, OrdersInOrder, PTL DEF Spec

-----------------------------------------------------------------------------
(* The same for the demo lane (ApplyDemoPaymentSuccess, EnqueueDemoTask).  *)
THEOREM DemoReleasedOnce ==
  Spec => [](OneWinner("demoEnqueue", "demo") /\ \A o \in Orders : released[o]["demo"] <= 1)
<1> USE AbsentAssumption
<1> DEFINE Once == \A o \in Orders : released[o]["demo"] <= 1
<1>1. Init => OneWinner("demoEnqueue", "demo") /\ Once
  BY SettledIs DEF Init, OneWinner, Idle, Lanes
<1>2. /\ TypeOK /\ TypeOK' /\ CreatorAlone /\ LanesInOrder /\ OneWinner("demoEnqueue", "demo") /\ Once
      /\ [Next]_vars
      => (OneWinner("demoEnqueue", "demo") /\ Once)'
  <2> SUFFICES ASSUME TypeOK, TypeOK', CreatorAlone, LanesInOrder, OneWinner("demoEnqueue", "demo"), Once,
                      [Next]_vars
               PROVE  OneWinner("demoEnqueue", "demo")' /\ Once'
    OBVIOUS
  <2> DEFINE W == /\ \A p \in Procs : proc[p].pc = "demoEnqueue" =>
                       demoPayment[proc[p].order] = "paid" /\ released[proc[p].order]["demo"] = 0
                  /\ \A p, q \in Procs :
                       proc[p].pc = "demoEnqueue" /\ proc[q].pc = "demoEnqueue" /\ proc[p].order = proc[q].order
                       => p = q
                  /\ \A o \in Orders : released[o]["demo"] > 0 => demoPayment[o] = "paid"
                  /\ \A o \in Orders : released[o]["demo"] <= 1
  <2>0. /\ W
        /\ ProcOK
        /\ \A p \in Procs : proc[p].pc # "idle" => proc[p].order \in Orders
        /\ payment \in [Orders -> {"absent", "pending", "paid"}]
        /\ demoPayment \in [Orders -> {"none", "pending", "paid"}]
        /\ released \in [Orders -> [Lanes -> Nat]]
        /\ \A p \in Procs : proc[p].pc = "insert" => payment[proc[p].order] = "absent"
        /\ \A o \in Orders : payment[o] = "absent" => demoPayment[o] = "none"
    BY SettledIs DEF TypeOK, ProcOK, OneWinner, CreatorAlone, LanesInOrder
  <2>5. SUFFICES W'
    BY SettledIsNext DEF OneWinner, TypeOK, ProcOK
  <2> USE DEF row, robokassa, history, Lanes
  <2>1. ASSUME NEW p \in Procs, NEW o \in Orders, Enter(p, o) PROVE W'
    <3>1. ASSUME NEW c \in Discounts \cup {NoCode}, StartCreate(p, o, c) PROVE W'
      BY <3>1, <2>0, StartCreateIs DEF Others
    <3>2. ASSUME NEW c \in Discounts, StartPromo(p, o, c) PROVE W'
      BY <3>2, <2>0, StartPromoIs DEF Others
    <3>3. ASSUME NEW l \in Lanes, Webhook(p, o, l) PROVE W'
      BY <3>3, <2>0, WebhookIs DEF Others
    <3>4. CASE SyncPayment(p, o)
      BY <3>4, <2>0, BeginIs DEF SyncPayment, Others
    <3>5. CASE Reconcile(p, o)
      BY <3>5, <2>0, BeginIs DEF Reconcile, Others
    <3>6. CASE RecoverFree(p, o)
      BY <3>6, <2>0, BeginIs DEF RecoverFree, Others
    <3>7. CASE AdminConfirm(p, o)
      BY <3>7, <2>0, BeginIs DEF AdminConfirm, Others
    <3>8. CASE RecoverOrphanedQueued(p, o)
      BY <3>8, <2>0, BeginIs DEF RecoverOrphanedQueued, Others
    <3> QED
      BY <2>1, <3>1, <3>2, <3>3, <3>4, <3>5, <3>6, <3>7, <3>8 DEF Enter
  <2>2. ASSUME NEW p \in Procs, Step(p) PROVE W'
    <3>1. CASE IncrementUses(p)
      BY <3>1, <2>0, GotoIs, ReturnIs DEF IncrementUses, At, PCs, Others
    <3>2. CASE InsertOrder(p)
      <4> DEFINE o == proc[p].order
      <4>1. o \in Orders /\ demoPayment[o] # "paid"
        BY <3>2, <2>0 DEF InsertOrder, At
      <4>2. /\ released' = released
            /\ \A u \in Orders : u # o => demoPayment'[u] = demoPayment[u]
            /\ Goto(p, "load") \/ Return(p)
        BY <3>2, <2>0 DEF InsertOrder
      <4>3. proc'[p].pc # "demoEnqueue" /\ Others(p)
        BY <4>2, <2>0, GotoIs, ReturnIs DEF PCs
      <4> QED
        BY <4>1, <4>2, <4>3, <2>0 DEF Others
    <3>3. CASE WritePromo(p)
      BY <3>3, <2>0, ReturnIs DEF WritePromo, At, Others
    <3>4. CASE PollDemoPaid(p)
      BY <3>4, <2>0, PollDemoPaidIs DEF Others
    <3>5. CASE PollDemoSkip(p)
      BY <3>5, <2>0, AfterDemoIs DEF PollDemoSkip, At, Others
    <3>6. CASE LoadDemo(p)
      BY <3>6, <2>0, GotoIs, AfterDemoIs DEF LoadDemo, At, PCs, Others
    <3>7. CASE ApplyDemo(p)
      BY <3>7, <2>0, GotoIs, AfterDemoIs DEF ApplyDemo, At, PCs, Others
    <3>8. CASE EnqueueDemo(p)
      <4> DEFINE o == proc[p].order
      <4>1. /\ o \in Orders /\ released[o]["demo"] = 0 /\ demoPayment[o] = "paid"
            /\ \A q \in Procs : proc[q].pc = "demoEnqueue" /\ proc[q].order = o => q = p
        BY <3>8, <2>0 DEF EnqueueDemo, At
      <4>2. /\ demoPayment' = demoPayment /\ AfterDemo(p)
            /\ \/ released' = [released EXCEPT ![o]["demo"] = @ + 1]
               \/ released' = released
        BY <3>8 DEF EnqueueDemo
      <4>3. /\ released'[o]["demo"] <= 1
            /\ \A u \in Orders : u # o => released'[u] = released[u]
        BY <4>1, <4>2, <2>0
      <4>4. proc'[p].pc # "demoEnqueue" /\ Others(p)
        BY <4>2, <2>0, AfterDemoIs
      <4> HIDE DEF o
      <4>5. W'
        BY <4>1, <4>2, <4>3, <4>4, <2>0 DEF Others
      <4> QED
        BY <4>5
    <3>9. CASE PollPaid(p)
      BY <3>9, <2>0, PollPaidIs DEF Others
    <3>10. CASE PollFails(p)
      BY <3>10, <2>0, ReturnIs DEF PollFails, At, Others
    <3>11. CASE Load(p)
      BY <3>11, <2>0, GotoIs, ReturnIs DEF Load, At, PCs, Others
    <3>12. CASE Apply(p)
      BY <3>12, <2>0, GotoIs, ReturnIs DEF Apply, At, PCs, Others
    <3>13. CASE EnqueueTask(p)
      BY <3>13, <2>0, ReturnIs DEF EnqueueTask, At, Others
    <3>14. CASE Abort(p)
      BY <3>14, <2>0, ReturnIs DEF Abort, Others
    <3> QED
      BY <2>2, <3>1, <3>2, <3>3, <3>4, <3>5, <3>6, <3>7, <3>8, <3>9, <3>10, <3>11, <3>12, <3>13, <3>14 DEF Step
  <2>3. ASSUME NEW o \in Orders, World(o) PROVE W'
    <3>1. ASSUME NEW l \in Lanes, OpenPage(o, l) PROVE W'
      BY <3>1, <2>0 DEF OpenPage
    <3>2. ASSUME NEW l \in Lanes, Pay(o, l) PROVE W'
      BY <3>2, <2>0 DEF Pay
    <3>3. CASE Age(o)
      BY <3>3, <2>0 DEF Age
    <3>4. CASE StartGeneration(o)
      BY <3>4, <2>0 DEF StartGeneration
    <3>5. CASE LoseTask(o)
      BY <3>5, <2>0 DEF LoseTask
    <3> QED
      BY <2>3, <3>1, <3>2, <3>3, <3>4, <3>5 DEF World
  <2>4. CASE UNCHANGED vars
    BY <2>0, <2>4 DEF vars
  <2> QED
    BY <2>1, <2>2, <2>3, <2>4 DEF Next
<1>3. QED
  BY <1>1, <1>2, TypeCorrect, OrdersInOrder, PTL DEF Spec

\* However many goroutines confirm a lane, its task is released at most once.
THEOREM ReleasedOnceHolds == Spec => []ReleasedOnce
<1>1. /\ \A o \in Orders : released[o]["main"] <= 1
      /\ \A o \in Orders : released[o]["demo"] <= 1
      => ReleasedOnce
  BY DEF ReleasedOnce, Lanes
<1> QED
  BY <1>1, MainReleasedOnce, DemoReleasedOnce, PTL

-----------------------------------------------------------------------------
(* The sums that handlers carry (HandlePaymentSuccess, HandleDemoPaymentSuccess). *)

\* A step that moves only the goroutine p keeps the sums real if what p carries
\* afterwards is.
LEMMA SumsKept ==
  ASSUME NEW p \in Procs, Others(p), UNCHANGED <<row, robokassa, history>>,
         SumsAreReal, PaidInFull,
         proc'[p].pc \in {"createUse", "insert", "load"} =>
           proc'[p].sum <= received[proc'[p].order]["main"],
         proc'[p].pc = "demoLoad" =>
           proc'[p].sum > 0 /\ proc'[p].sum = received[proc'[p].order]["demo"],
         proc'[p].pc # "demoApply" /\ proc'[p].pc # "apply"
  PROVE  SumsAreReal' /\ PaidInFull'
<1>1. UNCHANGED <<payment, demoPayment, amount, lowest, received, confirmedBy>>
  BY DEF row, robokassa, history
<1>2. \A o \in Orders : Collected(o)' = Collected(o) /\ ByAdmin(o)' = ByAdmin(o)
  BY <1>1 DEF Collected, Credit, ByAdmin
<1>3. PaidInFull'
  BY <1>1, <1>2 DEF PaidInFull
<1>4. ASSUME NEW q \in Procs
      PROVE  /\ proc'[q].pc \in {"createUse", "insert", "load"} =>
                  proc'[q].sum <= received[proc'[q].order]["main"]
             /\ proc'[q].pc = "demoLoad" =>
                  proc'[q].sum > 0 /\ proc'[q].sum = received[proc'[q].order]["demo"]
             /\ proc'[q].pc = "demoApply" =>
                  received[proc'[q].order]["demo"] = DemoPrice /\ DemoPrice > 0
             /\ proc'[q].pc = "apply" /\ proc'[q].via # "admin" =>
                  Collected(proc'[q].order) >= lowest[proc'[q].order]
  <2>1. CASE q = p
    BY <2>1
  <2>2. CASE q # p
    BY <2>2 DEF Others, SumsAreReal
  <2> QED
    BY <2>1, <2>2
<1>5. \A o \in Orders :
        /\ demoPayment'[o] = "paid" => received'[o]["demo"] = DemoPrice /\ DemoPrice > 0
        /\ lowest'[o] <= amount'[o]
  BY <1>1 DEF SumsAreReal
<1>6. \A o : Collected(o)' = Collected(o)
  BY <1>1 DEF Collected, Credit
<1> QED
  BY <1>1, <1>3, <1>4, <1>5, <1>6 DEF SumsAreReal

\* The sums the handlers carry are collected ones, so an order that is paid
\* without the admin is paid in full (HandlePaymentSuccess).
THEOREM PaidInFullHolds == Spec => [](SumsAreReal /\ PaidInFull)
<1> USE AbsentAssumption, PricesAssumption
<1>1. Init => SumsAreReal /\ PaidInFull
  BY DEF Init, SumsAreReal, PaidInFull, Idle
<1>2. /\ TypeOK /\ TypeOK' /\ CreatorAlone /\ LanesInOrder /\ SumsAreReal /\ PaidInFull
      /\ [Next]_vars
      => (SumsAreReal /\ PaidInFull)'
  <2> SUFFICES ASSUME TypeOK, TypeOK', CreatorAlone, LanesInOrder, SumsAreReal, PaidInFull,
                      [Next]_vars
               PROVE  SumsAreReal' /\ PaidInFull'
    OBVIOUS
  <2> USE DEF SumsAreReal, PaidInFull, Collected, Credit, ByAdmin
  <2>0. /\ ProcOK
        /\ \A p \in Procs : proc[p] \in Goroutine
        /\ \A p \in Procs : proc[p].pc # "idle" => proc[p].order \in Orders
        /\ \A p \in Procs : proc[p].sum \in Nat /\ proc[p].quote \in Nat
        /\ payment \in [Orders -> {"absent", "pending", "paid"}]
        /\ demoPayment \in [Orders -> {"none", "pending", "paid"}]
        /\ amount \in [Orders -> Nat] /\ lowest \in [Orders -> Nat]
        /\ page \in [Orders -> [Lanes -> SUBSET Nat]]
        /\ received \in [Orders -> [Lanes -> Nat]]
        /\ confirmedBy \in [Orders -> Sources \cup {"nobody"}]
        /\ \A p \in Procs : proc[p].pc \in {"createUse", "insert"} =>
             /\ payment[proc[p].order] = "absent"
             /\ \A q \in Procs : proc[q].order = proc[p].order => q = p
        /\ \A o \in Orders : payment[o] = "absent" => demoPayment[o] = "none"
    BY DEF TypeOK, ProcOK, Goroutine, CreatorAlone, LanesInOrder
  <2> USE DEF row, robokassa, history, Lanes
  <2>1. ASSUME NEW p \in Procs, NEW o \in Orders, Enter(p, o) PROVE SumsAreReal' /\ PaidInFull'
    <3>1. ASSUME NEW c \in Discounts \cup {NoCode}, StartCreate(p, o, c) PROVE SumsAreReal' /\ PaidInFull'
      <4>1. /\ proc'[p].pc \in {"insert", "createUse"} /\ proc'[p].order = o
            /\ proc'[p].sum = 0 /\ Others(p)
            /\ UNCHANGED <<row, robokassa, history>>
        BY <3>1, StartCreateIs, <2>0
      <4>2. 0 <= received[o]["main"]
        BY <2>0
      <4> QED
        BY ONLY <4>1, <4>2, SumsAreReal, PaidInFull, SumsKept, p \in Procs
    <3>2. ASSUME NEW c \in Discounts, StartPromo(p, o, c) PROVE SumsAreReal' /\ PaidInFull'
      <4>1. /\ proc'[p].pc = "promoUse" /\ proc'[p].order = o /\ Others(p)
            /\ UNCHANGED <<row, robokassa, history>>
        BY <3>2, StartPromoIs, <2>0
      <4> QED
        BY ONLY <4>1, SumsAreReal, PaidInFull, SumsKept, p \in Procs
    <3>3. ASSUME NEW l \in Lanes, Webhook(p, o, l) PROVE SumsAreReal' /\ PaidInFull'
      <4>1. CASE l = "main"
        BY <3>3, <4>1, <2>0, WebhookIs DEF Others
      <4>2. CASE l = "demo"
        <5>1. /\ proc'[p].pc = "demoLoad" /\ proc'[p].order = o
              /\ proc'[p].sum = received[o]["demo"] /\ received[o]["demo"] > 0
              /\ Others(p) /\ UNCHANGED <<row, robokassa, history>>
          BY <3>3, <4>2, WebhookIs, <2>0
        <5> QED
          BY ONLY <5>1, SumsAreReal, PaidInFull, SumsKept, p \in Procs
      <4> QED
        BY <4>1, <4>2
    <3>4. CASE SyncPayment(p, o)
      BY <3>4, <2>0, BeginIs DEF SyncPayment, Others
    <3>5. CASE Reconcile(p, o)
      BY <3>5, <2>0, BeginIs DEF Reconcile, Others
    <3>6. CASE RecoverFree(p, o)
      BY <3>6, <2>0, BeginIs DEF RecoverFree, Others
    <3>7. CASE AdminConfirm(p, o)
      BY <3>7, <2>0, BeginIs DEF AdminConfirm, Others
    <3>8. CASE RecoverOrphanedQueued(p, o)
      BY <3>8, <2>0, BeginIs DEF RecoverOrphanedQueued, Others
    <3> QED
      BY <2>1, <3>1, <3>2, <3>3, <3>4, <3>5, <3>6, <3>7, <3>8 DEF Enter
  <2>2. ASSUME NEW p \in Procs, Step(p) PROVE SumsAreReal' /\ PaidInFull'
    <3>1. CASE IncrementUses(p)
      BY <3>1, <2>0, GotoIs, ReturnIs DEF IncrementUses, At, PCs, Others
    <3>2. CASE InsertOrder(p)
      <4> DEFINE o == proc[p].order
      <4>1. /\ o \in Orders /\ demoPayment[o] # "paid"
            /\ \A q \in Procs : proc[q].order = o => q = p
            /\ proc[p].sum <= received[o]["main"]
        BY <3>2, <2>0 DEF InsertOrder, At
      <4>2. /\ payment'[o] = "pending" /\ demoPayment'[o] # "paid"
            /\ lowest'[o] = amount'[o] /\ amount'[o] \in Nat
            /\ \A u \in Orders : u # o => /\ payment'[u] = payment[u]
                                          /\ demoPayment'[u] = demoPayment[u]
                                          /\ lowest'[u] = lowest[u]
                                          /\ amount'[u] = amount[u]
            /\ UNCHANGED <<robokassa, confirmedBy>>
            /\ Goto(p, "load") \/ Return(p)
        BY <3>2, <4>1, <2>0 DEF InsertOrder
      <4>3. /\ \/ proc'[p].pc = "idle"
               \/ proc'[p].pc = "load" /\ proc'[p].order = o /\ proc'[p].sum = proc[p].sum
            /\ Others(p)
        BY <4>2, <2>0, GotoIs, ReturnIs DEF PCs
      <4> HIDE DEF o
      <4>6. \A u \in Orders : u # o => Collected(u)' = Collected(u)
        BY <4>2, <2>0
      <4>7. \A q \in Procs : q # p => proc'[q] = proc[q] /\ proc[q].order # o
        BY <4>1, <4>3 DEF Others
      <4>8. \A u \in Orders :
              /\ demoPayment'[u] = "paid" => received'[u]["demo"] = DemoPrice /\ DemoPrice > 0
              /\ lowest'[u] <= amount'[u]
        BY <4>1, <4>2, <2>0
      <4>9. \A q \in Procs : q # p /\ proc[q].pc # "idle" =>
              /\ proc[q].order \in Orders /\ proc[q].order # o
              /\ proc[q].pc = "apply" /\ proc[q].via # "admin" =>
                   Collected(proc[q].order)' >= lowest'[proc[q].order]
        BY <4>2, <4>6, <4>7, <2>0
      <4>4. SumsAreReal'
        BY <4>1, <4>2, <4>3, <4>7, <4>8, <4>9, <2>0
      <4>5. PaidInFull'
        BY <4>1, <4>2, <2>0
      <4> QED
        BY <4>4, <4>5
    <3>3. CASE WritePromo(p)
      <4> DEFINE o == proc[p].order
      <4>1. /\ o \in Orders
            /\ UNCHANGED <<payment, demoPayment, robokassa, confirmedBy>>
            /\ proc'[p].pc = "idle" /\ Others(p)
        BY <3>3, <2>0, ReturnIs DEF WritePromo, At
      <4>2. /\ lowest'[o] <= lowest[o] /\ lowest'[o] <= amount'[o]
            /\ lowest'[o] \in Nat /\ amount'[o] \in Nat
            /\ \A u \in Orders : u # o => lowest'[u] = lowest[u] /\ amount'[u] = amount[u]
        BY <3>3, <4>1, <2>0 DEF WritePromo, Min2
      <4> HIDE DEF o
      <4>3. \A u \in Orders : lowest'[u] <= lowest[u] /\ lowest'[u] <= amount'[u] /\ lowest'[u] \in Nat
        BY <4>2, <2>0
      <4>4. SumsAreReal'
        BY <4>1, <4>3, <2>0 DEF Others
      <4>5. PaidInFull'
        BY <4>1, <4>3, <2>0
      <4> QED
        BY <4>4, <4>5
    <3>4. CASE PollDemoPaid(p)
      <4> DEFINE o == proc[p].order
      <4>1. /\ o \in Orders /\ received[o]["demo"] > 0
            /\ proc'[p].pc = "demoLoad" /\ proc'[p].order = o
            /\ proc'[p].sum = received[o]["demo"] /\ Others(p)
            /\ UNCHANGED <<row, age, uses, tasks, robokassa, history>>
        BY <3>4, <2>0, PollDemoPaidIs
      <4> HIDE DEF o
      <4> QED
        BY <4>1, <2>0 DEF Others
    <3>5. CASE PollDemoSkip(p)
      BY <3>5, <2>0, AfterDemoIs DEF PollDemoSkip, At, Others
    <3>6. CASE LoadDemo(p)
      BY <3>6, <2>0, GotoIs, AfterDemoIs DEF LoadDemo, At, PCs, Others
    <3>7. CASE ApplyDemo(p)
      <4> DEFINE o == proc[p].order
      <4>1. /\ o \in Orders /\ received[o]["demo"] = DemoPrice /\ DemoPrice > 0
        BY <3>7, <2>0 DEF ApplyDemo, At
      <4>2. /\ UNCHANGED <<payment, amount, robokassa, history>>
            /\ demoPayment'[o] = "paid" \/ demoPayment'[o] = demoPayment[o]
            /\ \A u \in Orders : u # o => demoPayment'[u] = demoPayment[u]
            /\ Goto(p, "demoEnqueue") \/ AfterDemo(p)
        BY <3>7, <4>1, <2>0 DEF ApplyDemo
      <4>3. proc'[p].pc \in {"demoEnqueue", "poll", "idle"} /\ Others(p)
        BY <4>2, <2>0, GotoIs, AfterDemoIs DEF PCs
      <4> HIDE DEF o
      <4>4. \A u \in Orders : Collected(u)' >= Collected(u)
        BY <4>1, <4>2, <2>0
      <4>5. \A u \in Orders : Collected(u) \in Nat /\ Collected(u)' \in Nat
        BY <4>2, <2>0
      <4>6. PaidInFull'
        BY <4>2, <4>4, <4>5, <2>0 DEFS PaidInFull
      <4>8. \A u \in Orders :
              /\ demoPayment'[u] = "paid" => received'[u]["demo"] = DemoPrice /\ DemoPrice > 0
              /\ lowest'[u] <= amount'[u]
        BY <4>1, <4>2, <2>0
      <4>9. \A q \in Procs, u \in Orders :
              proc[q].order = u /\ proc[q].pc = "apply" /\ proc[q].via # "admin" =>
                Collected(u)' >= lowest'[u]
        BY <4>2, <4>4, <4>5, <2>0
      <4>7. SumsAreReal'
        BY <4>1, <4>2, <4>3, <4>8, <4>9, <2>0 DEF Others
      <4> QED
        BY <4>6, <4>7
    <3>8. CASE EnqueueDemo(p)
      BY <3>8, <2>0, AfterDemoIs DEF EnqueueDemo, At, Others
    <3>9. CASE PollPaid(p)
      BY <3>9, <2>0, PollPaidIs DEF Others
    <3>10. CASE PollFails(p)
      BY <3>10, <2>0, ReturnIs DEF PollFails, At, Others
    <3>11. CASE Load(p)
      <4> DEFINE o == proc[p].order
      <4>1. /\ o \in Orders /\ proc[p].sum <= received[o]["main"] /\ proc[p].sum \in Nat
            /\ UNCHANGED <<row, robokassa, history>>
            /\ Goto(p, "apply") \/ Goto(p, "rescue") \/ Return(p)
        BY <3>11, <2>0 DEF Load, At
      <4>2. Goto(p, "apply") => Return(p) \/ proc[p].sum = Remaining(amount[o], demoPayment[o])
        BY <3>11 DEF Load
      <4>3. proc[p].sum = Remaining(amount[o], demoPayment[o]) => Collected(o) >= lowest[o]
        BY <4>1, <2>0 DEF Remaining
      <4>4. /\ \/ proc'[p].pc \in {"rescue", "idle"}
               \/ proc'[p].pc = "apply" /\ proc'[p].order = o /\ Collected(o) >= lowest[o]
            /\ Others(p)
        BY <4>1, <4>2, <4>3, <2>0, GotoIs, ReturnIs DEF PCs
      <4> HIDE DEF o
      <4> QED
        BY <4>1, <4>4, <2>0 DEF Others
    <3>12. CASE Apply(p)
      BY <3>12, <2>0, GotoIs, ReturnIs DEF Apply, At, PCs, Others
    <3>13. CASE EnqueueTask(p)
      BY <3>13, <2>0, ReturnIs DEF EnqueueTask, At, Others
    <3>14. CASE Abort(p)
      BY <3>14, <2>0, ReturnIs DEF Abort, Others
    <3> QED
      BY <2>2, <3>1, <3>2, <3>3, <3>4, <3>5, <3>6, <3>7, <3>8, <3>9, <3>10, <3>11, <3>12, <3>13, <3>14 DEF Step
  <2>3. ASSUME NEW o \in Orders, World(o) PROVE SumsAreReal' /\ PaidInFull'
    <3>1. ASSUME NEW l \in Lanes, OpenPage(o, l) PROVE SumsAreReal' /\ PaidInFull'
      BY <3>1, <2>0 DEF OpenPage
    <3>2. ASSUME NEW l \in Lanes, Pay(o, l) PROVE SumsAreReal' /\ PaidInFull'
      BY <3>2, <2>0 DEF Pay
    <3>3. CASE Age(o)
      BY <3>3, <2>0 DEF Age
    <3>4. CASE StartGeneration(o)
      BY <3>4, <2>0 DEF StartGeneration
    <3>5. CASE LoseTask(o)
      BY <3>5, <2>0 DEF LoseTask
    <3> QED
      BY <2>3, <3>1, <3>2, <3>3, <3>4, <3>5 DEF World
  <2>4. CASE UNCHANGED vars
    BY <2>0, <2>4 DEF vars
  <2> QED
    BY <2>1, <2>2, <2>3, <2>4 DEF Next
<1>3. QED
  BY <1>1, <1>2, TypeCorrect, OrdersInOrder, PTL DEF Spec

-----------------------------------------------------------------------------
\* UpdatePromo and CreateOrder write amounts of unpaid orders only.
THEOREM PriceFrozenHolds == Spec => PriceFrozen
<1> DEFINE Frozen == \A o \in Orders : payment[o] = "paid" => amount'[o] = amount[o]
<1>1. TypeOK /\ CreatorAlone /\ [Next]_vars => [Frozen]_vars
  <2> SUFFICES ASSUME TypeOK, CreatorAlone, Next
               PROVE  Frozen
    OBVIOUS
  <2>0. amount' = amount => Frozen
    OBVIOUS
  <2> USE DEF row, robokassa, history
  <2> HIDE DEF Frozen
  <2>1. ASSUME NEW p \in Procs, NEW o \in Orders, Enter(p, o) PROVE Frozen
    <3>1. ASSUME NEW c \in Discounts \cup {NoCode}, StartCreate(p, o, c) PROVE Frozen
      BY <3>1, <2>0 DEF StartCreate
    <3>2. ASSUME NEW c \in Discounts, StartPromo(p, o, c) PROVE Frozen
      BY <3>2, <2>0 DEF StartPromo
    <3>3. ASSUME NEW l \in Lanes, Webhook(p, o, l) PROVE Frozen
      BY <3>3, <2>0 DEF Webhook
    <3>4. CASE SyncPayment(p, o)
      BY <3>4, <2>0 DEF SyncPayment, Begin
    <3>5. CASE Reconcile(p, o)
      BY <3>5, <2>0 DEF Reconcile, Begin
    <3>6. CASE RecoverFree(p, o)
      BY <3>6, <2>0 DEF RecoverFree, Begin
    <3>7. CASE AdminConfirm(p, o)
      BY <3>7, <2>0 DEF AdminConfirm, Begin
    <3>8. CASE RecoverOrphanedQueued(p, o)
      BY <3>8, <2>0 DEF RecoverOrphanedQueued, Begin
    <3> QED
      BY <2>1, <3>1, <3>2, <3>3, <3>4, <3>5, <3>6, <3>7, <3>8 DEF Enter
  <2>2. ASSUME NEW p \in Procs, Step(p) PROVE Frozen
    <3>1. CASE IncrementUses(p)
      BY <3>1, <2>0 DEF IncrementUses
    <3>2. CASE InsertOrder(p)
      <4>1. payment[proc[p].order] = "absent"
        BY <3>2 DEF InsertOrder, At, CreatorAlone
      <4> QED
        BY <3>2, <4>1 DEF InsertOrder, TypeOK, Frozen
    <3>3. CASE WritePromo(p)
      BY <3>3 DEF WritePromo, TypeOK, Frozen
    <3>4. CASE PollDemoPaid(p)
      BY <3>4, <2>0 DEF PollDemoPaid
    <3>5. CASE PollDemoSkip(p)
      BY <3>5, <2>0 DEF PollDemoSkip
    <3>6. CASE LoadDemo(p)
      BY <3>6, <2>0 DEF LoadDemo
    <3>7. CASE ApplyDemo(p)
      BY <3>7, <2>0 DEF ApplyDemo
    <3>8. CASE EnqueueDemo(p)
      BY <3>8, <2>0 DEF EnqueueDemo
    <3>9. CASE PollPaid(p)
      BY <3>9, <2>0 DEF PollPaid
    <3>10. CASE PollFails(p)
      BY <3>10, <2>0 DEF PollFails
    <3>11. CASE Load(p)
      BY <3>11, <2>0 DEF Load
    <3>12. CASE Apply(p)
      BY <3>12, <2>0 DEF Apply
    <3>13. CASE EnqueueTask(p)
      BY <3>13, <2>0 DEF EnqueueTask
    <3>14. CASE Abort(p)
      BY <3>14, <2>0 DEF Abort
    <3> QED
      BY <2>2, <3>1, <3>2, <3>3, <3>4, <3>5, <3>6, <3>7, <3>8, <3>9, <3>10, <3>11, <3>12, <3>13, <3>14 DEF Step
  <2>3. ASSUME NEW o \in Orders, World(o) PROVE Frozen
    <3>1. ASSUME NEW l \in Lanes, OpenPage(o, l) PROVE Frozen
      BY <3>1, <2>0 DEF OpenPage
    <3>2. ASSUME NEW l \in Lanes, Pay(o, l) PROVE Frozen
      BY <3>2, <2>0 DEF Pay
    <3>3. CASE Age(o)
      BY <3>3, <2>0 DEF Age
    <3>4. CASE StartGeneration(o)
      BY <3>4, <2>0 DEF StartGeneration
    <3>5. CASE LoseTask(o)
      BY <3>5, <2>0 DEF LoseTask
    <3> QED
      BY <2>3, <3>1, <3>2, <3>3, <3>4, <3>5 DEF World
  <2> QED
    BY <2>1, <2>2, <2>3 DEF Next
<1>2. QED
  BY <1>1, TypeCorrect, OrdersInOrder, PTL DEF Spec, PriceFrozen

-----------------------------------------------------------------------------
(* Payments implements Checkout.                                           *)
THEOREM ImplementsCheckoutHolds == Spec => ImplementsCheckout
<1> DEFINE S == [o \in Orders |-> SettledLanes(o)]
           G == {o \in Orders : generation[o] = "started"}
<1>1. Init => Promise!Init
  BY PricesAssumption DEF Init, Promise!Init, SettledLanes, Lanes
<1>2. /\ TypeOK /\ TypeOK' /\ CreatorAlone /\ LanesInOrder
      /\ OneWinner("enqueue", "main") /\ OneWinner("demoEnqueue", "demo")
      /\ [Next]_vars
      => [Promise!Next]_(Promise!vars)
  <2> SUFFICES ASSUME TypeOK, TypeOK', CreatorAlone, LanesInOrder,
                      OneWinner("enqueue", "main"), OneWinner("demoEnqueue", "demo"),
                      [Next]_vars
               PROVE  [Promise!Next]_(Promise!vars)
    OBVIOUS
  <2>0. /\ \A p \in Procs : proc[p].pc # "idle" => proc[p].order \in Orders
        /\ \A p \in Procs : proc[p].quote \in Nat
        /\ \A p \in Procs : proc[p].pc = "insert" => payment[proc[p].order] = "absent"
        /\ \A o \in Orders : payment[o] = "absent" => demoPayment[o] = "none"
        /\ \A o \in Orders : payment[o] # "paid" => generation[o] = "new"
        /\ payment \in [Orders -> {"absent", "pending", "paid"}]
        /\ demoPayment \in [Orders -> {"none", "pending", "paid"}]
        /\ generation \in [Orders -> {"new", "queued", "started"}]
        /\ amount \in [Orders -> Nat]
        /\ received \in [Orders -> [Lanes -> Nat]]
        /\ released \in [Orders -> [Lanes -> Nat]]
    BY DEF TypeOK, ProcOK, Goroutine, CreatorAlone, LanesInOrder
  <2>s. UNCHANGED <<payment, demoPayment>> => UNCHANGED S
    BY DEF SettledLanes
  <2>g. UNCHANGED generation => UNCHANGED G
    OBVIOUS
  <2>5. UNCHANGED <<amount, received, payment, demoPayment, released, generation>>
        => UNCHANGED Promise!vars
    BY DEF Promise!vars, SettledLanes
  <2> USE DEF row, robokassa, history
  <2>1. ASSUME NEW p \in Procs, NEW o \in Orders, Enter(p, o) PROVE [Promise!Next]_(Promise!vars)
    <3>1. ASSUME NEW c \in Discounts \cup {NoCode}, StartCreate(p, o, c) PROVE [Promise!Next]_(Promise!vars)
      BY <3>1, <2>5 DEF StartCreate
    <3>2. ASSUME NEW c \in Discounts, StartPromo(p, o, c) PROVE [Promise!Next]_(Promise!vars)
      BY <3>2, <2>5 DEF StartPromo
    <3>3. ASSUME NEW l \in Lanes, Webhook(p, o, l) PROVE [Promise!Next]_(Promise!vars)
      BY <3>3, <2>5 DEF Webhook
    <3>4. CASE SyncPayment(p, o)
      BY <3>4, <2>5 DEF SyncPayment, Begin
    <3>5. CASE Reconcile(p, o)
      BY <3>5, <2>5 DEF Reconcile, Begin
    <3>6. CASE RecoverFree(p, o)
      BY <3>6, <2>5 DEF RecoverFree, Begin
    <3>7. CASE AdminConfirm(p, o)
      BY <3>7, <2>5 DEF AdminConfirm, Begin
    <3>8. CASE RecoverOrphanedQueued(p, o)
      BY <3>8, <2>5 DEF RecoverOrphanedQueued, Begin
    <3> QED
      BY <2>1, <3>1, <3>2, <3>3, <3>4, <3>5, <3>6, <3>7, <3>8 DEF Enter
  <2>2. ASSUME NEW p \in Procs, Step(p) PROVE [Promise!Next]_(Promise!vars)
    <3>1. CASE IncrementUses(p)
      BY <3>1, <2>5 DEF IncrementUses
    <3>2. CASE InsertOrder(p)
      <4> DEFINE o == proc[p].order
      <4>1. /\ o \in Orders /\ payment[o] = "absent" /\ demoPayment[o] = "none"
            /\ proc[p].quote \in Nat
        BY <3>2, <2>0 DEF InsertOrder, At
      <4>2. /\ amount' = [amount EXCEPT ![o] = proc[p].quote]
            /\ UNCHANGED <<received, released, generation>>
            /\ \A u \in Orders : (payment'[u] = "paid" <=> payment[u] = "paid")
                                 /\ (demoPayment'[u] = "paid" <=> demoPayment[u] = "paid")
        BY <3>2, <4>1, <2>0 DEF InsertOrder
      <4>3. UNCHANGED S
        BY <4>2 DEF SettledLanes
      <4> HIDE DEF o
      <4>4. amount'[o] = proc[p].quote
        BY <4>1, <4>2, <2>0
      <4>5. Promise!SetPrice(o)
        BY <4>1, <4>2, <4>3, <4>4, <2>g DEF Promise!SetPrice, SettledLanes
      <4> QED
        BY <4>1, <4>5 DEF Promise!Next
    <3>3. CASE WritePromo(p)
      <4> DEFINE o == proc[p].order
      <4>0. UNCHANGED <<received, released, generation, payment, demoPayment>>
        BY <3>3 DEF WritePromo
      <4>1. CASE payment[o] # "pending"
        BY <3>3, <4>0, <4>1, <2>5 DEF WritePromo
      <4>2. CASE payment[o] = "pending"
        <5>1. o \in Orders /\ amount' = [amount EXCEPT ![o] = proc[p].quote] /\ proc[p].quote \in Nat
          BY <3>3, <4>2, <2>0 DEF WritePromo, At
        <5> HIDE DEF o
        <5>2. Promise!SetPrice(o)
          BY <4>0, <4>2, <5>1, <2>0, <2>s, <2>g DEF Promise!SetPrice, SettledLanes
        <5> QED
          BY <5>1, <5>2 DEF Promise!Next
      <4> QED
        BY <4>1, <4>2
    <3>4. CASE PollDemoPaid(p)
      BY <3>4, <2>5 DEF PollDemoPaid
    <3>5. CASE PollDemoSkip(p)
      BY <3>5, <2>5 DEF PollDemoSkip
    <3>6. CASE LoadDemo(p)
      BY <3>6, <2>5 DEF LoadDemo
    <3>7. CASE ApplyDemo(p)
      <4> DEFINE o == proc[p].order
      <4>0. UNCHANGED <<amount, received, released>> /\ o \in Orders
        BY <3>7, <2>0 DEF ApplyDemo, At
      <4>1. CASE demoPayment[o] # "pending"
        BY <3>7, <4>0, <4>1, <2>5 DEF ApplyDemo
      <4>2. CASE demoPayment[o] = "pending"
        <5>1. /\ demoPayment' = [demoPayment EXCEPT ![o] = "paid"] /\ payment' = payment
              /\ UNCHANGED G
          BY <3>7, <4>0, <4>2, <2>0 DEF ApplyDemo
        <5> HIDE DEF G
        <5>2. PICK u \in Orders : u = o
          BY <4>0
        <5> HIDE DEF o
        <5>3. SettledLanes(u)' = SettledLanes(u) \cup {"demo"} /\ "demo" \notin SettledLanes(u)
          BY <4>0, <4>2, <5>1, <5>2, <2>0 DEF SettledLanes, Lanes
        <5>4. \A v \in Orders : v # u => SettledLanes(v)' = SettledLanes(v)
          BY <5>1, <5>2, <2>0 DEF SettledLanes
        <5>5. S' = [S EXCEPT ![u] = @ \cup {"demo"}]
          BY <5>3, <5>4
        <5>6. Promise!Settle(u, "demo")
          BY <4>0, <5>1, <5>3, <5>5 DEF Promise!Settle, G
        <5> QED
          BY <5>6 DEF Promise!Next, Lanes
      <4> QED
        BY <4>1, <4>2
    <3>8. CASE EnqueueDemo(p)
      <4> DEFINE o == proc[p].order
      <4>0. UNCHANGED <<amount, received, payment, demoPayment, generation>> /\ o \in Orders
        BY <3>8, <2>0 DEF EnqueueDemo, At
      <4>1. CASE released' = released
        BY <4>0, <4>1, <2>5
      <4>2. CASE released' # released
        <5>1. proc[p].pc = "demoEnqueue" /\ released' = [released EXCEPT ![o]["demo"] = @ + 1]
          BY <3>8, <4>2 DEF EnqueueDemo, At
        <5>2. released[o]["demo"] = 0 /\ "demo" \in SettledLanes(o)
          BY <5>1 DEF OneWinner
        <5> HIDE DEF o
        <5>3. Promise!Release(o, "demo")
          BY <4>0, <5>1, <5>2, <2>s, <2>g DEF Promise!Release
        <5> QED
          BY <4>0, <5>3 DEF Promise!Next, Lanes
      <4> QED
        BY <4>1, <4>2
    <3>9. CASE PollPaid(p)
      BY <3>9, <2>5 DEF PollPaid
    <3>10. CASE PollFails(p)
      BY <3>10, <2>5 DEF PollFails
    <3>11. CASE Load(p)
      BY <3>11, <2>5 DEF Load
    <3>12. CASE Apply(p)
      <4> DEFINE o == proc[p].order
      <4>0. UNCHANGED <<amount, received, released>> /\ o \in Orders
        BY <3>12, <2>0 DEF Apply, At
      <4>1. CASE payment[o] # "pending"
        BY <3>12, <4>0, <4>1, <2>5 DEF Apply
      <4>2. CASE payment[o] = "pending"
        <5>1. /\ payment' = [payment EXCEPT ![o] = "paid"] /\ demoPayment' = demoPayment
              /\ UNCHANGED G
          BY <3>12, <4>0, <4>2, <2>0 DEF Apply
        <5> HIDE DEF G
        <5>2. PICK u \in Orders : u = o
          BY <4>0
        <5> HIDE DEF o
        <5>3. SettledLanes(u)' = SettledLanes(u) \cup {"main"} /\ "main" \notin SettledLanes(u)
          BY <4>0, <4>2, <5>1, <5>2, <2>0 DEF SettledLanes, Lanes
        <5>4. \A v \in Orders : v # u => SettledLanes(v)' = SettledLanes(v)
          BY <5>1, <5>2, <2>0 DEF SettledLanes
        <5>5. S' = [S EXCEPT ![u] = @ \cup {"main"}]
          BY <5>3, <5>4
        <5>6. Promise!Settle(u, "main")
          BY <4>0, <5>1, <5>3, <5>5 DEF Promise!Settle, G
        <5> QED
          BY <5>6 DEF Promise!Next, Lanes
      <4> QED
        BY <4>1, <4>2
    <3>13. CASE EnqueueTask(p)
      <4> DEFINE o == proc[p].order
      <4>0. UNCHANGED <<amount, received, payment, demoPayment, generation>> /\ o \in Orders
        BY <3>13, <2>0 DEF EnqueueTask, At
      <4>1. CASE released' = released
        BY <4>0, <4>1, <2>5
      <4>2. CASE released' # released
        <5>1. proc[p].pc = "enqueue" /\ released' = [released EXCEPT ![o]["main"] = @ + 1]
          BY <3>13, <4>2 DEF EnqueueTask, At
        <5>2. released[o]["main"] = 0 /\ "main" \in SettledLanes(o)
          BY <5>1 DEF OneWinner
        <5> HIDE DEF o
        <5>3. Promise!Release(o, "main")
          BY <4>0, <5>1, <5>2, <2>s, <2>g DEF Promise!Release
        <5> QED
          BY <4>0, <5>3 DEF Promise!Next, Lanes
      <4> QED
        BY <4>1, <4>2
    <3>14. CASE Abort(p)
      BY <3>14, <2>5 DEF Abort
    <3> QED
      BY <2>2, <3>1, <3>2, <3>3, <3>4, <3>5, <3>6, <3>7, <3>8, <3>9, <3>10, <3>11, <3>12, <3>13, <3>14 DEF Step
  <2>3. ASSUME NEW o \in Orders, World(o) PROVE [Promise!Next]_(Promise!vars)
    <3>1. ASSUME NEW l \in Lanes, OpenPage(o, l) PROVE [Promise!Next]_(Promise!vars)
      BY <3>1, <2>5 DEF OpenPage
    <3>2. ASSUME NEW l \in Lanes, Pay(o, l) PROVE [Promise!Next]_(Promise!vars)
      <4>1. PICK s \in page[o][l] : received' = [received EXCEPT ![o][l] = s]
        BY <3>2 DEF Pay
      <4>2. s \in Nat
        BY <4>1 DEF TypeOK
      <4>3. /\ received[o][l] = 0 /\ received'[o][l] = s
            /\ UNCHANGED <<amount, released, payment, demoPayment, generation>>
        BY <3>2, <4>1, <2>0 DEF Pay
      <4>4. Promise!Collect(o, l)
        BY <4>1, <4>2, <4>3, <2>s, <2>g DEF Promise!Collect
      <4> QED
        BY <4>4 DEF Promise!Next
    <3>3. CASE Age(o)
      BY <3>3, <2>5 DEF Age
    <3>4. CASE StartGeneration(o)
      <4>0. UNCHANGED <<amount, received, payment, demoPayment, released>>
        BY <3>4 DEF StartGeneration
      <4>1. CASE generation[o] # "queued"
        BY <3>4, <4>0, <4>1, <2>5 DEF StartGeneration
      <4>2. CASE generation[o] = "queued"
        <5>1. generation' = [generation EXCEPT ![o] = "started"] /\ payment[o] = "paid"
          BY <3>4, <4>2, <2>0 DEF StartGeneration
        <5>2. G' = G \cup {o} /\ "main" \in SettledLanes(o)
          BY <5>1, <2>0 DEF SettledLanes, Lanes
        <5>3. Promise!Start(o)
          BY <4>0, <5>2, <2>s DEF Promise!Start
        <5> QED
          BY <5>3 DEF Promise!Next
      <4> QED
        BY <4>1, <4>2
    <3>5. CASE LoseTask(o)
      BY <3>5, <2>5 DEF LoseTask
    <3> QED
      BY <2>3, <3>1, <3>2, <3>3, <3>4, <3>5 DEF World
  <2>4. CASE UNCHANGED vars
    BY <2>4, <2>5 DEF vars
  <2> QED
    BY <2>1, <2>2, <2>3, <2>4 DEF Next
<1>3. QED
  BY <1>1, <1>2, TypeCorrect, OrdersInOrder, MainReleasedOnce, DemoReleasedOnce, PTL
     DEF Spec, ImplementsCheckout, Promise!Spec

-----------------------------------------------------------------------------
(* No more orders carry a promo code than its limit allows.               *)

\* A part of a finite set is finite and no larger.
LEMMA PartIsSmaller ==
  ASSUME NEW S, IsFiniteSet(S), NEW T, T \subseteq S
  PROVE  /\ IsFiniteSet(T) /\ Cardinality(T) \in Nat /\ Cardinality(S) \in Nat
         /\ Cardinality(T) <= Cardinality(S)
  BY FS_Subset, FS_CardinalityType

\* With one member more at the most, it is larger by one at the most.
LEMMA OneMore ==
  ASSUME NEW S, IsFiniteSet(S), NEW x, NEW T, T \subseteq S \cup {x}
  PROVE  /\ IsFiniteSet(T) /\ Cardinality(T) \in Nat /\ Cardinality(S) \in Nat
         /\ Cardinality(T) <= Cardinality(S) + 1
<1>0. Cardinality(S) \in Nat
  BY FS_CardinalityType
<1>1. /\ IsFiniteSet(S \cup {x}) /\ Cardinality(S) \in Nat
      /\ Cardinality(S \cup {x}) <= Cardinality(S) + 1
  BY <1>0, FS_AddElement
<1>2. /\ IsFiniteSet(T) /\ Cardinality(T) \in Nat /\ Cardinality(S \cup {x}) \in Nat
      /\ Cardinality(T) <= Cardinality(S \cup {x})
  BY <1>1, PartIsSmaller
<1> QED
  BY <1>1, <1>2

\* Without one of its members, it is smaller by one at least.
LEMMA OneLess ==
  ASSUME NEW S, IsFiniteSet(S), NEW x \in S, NEW T, T \subseteq S \ {x}
  PROVE  /\ IsFiniteSet(T) /\ Cardinality(T) \in Nat /\ Cardinality(S) \in Nat
         /\ Cardinality(T) <= Cardinality(S) - 1
<1>1. /\ IsFiniteSet(S \ {x}) /\ Cardinality(S) \in Nat
      /\ Cardinality(S \ {x}) = Cardinality(S) - 1
  BY FS_RemoveElement, FS_CardinalityType
<1>2. /\ IsFiniteSet(T) /\ Cardinality(T) \in Nat
      /\ Cardinality(T) <= Cardinality(S \ {x})
  BY <1>1, PartIsSmaller
<1> QED
  BY <1>1, <1>2

\* A code stays booked when no order and no goroutine takes it up.
LEMMA BookedKept ==
  ASSUME NEW c \in Discounts, Booked(c), uses[c] \in Nat, MaxUses \in Nat,
         uses'[c] = uses[c],
         Carriers(c)' \subseteq Carriers(c), Bearers(c)' \subseteq Bearers(c)
  PROVE  Booked(c)'
<1>1. /\ IsFiniteSet(Carriers(c)') /\ Cardinality(Carriers(c)') \in Nat
      /\ Cardinality(Carriers(c)) \in Nat
      /\ Cardinality(Carriers(c)') <= Cardinality(Carriers(c))
  BY PartIsSmaller DEF Booked
<1>2. /\ IsFiniteSet(Bearers(c)') /\ Cardinality(Bearers(c)') \in Nat
      /\ Cardinality(Bearers(c)) \in Nat
      /\ Cardinality(Bearers(c)') <= Cardinality(Bearers(c))
  BY PartIsSmaller DEF Booked
<1>3. uses[c] <= MaxUses /\ Cardinality(Carriers(c)) + Cardinality(Bearers(c)) <= uses[c]
  BY DEF Booked
<1>4. Cardinality(Carriers(c)') + Cardinality(Bearers(c)') <= uses'[c] /\ uses'[c] <= MaxUses
  BY <1>1, <1>2, <1>3
<1> QED
  BY <1>1, <1>2, <1>4 DEF Booked

\* A goroutine counts a use and is now about to write the code: one of each.
LEMMA BookedCounted ==
  ASSUME NEW c \in Discounts, NEW p \in Procs, Booked(c), uses[c] \in Nat, MaxUses \in Nat,
         uses[c] < MaxUses, uses'[c] = uses[c] + 1,
         Carriers(c)' \subseteq Carriers(c), Bearers(c)' \subseteq Bearers(c) \cup {p}
  PROVE  Booked(c)'
<1>1. /\ IsFiniteSet(Carriers(c)') /\ Cardinality(Carriers(c)') \in Nat
      /\ Cardinality(Carriers(c)) \in Nat
      /\ Cardinality(Carriers(c)') <= Cardinality(Carriers(c))
  BY PartIsSmaller DEF Booked
<1>2. /\ IsFiniteSet(Bearers(c)') /\ Cardinality(Bearers(c)') \in Nat
      /\ Cardinality(Bearers(c)) \in Nat
      /\ Cardinality(Bearers(c)') <= Cardinality(Bearers(c)) + 1
  BY OneMore DEF Booked
<1>3. Cardinality(Carriers(c)) + Cardinality(Bearers(c)) <= uses[c]
  BY DEF Booked
<1>4. Cardinality(Carriers(c)') + Cardinality(Bearers(c)') <= uses'[c] /\ uses'[c] <= MaxUses
  BY <1>1, <1>2, <1>3
<1> QED
  BY <1>1, <1>2, <1>4 DEF Booked

\* The goroutine writes the code it has counted: the order carries it, in its place.
LEMMA BookedWritten ==
  ASSUME NEW c \in Discounts, NEW p, NEW o, Booked(c), uses[c] \in Nat, MaxUses \in Nat,
         uses'[c] = uses[c], p \in Bearers(c),
         Carriers(c)' \subseteq Carriers(c) \cup {o}, Bearers(c)' \subseteq Bearers(c) \ {p}
  PROVE  Booked(c)'
<1>1. /\ IsFiniteSet(Carriers(c)') /\ Cardinality(Carriers(c)') \in Nat
      /\ Cardinality(Carriers(c)) \in Nat
      /\ Cardinality(Carriers(c)') <= Cardinality(Carriers(c)) + 1
  BY OneMore DEF Booked
<1>2. /\ IsFiniteSet(Bearers(c)') /\ Cardinality(Bearers(c)') \in Nat
      /\ Cardinality(Bearers(c)) \in Nat
      /\ Cardinality(Bearers(c)') <= Cardinality(Bearers(c)) - 1
  BY OneLess DEF Booked
<1>3. uses[c] <= MaxUses /\ Cardinality(Carriers(c)) + Cardinality(Bearers(c)) <= uses[c]
  BY DEF Booked
<1>4. Cardinality(Carriers(c)') + Cardinality(Bearers(c)') <= uses'[c] /\ uses'[c] <= MaxUses
  BY <1>1, <1>2, <1>3
<1> QED
  BY <1>1, <1>2, <1>4 DEF Booked

\* A goroutine that moves to a place where it carries no code leaves the codes alone.
LEMMA PlainStep ==
  ASSUME TypeOK, UsesAreBooked, NEW p \in Procs, Others(p),
         proc'[p].pc \notin {"insert", "promoWrite"},
         uses' = uses, promoCode' = promoCode
  PROVE  UsesAreBooked'
<1> SUFFICES ASSUME NEW c \in Discounts PROVE Booked(c)'
  BY DEF UsesAreBooked
<1>1. Booked(c) /\ uses[c] \in Nat /\ MaxUses \in Nat
  BY PricesAssumption DEF UsesAreBooked, TypeOK
<1>2. Carriers(c)' \subseteq Carriers(c) /\ Bearers(c)' \subseteq Bearers(c)
  BY DEF Carriers, Bearers, Others
<1> QED
  BY <1>1, <1>2, BookedKept

(* UsesAreBooked: IncrementUses counts before InsertOrder and WritePromo    *)
(* write, and nothing else writes a code or a use.                         *)
THEOREM UsesBooked == Spec => []UsesAreBooked
<1> USE PricesAssumption, AbsentAssumption
<1>1. Init => UsesAreBooked
  <2> SUFFICES ASSUME Init, NEW c \in Discounts PROVE Booked(c)
    BY DEF UsesAreBooked
  <2>1. Carriers(c) = {} /\ Bearers(c) = {} /\ uses[c] = 0
    BY DEF Init, Carriers, Bearers, Idle
  <2> QED
    BY <2>1, FS_EmptySet DEF Booked
<1>2. TypeOK /\ UsesAreBooked /\ [Next]_vars => UsesAreBooked'
  <2> SUFFICES ASSUME TypeOK, UsesAreBooked, [Next]_vars
               PROVE  UsesAreBooked'
    OBVIOUS
  <2> USE DEF row, robokassa, history
  <2>0. /\ ProcOK
        /\ uses \in [Discounts -> Nat]
        /\ promoCode \in [Orders -> Discounts \cup {NoCode}]
        /\ \A c \in Discounts : Booked(c)
        /\ \A p \in Procs : proc[p].code \in Discounts \cup {NoCode}
        /\ \A p \in Procs : proc[p].pc # "idle" => proc[p].order \in Orders
    BY DEF TypeOK, ProcOK, Goroutine, UsesAreBooked
  <2>1. ASSUME NEW p \in Procs, NEW o \in Orders, Enter(p, o) PROVE UsesAreBooked'
    <3>1. ASSUME NEW c \in Discounts \cup {NoCode}, StartCreate(p, o, c) PROVE UsesAreBooked'
      <4> DEFINE g == [Idle EXCEPT !.pc = IF c = NoCode THEN "insert" ELSE "createUse",
                                   !.order = o, !.via = "create", !.code = c,
                                   !.quote = IF c = NoCode THEN Price
                                             ELSE Price - PromoApply(c, Price)]
      <4>1. g.code = c /\ g.pc = IF c = NoCode THEN "insert" ELSE "createUse"
        BY DEF Idle
      <4>2. Become(p, g)
        BY <3>1 DEF StartCreate
      <4> HIDE DEF g
      <4>3. proc'[p] = g /\ Others(p) /\ uses' = uses /\ promoCode' = promoCode
        BY <2>0, <3>1, <4>2, BecomeIs DEF StartCreate
      <4>4. ASSUME NEW d \in Discounts
            PROVE  Carriers(d)' \subseteq Carriers(d) /\ Bearers(d)' \subseteq Bearers(d)
        BY <4>1, <4>3 DEF Carriers, Bearers, Others
      <4> QED
        BY <2>0, <4>3, <4>4, BookedKept DEF UsesAreBooked
    <3>2. ASSUME NEW c \in Discounts, StartPromo(p, o, c) PROVE UsesAreBooked'
      BY <3>2, <2>0, StartPromoIs, PlainStep
    <3>3. ASSUME NEW l \in Lanes, Webhook(p, o, l) PROVE UsesAreBooked'
      BY <3>3, <2>0, WebhookIs, PlainStep
    <3>4. CASE SyncPayment(p, o)
      BY <3>4, <2>0, BeginIs, PlainStep DEF SyncPayment
    <3>5. CASE Reconcile(p, o)
      BY <3>5, <2>0, BeginIs, PlainStep DEF Reconcile
    <3>6. CASE RecoverFree(p, o)
      BY <3>6, <2>0, BeginIs, PlainStep DEF RecoverFree
    <3>7. CASE AdminConfirm(p, o)
      BY <3>7, <2>0, BeginIs, PlainStep DEF AdminConfirm
    <3>8. CASE RecoverOrphanedQueued(p, o)
      BY <3>8, <2>0, BeginIs, PlainStep DEF RecoverOrphanedQueued
    <3> QED
      BY <2>1, <3>1, <3>2, <3>3, <3>4, <3>5, <3>6, <3>7, <3>8 DEF Enter
  <2>2. ASSUME NEW p \in Procs, Step(p) PROVE UsesAreBooked'
    <3>1. CASE IncrementUses(p)
      <4>0. PICK k \in Discounts \cup {NoCode} : k = proc[p].code
        BY <2>0
      <4>1. CASE k \in Discounts /\ uses[k] < MaxUses
        <5>1. /\ uses' = [uses EXCEPT ![k] = @ + 1] /\ promoCode' = promoCode
              /\ proc' = [proc EXCEPT ![p] =
                   [proc[p] EXCEPT !.pc = IF At(p, "createUse") THEN "insert" ELSE "promoWrite"]]
          BY <3>1, <4>0, <4>1 DEF IncrementUses, Goto, Become
        <5>2. Others(p) /\ proc'[p].code = k
          BY <5>1, <4>0, <2>0 DEF Others, ProcOK, Goroutine
        <5>3. ASSUME NEW d \in Discounts
              PROVE  /\ Carriers(d)' \subseteq Carriers(d)
                     /\ Bearers(d)' \subseteq Bearers(d) \cup {p}
                     /\ d # k => Bearers(d)' \subseteq Bearers(d)
          BY <4>0, <5>1, <5>2 DEF Carriers, Bearers, Others
        <5>4. Booked(k)'
          BY <2>0, <4>1, <5>1, <5>3, BookedCounted
        <5>5. ASSUME NEW d \in Discounts, d # k PROVE Booked(d)'
          BY <2>0, <5>1, <5>3, <5>5, BookedKept
        <5> QED
          BY <5>4, <5>5 DEF UsesAreBooked
      <4>2. CASE k \in Discounts /\ ~(uses[k] < MaxUses)
        <5>1. Return(p) /\ uses' = uses /\ promoCode' = promoCode
          BY <3>1, <4>0, <4>2 DEF IncrementUses
        <5> QED
          BY <5>1, <2>0, ReturnIs, PlainStep
      <4>3. CASE k = NoCode
        <5>1. /\ uses' = uses /\ promoCode' = promoCode
              /\ \/ Return(p)
                 \/ proc' = [proc EXCEPT ![p] =
                      [proc[p] EXCEPT !.pc = IF At(p, "createUse") THEN "insert" ELSE "promoWrite"]]
          BY <3>1, <4>0, <4>3, <2>0 DEF IncrementUses, Goto, Become
        <5>2. Others(p) /\ (proc'[p].code = NoCode \/ proc'[p].pc = "idle")
          BY <5>1, <4>0, <4>3, <2>0, ReturnIs DEF Others, ProcOK, Goroutine
        <5>3. ASSUME NEW d \in Discounts
              PROVE  Carriers(d)' \subseteq Carriers(d) /\ Bearers(d)' \subseteq Bearers(d)
          BY <4>0, <5>1, <5>2 DEF Carriers, Bearers, Others
        <5> QED
          BY <2>0, <5>1, <5>3, BookedKept DEF UsesAreBooked
      <4> QED
        BY <2>0, <4>1, <4>2, <4>3
    <3>2. CASE InsertOrder(p)
      <4>0. PICK k \in Discounts \cup {NoCode}, o \in Orders :
                k = proc[p].code /\ o = proc[p].order
        BY <3>2, <2>0 DEF InsertOrder, At
      <4>1. /\ proc[p].pc = "insert" /\ o \in Orders /\ uses' = uses
            /\ promoCode' = [promoCode EXCEPT ![o] = k]
            /\ Goto(p, "load") \/ Return(p)
        BY <3>2, <4>0 DEF InsertOrder, At
      <4>2. Others(p) /\ proc'[p].pc \notin {"insert", "promoWrite"}
        BY <4>1, <2>0, GotoIs, ReturnIs DEF PCs
      <4>3. ASSUME NEW d \in Discounts
            PROVE  /\ Carriers(d)' \subseteq Carriers(d) \cup {o}
                   /\ d # k => Carriers(d)' \subseteq Carriers(d)
                   /\ Bearers(d)' \subseteq Bearers(d) \ {p}
        BY <4>0, <4>1, <4>2, <2>0 DEF Carriers, Bearers, Others
      <4>4. ASSUME k \in Discounts PROVE Booked(k)'
        <5>1. p \in Bearers(k)
          BY <4>0, <4>1 DEF Bearers
        <5> QED
          BY <2>0, <4>1, <4>3, <4>4, <5>1, BookedWritten
      <4>5. ASSUME NEW d \in Discounts, d # k PROVE Booked(d)'
        BY <2>0, <4>1, <4>3, <4>5, BookedKept
      <4> QED
        BY <4>4, <4>5 DEF UsesAreBooked
    <3>3. CASE WritePromo(p)
      <4>0. PICK k \in Discounts \cup {NoCode}, o \in Orders :
                k = proc[p].code /\ o = proc[p].order
        BY <3>3, <2>0 DEF WritePromo, At
      <4>1. /\ proc[p].pc = "promoWrite" /\ o \in Orders /\ uses' = uses
            /\ promoCode' \in {promoCode, [promoCode EXCEPT ![o] = k]}
            /\ Return(p)
        BY <3>3, <4>0 DEF WritePromo, At
      <4>2. Others(p) /\ proc'[p].pc \notin {"insert", "promoWrite"}
        BY <4>1, <2>0, ReturnIs
      <4>3. ASSUME NEW d \in Discounts
            PROVE  /\ Carriers(d)' \subseteq Carriers(d) \cup {o}
                   /\ d # k => Carriers(d)' \subseteq Carriers(d)
                   /\ Bearers(d)' \subseteq Bearers(d) \ {p}
        BY <4>0, <4>1, <4>2, <2>0 DEF Carriers, Bearers, Others
      <4>4. ASSUME k \in Discounts PROVE Booked(k)'
        <5>1. p \in Bearers(k)
          BY <4>0, <4>1 DEF Bearers
        <5> QED
          BY <2>0, <4>1, <4>3, <4>4, <5>1, BookedWritten
      <4>5. ASSUME NEW d \in Discounts, d # k PROVE Booked(d)'
        BY <2>0, <4>1, <4>3, <4>5, BookedKept
      <4> QED
        BY <4>4, <4>5 DEF UsesAreBooked
    <3>4. CASE PollDemoPaid(p)
      BY <3>4, <2>0, PollDemoPaidIs, PlainStep
    <3>5. CASE PollDemoSkip(p)
      BY <3>5, <2>0, AfterDemoIs, PlainStep DEF PollDemoSkip
    <3>6. CASE LoadDemo(p)
      BY <3>6, <2>0, GotoIs, AfterDemoIs, PlainStep DEF LoadDemo, PCs
    <3>7. CASE ApplyDemo(p)
      BY <3>7, <2>0, GotoIs, AfterDemoIs, PlainStep DEF ApplyDemo, PCs
    <3>8. CASE EnqueueDemo(p)
      BY <3>8, <2>0, AfterDemoIs, PlainStep DEF EnqueueDemo
    <3>9. CASE PollPaid(p)
      BY <3>9, <2>0, PollPaidIs, PlainStep
    <3>10. CASE PollFails(p)
      BY <3>10, <2>0, ReturnIs, PlainStep DEF PollFails
    <3>11. CASE Load(p)
      BY <3>11, <2>0, GotoIs, ReturnIs, PlainStep DEF Load, PCs
    <3>12. CASE Apply(p)
      BY <3>12, <2>0, GotoIs, ReturnIs, PlainStep DEF Apply, PCs
    <3>13. CASE EnqueueTask(p)
      BY <3>13, <2>0, ReturnIs, PlainStep DEF EnqueueTask
    <3>14. CASE Abort(p)
      BY <3>14, <2>0, ReturnIs, PlainStep DEF Abort
    <3> QED
      BY <2>2, <3>1, <3>2, <3>3, <3>4, <3>5, <3>6, <3>7, <3>8, <3>9, <3>10, <3>11, <3>12, <3>13, <3>14 DEF Step
  <2>3. uses' = uses /\ promoCode' = promoCode /\ proc' = proc => UsesAreBooked'
    <3> SUFFICES ASSUME uses' = uses, promoCode' = promoCode, proc' = proc,
                        NEW d \in Discounts
                 PROVE  Booked(d)'
      BY DEF UsesAreBooked
    <3>1. Carriers(d)' \subseteq Carriers(d) /\ Bearers(d)' \subseteq Bearers(d)
      BY DEF Carriers, Bearers
    <3> QED
      BY <2>0, <3>1, BookedKept
  <2>4. ASSUME NEW o \in Orders, World(o) PROVE UsesAreBooked'
    <3>1. ASSUME NEW l \in Lanes, OpenPage(o, l) PROVE UsesAreBooked'
      BY <3>1, <2>3 DEF OpenPage
    <3>2. ASSUME NEW l \in Lanes, Pay(o, l) PROVE UsesAreBooked'
      BY <3>2, <2>3 DEF Pay
    <3>3. CASE Age(o)
      BY <3>3, <2>3 DEF Age
    <3>4. CASE StartGeneration(o)
      BY <3>4, <2>3 DEF StartGeneration
    <3>5. CASE LoseTask(o)
      BY <3>5, <2>3 DEF LoseTask
    <3> QED
      BY <2>4, <3>1, <3>2, <3>3, <3>4, <3>5 DEF World
  <2>5. CASE UNCHANGED vars
    BY <2>5, <2>3 DEF vars
  <2> QED
    BY <2>1, <2>2, <2>4, <2>5 DEF Next
<1>3. QED
  BY <1>1, <1>2, TypeCorrect, PTL DEF Spec

(* PromoWithinLimit: requests that check a code at the same time and count  *)
(* one by one never bring more orders to carry it than it has uses.        *)
THEOREM PromoWithinLimitHolds == Spec => []PromoWithinLimit
<1>1. TypeOK /\ UsesAreBooked => PromoWithinLimit
  <2> SUFFICES ASSUME TypeOK, UsesAreBooked, NEW c \in Discounts
               PROVE  uses[c] <= MaxUses /\ Cardinality(Carriers(c)) <= uses[c]
    BY DEF PromoWithinLimit
  <2>1. /\ IsFiniteSet(Carriers(c)) /\ IsFiniteSet(Bearers(c))
        /\ uses[c] <= MaxUses /\ uses[c] \in Nat
        /\ Cardinality(Carriers(c)) + Cardinality(Bearers(c)) <= uses[c]
    BY DEF UsesAreBooked, Booked, TypeOK
  <2>2. Cardinality(Carriers(c)) \in Nat /\ Cardinality(Bearers(c)) \in Nat
    BY <2>1, FS_CardinalityType
  <2> QED
    BY <2>1, <2>2
<1> QED
  BY <1>1, TypeCorrect, UsesBooked, PTL
=============================================================================
