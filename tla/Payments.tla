------------------------------ MODULE Payments ------------------------------
(***************************************************************************)
(* The two payment lanes of an order: the main invoice (the song) and the  *)
(* demo invoice credited against it.  Every confirmation of a payment      *)
(* (Robokassa's ResultURL webhook, the client's sync-payment, the          *)
(* reconciliation cron, the free-order activation, the admin) is a         *)
(* goroutine that reads the order's row, decides on its own copy and then  *)
(* runs a conditional UPDATE; any of them interleave, crash and repeat.    *)
(*                                                                         *)
(* One row of table orders is spread over functions on Orders; a goroutine *)
(* is a record in proc.  Robokassa itself is external: page and received.  *)
(***************************************************************************)
EXTENDS Naturals, FiniteSets

CONSTANTS
  Orders,      \* order identifiers
  Procs,       \* goroutines that may run a handler or a cron pass
  Price,       \* PRICE_KOPECKS
  DemoPrice,   \* DEMO_PRICE_KOPECKS; 0 switches the demo invoice off
  Discounts,   \* promo codes, each named by what it takes off a price
  MaxUses,     \* max_uses of every promo code
  NoCode,      \* no promo code
  NoOrder      \* the job of an idle goroutine

ASSUME PricesAssumption ==
  /\ Price \in Nat /\ DemoPrice \in Nat
  /\ Discounts \subseteq Nat /\ MaxUses \in Nat

ASSUME AbsentAssumption == NoCode \notin Discounts /\ NoOrder \notin Orders

VARIABLES
  payment,      \* orders.payment_status, "absent" before the INSERT
  generation,   \* orders.generation_status; "started" is all that follows queued
  amount,       \* orders.amount_kopecks
  demoPayment,  \* orders.demo_payment_status, "none" without a demo invoice
  promoCode,    \* orders.promo_code_id
  age,          \* how old the order is against reconcileMinAge and the 72 h window
  uses,         \* promo_codes.current_uses
  tasks,        \* orders with a generation task in the Asynq queue
  page,         \* sums of the payment forms opened at Robokassa, per lane
  received,     \* what Robokassa has collected per invoice, 0 = not paid
  proc,         \* the goroutines
  confirmedBy,  \* history: which path moved the order to paid
  lowest,       \* history: the lowest price the order has had
  released      \* history: tasks enqueued by the winner of a lane's UPDATE

row == <<payment, generation, amount, demoPayment, promoCode>>
robokassa == <<page, received>>
history == <<confirmedBy, lowest, released>>
vars == <<row, age, uses, tasks, robokassa, proc, history>>

Lanes == {"main", "demo"}
Sources == {"webhook", "sync", "reconcile", "free", "create", "admin"}

Idle == [pc |-> "idle", order |-> NoOrder, via |-> "webhook", sum |-> 0,
         outer |-> "pending", code |-> NoCode, quote |-> 0]

Min2(a, b) == IF a <= b THEN a ELSE b

PromoApplyUncapped(code, kopecks) == code

\* PromoCode.Apply for a fixed discount: never more than the price.
PromoApply(code, kopecks) == Min2(code, kopecks)

RemainingUnpaid(kopecks, demo) ==
  IF demo = "none" THEN kopecks
  ELSE IF kopecks < DemoPrice THEN 0 ELSE kopecks - DemoPrice

\* Order.RemainingKopecks: the paid demo is credited, never below zero.
Remaining(kopecks, demo) ==
  IF demo # "paid" THEN kopecks
  ELSE IF kopecks < DemoPrice THEN 0 ELSE kopecks - DemoPrice

\* PromoCode.IsValid, as far as the use counter goes.
PromoValid(code) == uses[code] < MaxUses

-----------------------------------------------------------------------------
Init ==
  /\ payment = [o \in Orders |-> "absent"]
  /\ generation = [o \in Orders |-> "new"]
  /\ amount = [o \in Orders |-> Price]
  /\ demoPayment = [o \in Orders |-> "none"]
  /\ promoCode = [o \in Orders |-> NoCode]
  /\ age = [o \in Orders |-> "fresh"]
  /\ uses = [c \in Discounts |-> 0]
  /\ tasks = {}
  /\ page = [o \in Orders |-> [l \in Lanes |-> {}]]
  /\ received = [o \in Orders |-> [l \in Lanes |-> 0]]
  /\ proc = [p \in Procs |-> Idle]
  /\ confirmedBy = [o \in Orders |-> "nobody"]
  /\ lowest = [o \in Orders |-> Price]
  /\ released = [o \in Orders |-> [l \in Lanes |-> 0]]

Become(p, g) == proc' = [proc EXCEPT ![p] = g]
Goto(p, pc) == Become(p, [proc[p] EXCEPT !.pc = pc])
Return(p) == Become(p, Idle)
Begin(p, o, via, pc) ==
  /\ proc[p].pc = "idle"
  /\ Become(p, [Idle EXCEPT !.pc = pc, !.order = o, !.via = via, !.outer = payment[o]])
At(p, pc) == proc[p].pc = pc

-----------------------------------------------------------------------------
(* Creating an order and applying a promo code.                            *)

\* CreateOrder up to the transaction: the promo is looked up and priced in.
StartCreate(p, o, c) ==
  /\ proc[p].pc = "idle"
  /\ payment[o] = "absent"
  /\ \A q \in Procs : proc[q].order # o
  /\ c # NoCode => PromoValid(c)
  /\ Become(p, [Idle EXCEPT !.pc = IF c = NoCode THEN "insert" ELSE "createUse",
                            !.order = o, !.via = "create", !.code = c,
                            !.quote = IF c = NoCode THEN Price
                                      ELSE Price - PromoApply(c, Price)])
  /\ UNCHANGED <<row, age, uses, tasks, robokassa, history>>

\* ApplyPromoToOrder up to the transaction: the read copy is pending and has
\* no promo; the new amount is computed from the copy.
StartPromo(p, o, c) ==
  /\ proc[p].pc = "idle"
  /\ payment[o] = "pending" /\ promoCode[o] = NoCode
  /\ PromoValid(c)
  /\ Become(p, [Idle EXCEPT !.pc = "promoUse", !.order = o, !.code = c,
                            !.quote = amount[o] - PromoApply(c, amount[o])])
  /\ UNCHANGED <<row, age, uses, tasks, robokassa, history>>

IncrementUsesUnchecked(p) ==
  /\ proc[p].pc \in {"createUse", "promoUse"}
  /\ uses' = [uses EXCEPT ![proc[p].code] = @ + 1]
  /\ Goto(p, IF At(p, "createUse") THEN "insert" ELSE "promoWrite")
  /\ UNCHANGED <<row, age, tasks, robokassa, history>>

\* PromoCodeRepository.IncrementUses: one conditional UPDATE, run on the pool,
\* so committed whatever becomes of the transaction around it.
IncrementUses(p) ==
  /\ proc[p].pc \in {"createUse", "promoUse"}
  /\ IF uses[proc[p].code] < MaxUses
       THEN /\ uses' = [uses EXCEPT ![proc[p].code] = @ + 1]
            /\ Goto(p, IF At(p, "createUse") THEN "insert" ELSE "promoWrite")
       ELSE /\ Return(p)
            /\ UNCHANGED uses
  /\ UNCHANGED <<row, age, tasks, robokassa, history>>

\* OrderRepository.Create.  A demo invoice is issued only below the price; a
\* free order is activated by the same handler at once.
InsertOrder(p) ==
  LET o == proc[p].order IN
  /\ At(p, "insert")
  /\ payment' = [payment EXCEPT ![o] = "pending"]
  /\ amount' = [amount EXCEPT ![o] = proc[p].quote]
  /\ lowest' = [lowest EXCEPT ![o] = proc[p].quote]
  /\ promoCode' = [promoCode EXCEPT ![o] = proc[p].code]
  /\ demoPayment' = [demoPayment EXCEPT ![o] =
       IF DemoPrice > 0 /\ proc[p].quote > DemoPrice THEN "pending" ELSE "none"]
  /\ IF proc[p].quote = 0 THEN Goto(p, "load") ELSE Return(p)
  /\ UNCHANGED <<generation, age, uses, tasks, robokassa, confirmedBy, released>>

WritePromoUnguarded(p) ==
  /\ At(p, "promoWrite")
  /\ amount' = [amount EXCEPT ![proc[p].order] = proc[p].quote]
  /\ lowest' = [lowest EXCEPT ![proc[p].order] = Min2(@, proc[p].quote)]
  /\ promoCode' = [promoCode EXCEPT ![proc[p].order] = proc[p].code]
  /\ Return(p)
  /\ UNCHANGED <<payment, generation, demoPayment, age, uses, tasks, robokassa,
                 confirmedBy, released>>

\* OrderRepository.UpdatePromo: WHERE payment_status = 'pending'.
WritePromo(p) ==
  LET o == proc[p].order IN
  /\ At(p, "promoWrite")
  /\ IF payment[o] = "pending"
       THEN /\ amount' = [amount EXCEPT ![o] = proc[p].quote]
            /\ lowest' = [lowest EXCEPT ![o] = Min2(@, proc[p].quote)]
            /\ promoCode' = [promoCode EXCEPT ![o] = proc[p].code]
       ELSE UNCHANGED <<amount, lowest, promoCode>>
  /\ Return(p)
  /\ UNCHANGED <<payment, generation, demoPayment, age, uses, tasks, robokassa,
                 confirmedBy, released>>

-----------------------------------------------------------------------------
(* Robokassa and the client: external, driven by the links the API builds. *)

\* The sum of the link the API builds for a lane, 0 when it builds none.
LinkSum(o, l) ==
  CASE payment[o] # "pending" -> 0
    [] l = "main" -> Remaining(amount[o], demoPayment[o])
    [] OTHER -> IF demoPayment[o] = "pending" THEN DemoPrice ELSE 0

\* GetPaymentURL, GetDemoPaymentURL, fillPaymentFields: a form is opened.
OpenPage(o, l) ==
  /\ LinkSum(o, l) > 0
  /\ page' = [page EXCEPT ![o][l] = @ \cup {LinkSum(o, l)}]
  /\ UNCHANGED <<row, age, uses, tasks, received, proc, history>>

\* The client pays an opened form; an invoice is paid once.
Pay(o, l) ==
  /\ received[o][l] = 0
  /\ \E s \in page[o][l] : received' = [received EXCEPT ![o][l] = s]
  /\ UNCHANGED <<row, age, uses, tasks, page, proc, history>>

\* Two minutes, then seventy-two hours, have passed since created_at.
Age(o) ==
  /\ payment[o] # "absent" /\ age[o] # "expired"
  /\ age' = [age EXCEPT ![o] = IF @ = "fresh" THEN "open" ELSE "expired"]
  /\ UNCHANGED <<row, uses, tasks, robokassa, proc, history>>

-----------------------------------------------------------------------------
(* The entry points that confirm a payment: what each reads first.         *)

\* HandleRobokassaWebhook / handleDemoWebhook: Robokassa delivers as often as
\* it likes; an unknown invoice and an already paid lane are answered OK without
\* any effect.
Webhook(p, o, l) ==
  /\ received[o][l] > 0
  /\ payment[o] # "absent"
  /\ IF l = "main" THEN payment[o] # "paid" ELSE demoPayment[o] # "paid"
  /\ proc[p].pc = "idle"
  /\ Become(p, [Idle EXCEPT !.pc = IF l = "main" THEN "load" ELSE "demoLoad",
                            !.order = o, !.sum = received[o][l]])
  /\ UNCHANGED <<row, age, uses, tasks, robokassa, history>>

\* SyncPayment: the demo lane first, then the main one if the order read at
\* the start was pending.
SyncPayment(p, o) ==
  /\ demoPayment[o] = "pending" \/ payment[o] = "pending"
  /\ Begin(p, o, "sync", IF demoPayment[o] = "pending" THEN "demoPoll" ELSE "poll")
  /\ UNCHANGED <<row, age, uses, tasks, robokassa, history>>

ReconcileSwapped(p, o) ==
  /\ payment[o] = "pending" /\ age[o] = "expired"
  /\ Begin(p, o, "reconcile", IF demoPayment[o] = "pending" THEN "demoPoll" ELSE "poll")
  /\ UNCHANGED <<row, age, uses, tasks, robokassa, history>>

\* One turn of ReconcilePendingPayments on an order of its list.
Reconcile(p, o) ==
  /\ payment[o] = "pending" /\ age[o] = "open"
  /\ Begin(p, o, "reconcile", IF demoPayment[o] = "pending" THEN "demoPoll" ELSE "poll")
  /\ UNCHANGED <<row, age, uses, tasks, robokassa, history>>

\* RecoverFreePendingOrders: only an amount of zero is activated.
RecoverFree(p, o) ==
  /\ payment[o] = "pending" /\ age[o] = "open" /\ amount[o] = 0
  /\ Begin(p, o, "free", "load")
  /\ UNCHANGED <<row, age, uses, tasks, robokassa, history>>

\* AdminConfirmPayment: no sum is compared.
AdminConfirm(p, o) ==
  /\ payment[o] = "pending"
  /\ Begin(p, o, "admin", "apply")
  /\ UNCHANGED <<row, age, uses, tasks, robokassa, history>>

\* RecoverOrphanedQueuedOrders: a queued order gets its task (again).
RecoverOrphanedQueued(p, o) ==
  /\ generation[o] = "queued"
  /\ Begin(p, o, "reconcile", "rescue")
  /\ UNCHANGED <<row, age, uses, tasks, robokassa, history>>

-----------------------------------------------------------------------------
(* The demo lane inside a handler.                                         *)

\* Where a handler goes once its demo lane is through.
AfterDemo(p) ==
  IF proc[p].via \in {"sync", "reconcile"} /\ proc[p].outer = "pending"
    THEN Become(p, [proc[p] EXCEPT !.pc = "poll", !.sum = 0])
    ELSE Return(p)

\* OpStateExt on the demo invoice; not paid and an error both skip the lane.
PollDemoPaid(p) ==
  /\ At(p, "demoPoll")
  /\ received[proc[p].order]["demo"] > 0
  /\ Become(p, [proc[p] EXCEPT !.pc = "demoLoad", !.sum = received[proc[p].order]["demo"]])
  /\ UNCHANGED <<row, age, uses, tasks, robokassa, history>>

PollDemoSkip(p) ==
  /\ At(p, "demoPoll")
  /\ AfterDemo(p)
  /\ UNCHANGED <<row, age, uses, tasks, robokassa, history>>

\* HandleDemoPaymentSuccess on a fresh copy: window, sum, already paid.
LoadDemo(p) ==
  LET o == proc[p].order IN
  /\ At(p, "demoLoad")
  /\ IF age[o] # "expired" /\ proc[p].sum = DemoPrice /\ demoPayment[o] = "pending"
       THEN Goto(p, "demoApply")
       ELSE AfterDemo(p)
  /\ UNCHANGED <<row, age, uses, tasks, robokassa, history>>

ApplyDemoUnconditional(p) ==
  /\ At(p, "demoApply")
  /\ demoPayment' = [demoPayment EXCEPT ![proc[p].order] = "paid"]
  /\ Goto(p, "demoEnqueue")
  /\ UNCHANGED <<payment, generation, amount, promoCode, age, uses, tasks, robokassa, history>>

\* ApplyDemoPaymentSuccess: WHERE demo_payment_status = 'pending'.
ApplyDemo(p) ==
  LET o == proc[p].order IN
  /\ At(p, "demoApply")
  /\ IF demoPayment[o] = "pending"
       THEN /\ demoPayment' = [demoPayment EXCEPT ![o] = "paid"]
            /\ Goto(p, "demoEnqueue")
       ELSE /\ AfterDemo(p)
            /\ UNCHANGED demoPayment
  /\ UNCHANGED <<payment, generation, amount, promoCode, age, uses, tasks, robokassa, history>>

\* EnqueueDemoTask by the winner; a failure is only logged.
EnqueueDemo(p) ==
  LET o == proc[p].order IN
  /\ At(p, "demoEnqueue")
  /\ \/ released' = [released EXCEPT ![o]["demo"] = @ + 1]
     \/ UNCHANGED released
  /\ AfterDemo(p)
  /\ UNCHANGED <<row, age, uses, tasks, robokassa, confirmedBy, lowest>>

-----------------------------------------------------------------------------
(* The main lane inside a handler.                                         *)

\* OpStateExt on the main invoice.
PollPaid(p) ==
  /\ At(p, "poll")
  /\ received[proc[p].order]["main"] > 0
  /\ Become(p, [proc[p] EXCEPT !.pc = "load", !.sum = received[proc[p].order]["main"]])
  /\ UNCHANGED <<row, age, uses, tasks, robokassa, history>>

PollFails(p) ==
  /\ At(p, "poll")
  /\ Return(p)
  /\ UNCHANGED <<row, age, uses, tasks, robokassa, history>>

\* HandlePaymentSuccess up to the UPDATE: window and sum are checked on a
\* fresh copy; a copy that is already paid and queued gets its task again.
Load(p) ==
  LET o == proc[p].order
      accepted == /\ age[o] # "expired"
                  /\ proc[p].sum = Remaining(amount[o], demoPayment[o]) IN
  /\ At(p, "load")
  /\ CASE accepted /\ payment[o] = "pending" -> Goto(p, "apply")
       [] accepted /\ payment[o] = "paid" /\ generation[o] = "queued" -> Goto(p, "rescue")
       [] OTHER -> Return(p)
  /\ UNCHANGED <<row, age, uses, tasks, robokassa, history>>

ApplyUnconditional(p) ==
  LET o == proc[p].order IN
  /\ At(p, "apply")
  /\ payment' = [payment EXCEPT ![o] = "paid"]
  /\ generation' = [generation EXCEPT ![o] = "queued"]
  /\ confirmedBy' = [confirmedBy EXCEPT ![o] = proc[p].via]
  /\ Goto(p, "enqueue")
  /\ UNCHANGED <<amount, demoPayment, promoCode, age, uses, tasks, robokassa, lowest, released>>

\* ApplyPaymentSuccess: paid and queued in one UPDATE, WHERE
\* payment_status = 'pending'; the loser stops without enqueueing.
Apply(p) ==
  LET o == proc[p].order IN
  /\ At(p, "apply")
  /\ IF payment[o] = "pending"
       THEN /\ payment' = [payment EXCEPT ![o] = "paid"]
            /\ generation' = [generation EXCEPT ![o] = "queued"]
            /\ confirmedBy' = [confirmedBy EXCEPT ![o] = proc[p].via]
            /\ Goto(p, "enqueue")
       ELSE /\ Return(p)
            /\ UNCHANGED <<payment, generation, confirmedBy>>
  /\ UNCHANGED <<amount, demoPayment, promoCode, age, uses, tasks, robokassa, lowest, released>>

EnqueueTaskOnce(p) ==
  LET o == proc[p].order IN
  /\ proc[p].pc \in {"enqueue", "rescue"}
  /\ tasks' = IF At(p, "enqueue") THEN tasks \cup {o} ELSE tasks
  /\ released' = IF At(p, "enqueue") THEN [released EXCEPT ![o]["main"] = @ + 1]
                                     ELSE released
  /\ Return(p)
  /\ UNCHANGED <<row, age, uses, robokassa, confirmedBy, lowest>>

\* EnqueueGenerationTask succeeds; the winner also counts the payment and
\* notifies the admin.
EnqueueTask(p) ==
  LET o == proc[p].order IN
  /\ proc[p].pc \in {"enqueue", "rescue"}
  /\ tasks' = tasks \cup {o}
  /\ released' = IF At(p, "enqueue") THEN [released EXCEPT ![o]["main"] = @ + 1]
                                     ELSE released
  /\ Return(p)
  /\ UNCHANGED <<row, age, uses, robokassa, confirmedBy, lowest>>

\* Any step of a handler fails, or the pod running it dies: the goroutine is
\* gone and what it has committed stays.
Abort(p) ==
  /\ proc[p].pc # "idle"
  /\ Return(p)
  /\ UNCHANGED <<row, age, uses, tasks, robokassa, history>>

-----------------------------------------------------------------------------
(* The queue and the worker, as far as payments see them.                  *)

\* ProcessGenerationTask takes a queued order; for any other it does nothing.
StartGeneration(o) ==
  /\ o \in tasks
  /\ tasks' = tasks \ {o}
  /\ generation' = IF generation[o] = "queued" THEN [generation EXCEPT ![o] = "started"]
                                               ELSE generation
  /\ UNCHANGED <<payment, amount, demoPayment, promoCode, age, uses, robokassa, proc, history>>

\* The queue loses the task, or archives it after its last retry.
LoseTask(o) ==
  /\ o \in tasks
  /\ tasks' = tasks \ {o}
  /\ UNCHANGED <<row, age, uses, robokassa, proc, history>>

-----------------------------------------------------------------------------
Enter(p, o) ==
  \/ \E c \in Discounts \cup {NoCode} : StartCreate(p, o, c)
  \/ \E c \in Discounts : StartPromo(p, o, c)
  \/ \E l \in Lanes : Webhook(p, o, l)
  \/ SyncPayment(p, o) \/ Reconcile(p, o) \/ RecoverFree(p, o)
  \/ AdminConfirm(p, o) \/ RecoverOrphanedQueued(p, o)

Step(p) ==
  \/ IncrementUses(p) \/ InsertOrder(p) \/ WritePromo(p)
  \/ PollDemoPaid(p) \/ PollDemoSkip(p) \/ LoadDemo(p) \/ ApplyDemo(p) \/ EnqueueDemo(p)
  \/ PollPaid(p) \/ PollFails(p) \/ Load(p) \/ Apply(p) \/ EnqueueTask(p)
  \/ Abort(p)

World(o) ==
  \/ \E l \in Lanes : OpenPage(o, l) \/ Pay(o, l)
  \/ Age(o) \/ StartGeneration(o) \/ LoseTask(o)

Next ==
  \/ \E p \in Procs, o \in Orders : Enter(p, o)
  \/ \E p \in Procs : Step(p)
  \/ \E o \in Orders : World(o)

Spec == Init /\ [][Next]_vars

\* The recovery ticker (cmd/server/main.go) comes round for ever, Robokassa and
\* Redis answer again and again, and a pod dies only so often: each step of a
\* pass that keeps being possible is some day not cut short.  Clients, webhooks,
\* sync and the admin owe nothing.
Pass(o) == \E p \in Procs : Reconcile(p, o) \/ RecoverFree(p, o)
Rescue(o) == \E p \in Procs : RecoverOrphanedQueued(p, o)
OnOrder(o, A(_)) == \E p \in Procs : proc[p].order = o /\ A(p)

Fairness ==
  /\ \A p \in Procs : WF_vars(Step(p))
  /\ \A o \in Orders :
       /\ SF_vars(Pass(o)) /\ SF_vars(Rescue(o))
       /\ SF_vars(OnOrder(o, PollDemoSkip)) /\ SF_vars(OnOrder(o, PollPaid))
       /\ SF_vars(OnOrder(o, Load)) /\ SF_vars(OnOrder(o, Apply))
       /\ SF_vars(OnOrder(o, EnqueueTask)) /\ SF_vars(StartGeneration(o))

FairSpec == Spec /\ Fairness

-----------------------------------------------------------------------------
PCs == {"idle", "createUse", "promoUse", "insert", "promoWrite", "demoPoll", "demoLoad",
        "demoApply", "demoEnqueue", "poll", "load", "apply", "enqueue", "rescue"}

Goroutine == [pc : PCs, order : Orders \cup {NoOrder}, via : Sources, sum : Nat,
              outer : {"absent", "pending", "paid"}, code : Discounts \cup {NoCode},
              quote : Nat]

ProcOK == /\ proc \in [Procs -> Goroutine]
          /\ \A p \in Procs : proc[p].pc # "idle" => proc[p].order \in Orders

\* Every variable stays in its domain, and a running goroutine has its order.
TypeOK ==
  /\ payment \in [Orders -> {"absent", "pending", "paid"}]
  /\ generation \in [Orders -> {"new", "queued", "started"}]
  /\ amount \in [Orders -> Nat]
  /\ demoPayment \in [Orders -> {"none", "pending", "paid"}]
  /\ promoCode \in [Orders -> Discounts \cup {NoCode}]
  /\ age \in [Orders -> {"fresh", "open", "expired"}]
  /\ uses \in [Discounts -> Nat]
  /\ tasks \subseteq Orders
  /\ page \in [Orders -> [Lanes -> SUBSET Nat]]
  /\ received \in [Orders -> [Lanes -> Nat]]
  /\ ProcOK
  /\ confirmedBy \in [Orders -> Sources \cup {"nobody"}]
  /\ lowest \in [Orders -> Nat]
  /\ released \in [Orders -> [Lanes -> Nat]]

\* However many webhooks, syncs, cron passes and admins confirm the same lane at
\* once, one of them alone enqueues its task as the winner: no second generation
\* and no second spending of Suno credits (order_repository.go:188-192).
ReleasedOnce == \A o \in Orders, l \in Lanes : released[o][l] <= 1

\* An order the admin did not confirm is paid only if Robokassa holds, with the
\* credited demo, at least the lowest price the order has been offered at,
\* whatever promo code, demo payment or second confirmation came between the read
\* of the order and its UPDATE (HandlePaymentSuccess).
Credit(o) == IF demoPayment[o] = "paid" THEN received[o]["demo"] ELSE 0
Collected(o) == received[o]["main"] + Credit(o)
ByAdmin(o) == confirmedBy[o] = "admin"
PaidInFull == \A o \in Orders :
  payment[o] = "paid" /\ ~ByAdmin(o) => Collected(o) >= lowest[o]

\* No more orders carry a promo code than its max_uses allows, although each
\* request checks IsValid on a copy read before it counts its use.
Carriers(c) == {o \in Orders : promoCode[o] = c}
PromoWithinLimit == \A c \in Discounts :
  /\ uses[c] <= MaxUses
  /\ Cardinality(Carriers(c)) <= uses[c]

\* The price of an order is fixed once it is paid: a promo code that was being
\* applied while the payment was confirmed changes nothing (UpdatePromo).
PriceFrozen == [][\A o \in Orders : payment[o] = "paid" => amount'[o] = amount[o]]_vars

\* Money collected for exactly what is left to pay activates the order, with no
\* webhook and no client: the reconciliation cron finds it within the window.
Owed(o) == /\ payment[o] = "pending" /\ age[o] = "open" /\ received[o]["main"] > 0
           /\ received[o]["main"] = Remaining(amount[o], demoPayment[o])
CollectedIsSettled == \A o \in Orders :
  Owed(o) ~> \/ payment[o] = "paid" \/ age[o] = "expired"
             \/ received[o]["main"] # Remaining(amount[o], demoPayment[o])

\* A paid order reaches the worker although any goroutine may die between its
\* UPDATE and its enqueue and the queue may lose the task.
PaidIsStarted == \A o \in Orders : payment[o] = "paid" ~> generation[o] = "started"

\* The lanes of Payments keep the promise of Checkout.
SettledLanes(o) == {l \in Lanes :
  IF l = "main" THEN payment[o] = "paid" ELSE demoPayment[o] = "paid"}
Promise == INSTANCE Checkout WITH
  price <- amount, collected <- received,
  settled <- [o \in Orders |-> SettledLanes(o)],
  started <- {o \in Orders : generation[o] = "started"}
ImplementsCheckout == Promise!Spec

-----------------------------------------------------------------------------
(* The parts of the inductive invariants behind the properties, proved in  *)
(* PaymentsProofs.                                                         *)

\* An order being created is nobody else's and not there yet.
CreatorAlone == \A p \in Procs :
  proc[p].pc \in {"createUse", "insert"} =>
    /\ payment[proc[p].order] = "absent"
    /\ \A q \in Procs : proc[q].order = proc[p].order => q = p

\* An absent order has no demo payment, and an unpaid one no generation.
LanesInOrder == \A o \in Orders :
  /\ payment[o] = "absent" => demoPayment[o] = "none"
  /\ payment[o] # "paid" => generation[o] = "new"

\* The winner of a lane is alone, and its task is not released yet.
OneWinner(pc, l) ==
  /\ \A p \in Procs : proc[p].pc = pc =>
       l \in SettledLanes(proc[p].order) /\ released[proc[p].order][l] = 0
  /\ \A p, q \in Procs : proc[p].pc = pc /\ proc[q].pc = pc /\ proc[p].order = proc[q].order
       => p = q
  /\ \A o \in Orders : released[o][l] > 0 => l \in SettledLanes(o)

\* The sum a handler carries is in Robokassa's hands, and what it has accepted
\* covers the order.
SumsAreReal ==
  /\ \A p \in Procs :
       LET o == proc[p].order IN
       /\ proc[p].pc \in {"createUse", "insert", "load"} =>
            proc[p].sum <= received[o]["main"]
       /\ proc[p].pc = "demoLoad" => proc[p].sum > 0 /\ proc[p].sum = received[o]["demo"]
       /\ proc[p].pc = "demoApply" => received[o]["demo"] = DemoPrice /\ DemoPrice > 0
       /\ proc[p].pc = "apply" /\ proc[p].via # "admin" => Collected(o) >= lowest[o]
  /\ \A o \in Orders :
       /\ demoPayment[o] = "paid" => received[o]["demo"] = DemoPrice /\ DemoPrice > 0
       /\ lowest[o] <= amount[o]

\* A use of a code is counted before an order carries it: every order that does, and
\* every goroutine about to write one, has its own.
Bearers(c) == {p \in Procs : proc[p].pc \in {"insert", "promoWrite"} /\ proc[p].code = c}
Booked(c) ==
  /\ IsFiniteSet(Carriers(c)) /\ IsFiniteSet(Bearers(c))
  /\ uses[c] <= MaxUses
  /\ Cardinality(Carriers(c)) + Cardinality(Bearers(c)) <= uses[c]
UsesAreBooked == \A c \in Discounts : Booked(c)
=============================================================================
