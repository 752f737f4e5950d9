------------------------------ MODULE Requests ------------------------------
(***************************************************************************)
(* POST /api/v1/orders and what it may spend: the idempotency middleware   *)
(* around CreateOrder, and the limits that guard the demos of the orders   *)
(* created (one for each email, a number for each day and each IP).        *)
(*                                                                         *)
(* Redis holds the idempotency keys and the counters, PostgreSQL the       *)
(* orders, and every call to either is a step: clients retry at the same   *)
(* time, hang up, pods die, Redis fails.  A client that hangs up cancels   *)
(* the context of its request, and with it every call still to be made.    *)
(*                                                                         *)
(* An attempt creates at most one order, so the order bears its name.  A   *)
(* call that fails changes nothing, except that the commit of an order may *)
(* have happened.  All of it passes within one day and one window of the   *)
(* limit per email.                                                        *)
(***************************************************************************)
EXTENDS Integers, FiniteSets

CONSTANTS
  Attempts,    \* the requests POST /api/v1/orders
  Keys,        \* values of Idempotency-Key
  NoKey,       \* a request without the header
  Emails,
  Workers,     \* goroutines of the Asynq server that run demo tasks
  DailyLimit,  \* demos a day
  IPLimit,     \* demos a day from the clients' IP
  MaxFaults,   \* bound: failed calls and dead pods
  MaxBefore,   \* bound: demos the day has given before these requests, within its limit
  NoOrder

ASSUME RequestsNumbers == DailyLimit \in Nat /\ IPLimit \in Nat /\ MaxFaults \in Nat
                            /\ MaxBefore \in 0 .. DailyLimit
ASSUME RequestsAbsent == NoKey \notin Keys /\ NoOrder \notin Attempts

VARIABLES
  key, email,  \* what an attempt carries
  entry,       \* idempotency:<key> in Redis
  req,         \* the goroutines of the attempts
  order,       \* orders: "none", "unpaid", or "free" with a discount of 100%
  demo,        \* orders.demo_status, as far as the limits decide it
  task,        \* the Asynq task "demo:<order>"
  ipCount,     \* demo:ip:<day>:<ip>
  owner,       \* demo:email:<email>: the order that holds the email
  count,       \* demo:count:<day>
  work,        \* the goroutines of the workers
  faults,      \* failed calls and dead pods so far
  excuse,      \* history: what went wrong with a key, beyond its retries
  granted,     \* history: orders whose Reserve returned true
  slips,       \* history: calls of Reserve that did not run to their end
  before       \* history: demos the day had given when the attempts began

client == <<key, email, before>>
limits == <<ipCount, owner, count>>
history == <<excuse, granted, slips>>
vars == <<client, entry, req, order, demo, task, limits, work, faults, history>>

Order == Attempts \cup {NoOrder}

Free == [state |-> "free", order |-> NoOrder]
Sentinel == [state |-> "running", order |-> NoOrder]
Done(o) == [state |-> "done", order |-> o]

\* An attempt: is its client still there, has it reserved its key, its answer.
NewRequest == [pc |-> "get", alive |-> TRUE, reserved |-> FALSE,
               answer |-> "none", order |-> NoOrder]

\* A worker: its order, and whether this run of Reserve has claimed the email.
NewWork == [pc |-> "idle", order |-> NoOrder, claimed |-> FALSE]

Init ==
  /\ key \in [Attempts -> Keys \cup {NoKey}]
  /\ email \in [Attempts -> Emails]
  /\ entry = [k \in Keys |-> Free]
  /\ req = [r \in Attempts |-> NewRequest]
  /\ order = [r \in Attempts |-> "none"]
  /\ demo = [r \in Attempts |-> "none"]
  /\ task = [r \in Attempts |-> "none"]
  /\ before \in 0 .. MaxBefore
  /\ ipCount = before /\ count = before
  /\ owner = [e \in Emails |-> NoOrder]
  /\ work = [w \in Workers |-> NewWork]
  /\ faults = 0
  /\ excuse = [k \in Keys |-> {}]
  /\ granted = {} /\ slips = 0

-----------------------------------------------------------------------------
(* Steps of a request.                                                     *)

At(r, pc) == req[r].pc = pc
Goto(r, pc) == req' = [req EXCEPT ![r].pc = pc]
Over(r) == req[r].pc = "over"
Started(r) == req[r].pc \notin {"get", "reserve", "over"}
\* A handler still runs after its client has hung up, but not in a dead pod.
Holding(k) == \E r \in Attempts : key[r] = k /\ req[r].reserved /\ ~Over(r)

Answer(r, a, o) == req' = [req EXCEPT ![r].pc = "over", ![r].answer = a, ![r].order = o]

RespondKeepsAll(r, a) ==
  req' = [req EXCEPT ![r].pc = IF req[r].reserved THEN "complete" ELSE "over",
                     ![r].answer = a, ![r].order = IF a = "created" THEN r ELSE NoOrder]

\* The handler has answered: the middleware keeps a 2xx and forgets the key of the rest.
Respond(r, a) ==
  LET pc == IF ~req[r].reserved THEN "over" ELSE IF a = "created" THEN "complete" ELSE "delete"
      o == IF a = "created" THEN r ELSE NoOrder
  IN req' = [req EXCEPT ![r].pc = pc, ![r].answer = a, ![r].order = o]

Excuse(k, cause) ==
  excuse' = IF k \in Keys THEN [excuse EXCEPT ![k] = @ \cup {cause}] ELSE excuse

\* A call of r fails: its client is gone, or the server is.
CallFails(r, cause) ==
  \/ /\ ~req[r].alive
     /\ Excuse(key[r], "hangup") /\ UNCHANGED faults
  \/ /\ faults < MaxFaults /\ faults' = faults + 1
     /\ Excuse(key[r], cause)

Stored(r) == entry[key[r]]

\* The middleware, and the request without a key.
Get(r) ==
  /\ At(r, "get")
  /\ \/ /\ key[r] = NoKey
        /\ Goto(r, "create")
     \/ /\ key[r] \in Keys
        /\ CASE Stored(r).state = "done" -> Answer(r, "replayed", Stored(r).order)
             [] Stored(r).state = "running" -> Answer(r, "conflict", NoOrder)
             [] OTHER -> Goto(r, "reserve")
  /\ UNCHANGED <<client, entry, order, demo, task, limits, work, faults, history>>

Hold(r) ==
  /\ entry' = [entry EXCEPT ![key[r]] = Sentinel]
  /\ req' = [req EXCEPT ![r].pc = "create", ![r].reserved = TRUE]

ReserveAny(r) ==
  /\ At(r, "reserve")
  /\ Hold(r)
  /\ UNCHANGED <<client, order, demo, task, limits, work, faults, history>>

\* Store.Reserve, a SETNX: one of two attempts that have both found nothing gets it.
Reserve(r) ==
  /\ At(r, "reserve")
  /\ \/ entry[key[r]] = Free /\ Hold(r)
     \/ entry[key[r]] # Free /\ Answer(r, "conflict", NoOrder) /\ UNCHANGED entry
  /\ UNCHANGED <<client, order, demo, task, limits, work, faults, history>>

\* Redis is unavailable: the request passes as one without a key.
FailOpen(r) ==
  /\ At(r, "get") \/ At(r, "reserve")
  /\ key[r] \in Keys
  /\ Goto(r, "create")
  /\ CallFails(r, "redis")
  /\ UNCHANGED <<client, entry, order, demo, task, limits, work, granted, slips>>

\* CreateOrder refuses what it has validated, saves nothing, and answers with a 4xx.
Reject(r) ==
  /\ At(r, "create")
  /\ Respond(r, "refused")
  /\ UNCHANGED <<client, entry, order, demo, task, limits, work, faults, history>>

\* The transaction of CreateOrder commits.
CreateOrder(r) ==
  /\ At(r, "create") /\ req[r].alive
  /\ \E price \in {"unpaid", "free"} :
       /\ order' = [order EXCEPT ![r] = price]
       /\ Goto(r, IF price = "free" THEN "activate" ELSE "allow")
  /\ UNCHANGED <<client, entry, demo, task, limits, work, faults, history>>

\* It reports an error, and may have committed.
CreateFails(r) ==
  /\ At(r, "create")
  /\ \E saved \in {"none", "unpaid"} : order' = [order EXCEPT ![r] = saved]
  /\ Respond(r, "failed")
  /\ CallFails(r, "database")
  /\ UNCHANGED <<client, entry, demo, task, limits, work, granted, slips>>

\* HandlePaymentSuccess of an order that costs nothing.
Activate(r) ==
  /\ At(r, "activate") /\ req[r].alive
  /\ Respond(r, "created")
  /\ UNCHANGED <<client, entry, order, demo, task, limits, work, faults, history>>

\* The order is saved and not activated: a 500, for which the key is forgotten.
ActivateFails(r) ==
  /\ At(r, "activate")
  /\ Respond(r, "failed")
  /\ CallFails(r, "database")
  /\ UNCHANGED <<client, entry, order, demo, task, limits, work, granted, slips>>

-----------------------------------------------------------------------------
(* TriggerDemo: the limit per IP, then the task.                           *)

\* Limiter.AllowIP, which counts before it compares.
AllowIP(r) ==
  /\ At(r, "allow") /\ req[r].alive
  /\ ipCount' = ipCount + 1
  /\ Goto(r, IF ipCount' <= IPLimit THEN "enqueue" ELSE "limited")
  /\ UNCHANGED <<client, entry, order, demo, task, owner, count, work, faults, history>>

\* The limit per IP fails open.
AllowFails(r) ==
  /\ At(r, "allow")
  /\ Goto(r, "enqueue")
  /\ CallFails(r, "redis")
  /\ UNCHANGED <<client, entry, order, demo, task, limits, work, granted, slips>>

EnqueueDemoTask(r) ==
  /\ At(r, "enqueue") /\ req[r].alive
  /\ task' = [task EXCEPT ![r] = "pending"]
  /\ Respond(r, "created")
  /\ UNCHANGED <<client, entry, order, demo, limits, work, faults, history>>

\* MarkDemoLimited and UpdateDemo, for an IP over its limit.
LimitByIP(r) ==
  /\ At(r, "limited") /\ req[r].alive
  /\ demo' = [demo EXCEPT ![r] = "limited"]
  /\ Respond(r, "created")
  /\ UNCHANGED <<client, entry, order, task, limits, work, faults, history>>

\* Neither a lost task nor an unsaved mark fails the request.
TriggerFails(r) ==
  /\ At(r, "enqueue") \/ At(r, "limited")
  /\ Respond(r, "created")
  /\ CallFails(r, "redis")
  /\ UNCHANGED <<client, entry, order, demo, task, limits, work, granted, slips>>

-----------------------------------------------------------------------------
(* The end of a request.                                                   *)

\* Store.Complete: the answer replaces the sentinel for 24 hours.
Complete(r) ==
  /\ At(r, "complete") /\ req[r].alive
  /\ entry' = [entry EXCEPT ![key[r]] = Done(r)]
  /\ Goto(r, "over")
  /\ UNCHANGED <<client, order, demo, task, limits, work, faults, history>>

DeleteNothing(r) ==
  /\ At(r, "delete") /\ req[r].alive
  /\ Goto(r, "over")
  /\ UNCHANGED <<client, entry, order, demo, task, limits, work, faults, history>>

\* Store.Delete: the client may try again with its key.
Delete(r) ==
  /\ At(r, "delete") /\ req[r].alive
  /\ entry' = [entry EXCEPT ![key[r]] = Free]
  /\ Goto(r, "over")
  /\ UNCHANGED <<client, order, demo, task, limits, work, faults, history>>

\* The error of Complete and of Delete is ignored: the sentinel stays.
EndFails(r) ==
  /\ At(r, "complete") \/ At(r, "delete")
  /\ Goto(r, "over")
  /\ CallFails(r, "redis")
  /\ UNCHANGED <<client, entry, order, demo, task, limits, work, granted, slips>>

\* The client gives up waiting; its handler goes on with a cancelled context.  Before
\* CreateOrder nothing of the request remains: such an attempt was never made.
HangUp(r) ==
  /\ Started(r) /\ req[r].alive
  /\ req' = [req EXCEPT ![r].alive = FALSE]
  /\ UNCHANGED <<client, entry, order, demo, task, limits, work, faults, history>>

\* The pod dies with the request.
Die(r) ==
  /\ Started(r)
  /\ faults < MaxFaults /\ faults' = faults + 1
  /\ Answer(r, "none", NoOrder)
  /\ Excuse(key[r], "crash")
  /\ UNCHANGED <<client, entry, order, demo, task, limits, work, granted, slips>>

\* ttlInProgress has passed.  A handler that still runs ends within it.
Expire(k) ==
  /\ entry[k] = Sentinel /\ ~Holding(k)
  /\ entry' = [entry EXCEPT ![k] = Free]
  /\ UNCHANGED <<client, req, order, demo, task, limits, work, faults, history>>

-----------------------------------------------------------------------------
(* GenerateDemo up to the answer of Limiter.Reserve, and what it does with *)
(* it.  The slot of the account is the subject of Demo.                    *)

Doing(w, pc) == work[w].pc = pc
Proceed(w, pc) == work' = [work EXCEPT ![w].pc = pc]
Rest(w) == work' = [work EXCEPT ![w] = NewWork]
Mail(w) == email[work[w].order]

requests == <<client, entry, req, order, excuse>>

TakeDemo(w, o) ==
  /\ Doing(w, "idle") /\ task[o] = "pending"
  /\ task' = [task EXCEPT ![o] = "active"]
  /\ work' = [work EXCEPT ![w] = [pc |-> "claim", order |-> o, claimed |-> FALSE]]
  /\ UNCHANGED <<requests, demo, limits, faults, granted, slips>>

Claim(w) ==
  /\ owner' = [owner EXCEPT ![Mail(w)] = work[w].order]
  /\ work' = [work EXCEPT ![w].pc = "count", ![w].claimed = TRUE]

ClaimEmailAny(w) ==
  /\ Doing(w, "claim")
  /\ Claim(w)
  /\ UNCHANGED <<requests, demo, task, ipCount, count, faults, granted, slips>>

\* Reserve: SETNX of the key of the email with the order.
ClaimEmail(w) ==
  /\ Doing(w, "claim")
  /\ \/ owner[Mail(w)] = NoOrder /\ Claim(w)
     \/ owner[Mail(w)] # NoOrder /\ Proceed(w, "owner") /\ UNCHANGED owner
  /\ UNCHANGED <<requests, demo, task, ipCount, count, faults, granted, slips>>

Grant(w) ==
  /\ granted' = granted \cup {work[w].order}
  /\ Proceed(w, "start")

\* Reserve: whose is the email.  A key that is gone by now is an error, and an error
\* ends the task: a demo is not made when its limit cannot be checked.
ReadOwner(w) ==
  /\ Doing(w, "owner")
  /\ LET o == owner[Mail(w)]
     IN \/ o = work[w].order /\ Grant(w) /\ UNCHANGED task
        \/ o \in Attempts \ {work[w].order} /\ Proceed(w, "limit") /\ UNCHANGED <<task, granted>>
        \/ /\ o = NoOrder
           /\ task' = [task EXCEPT ![work[w].order] = "done"] /\ Rest(w)
           /\ UNCHANGED granted
  /\ UNCHANGED <<requests, demo, limits, faults, slips>>

CountDemoLate(w) ==
  /\ Doing(w, "count")
  /\ count' = count + 1
  /\ IF count' > DailyLimit + 1 THEN Proceed(w, "uncount") /\ UNCHANGED granted ELSE Grant(w)
  /\ UNCHANGED <<requests, demo, task, ipCount, owner, faults, slips>>

\* Reserve: INCR of the day's counter, then the comparison.
CountDemo(w) ==
  /\ Doing(w, "count")
  /\ count' = count + 1
  /\ IF count' > DailyLimit THEN Proceed(w, "uncount") /\ UNCHANGED granted ELSE Grant(w)
  /\ UNCHANGED <<requests, demo, task, ipCount, owner, faults, slips>>

\* Reserve: the demo over the limit is taken off the counter again.
Uncount(w) ==
  /\ Doing(w, "uncount")
  /\ count' = count - 1
  /\ Proceed(w, "rollback")
  /\ UNCHANGED <<requests, demo, task, ipCount, owner, faults, granted, slips>>

KeepEmail(w) ==
  /\ Doing(w, "rollback")
  /\ Proceed(w, "limit")
  /\ UNCHANGED <<requests, demo, task, limits, faults, granted, slips>>

\* rollbackEmail: the email may still have its demo, with another order.
RollbackEmail(w) ==
  /\ Doing(w, "rollback")
  /\ owner' = IF work[w].claimed THEN [owner EXCEPT ![Mail(w)] = NoOrder] ELSE owner
  /\ Proceed(w, "limit")
  /\ UNCHANGED <<requests, demo, task, ipCount, count, faults, granted, slips>>

\* A call of Reserve fails.  The first two and the counter end the task, the counter
\* after its email is given back; the error of a rollback is ignored.
ReserveFails(w) ==
  /\ faults < MaxFaults /\ faults' = faults + 1
  /\ slips' = slips + 1
  /\ \/ /\ Doing(w, "claim") \/ Doing(w, "owner")
        /\ task' = [task EXCEPT ![work[w].order] = "done"] /\ Rest(w)
        /\ UNCHANGED owner
     \/ /\ Doing(w, "count")
        /\ task' = [task EXCEPT ![work[w].order] = "done"] /\ Rest(w)
        /\ owner' \in {owner, [owner EXCEPT ![Mail(w)] = NoOrder]}
     \/ /\ Doing(w, "uncount") /\ Proceed(w, "rollback")
        /\ UNCHANGED <<task, owner>>
     \/ /\ Doing(w, "rollback") /\ Proceed(w, "limit")
        /\ UNCHANGED <<task, owner>>
  /\ UNCHANGED <<requests, demo, ipCount, count, granted>>

\* MarkDemoLimited and UpdateDemo; an error of the write is only logged.
MarkLimited(w) ==
  /\ Doing(w, "limit")
  /\ demo' = [demo EXCEPT ![work[w].order] = IF @ = "none" THEN "limited" ELSE @]
  /\ task' = [task EXCEPT ![work[w].order] = "done"]
  /\ Rest(w)
  /\ UNCHANGED <<requests, limits, faults, granted, slips>>

\* The rest of GenerateDemo: started, or failed and tried again, or archived.
StartDemo(w) ==
  /\ Doing(w, "start")
  /\ \E end \in {"done", "pending"} :
       /\ task' = [task EXCEPT ![work[w].order] = end]
       /\ demo' = [demo EXCEPT ![work[w].order] = IF end = "done" THEN "started" ELSE @]
  /\ Rest(w)
  /\ UNCHANGED <<requests, limits, faults, granted, slips>>

\* The pod dies with the task, which Asynq gives to another worker.
DieWorking(w) ==
  /\ ~Doing(w, "idle")
  /\ faults < MaxFaults /\ faults' = faults + 1
  /\ slips' = slips + 1
  /\ task' = [task EXCEPT ![work[w].order] = "pending"]
  /\ Rest(w)
  /\ UNCHANGED <<requests, demo, limits, granted>>

-----------------------------------------------------------------------------

RequestStep(r) ==
  \/ Get(r) \/ Reserve(r) \/ FailOpen(r)
  \/ Reject(r) \/ CreateOrder(r) \/ CreateFails(r) \/ Activate(r) \/ ActivateFails(r)
  \/ AllowIP(r) \/ AllowFails(r) \/ EnqueueDemoTask(r) \/ LimitByIP(r) \/ TriggerFails(r)
  \/ Complete(r) \/ Delete(r) \/ EndFails(r)

WorkStep(w) ==
  \/ \E o \in Attempts : TakeDemo(w, o)
  \/ ClaimEmail(w) \/ ReadOwner(w) \/ CountDemo(w) \/ Uncount(w) \/ RollbackEmail(w)
  \/ ReserveFails(w) \/ MarkLimited(w) \/ StartDemo(w)

Next ==
  \/ \E r \in Attempts : RequestStep(r) \/ HangUp(r) \/ Die(r)
  \/ \E k \in Keys : Expire(k)
  \/ \E w \in Workers : WorkStep(w) \/ DieWorking(w)

Spec == Init /\ [][Next]_vars

-----------------------------------------------------------------------------
(* Properties.                                                             *)

\* Every variable has its type; the day's counter is never negative.
TypeOK ==
  /\ key \in [Attempts -> Keys \cup {NoKey}] /\ email \in [Attempts -> Emails]
  /\ entry \in [Keys -> [state : {"free", "running", "done"}, order : Order]]
  /\ req \in [Attempts -> [
       pc : {"get", "reserve", "create", "activate", "allow", "enqueue", "limited",
             "complete", "delete", "over"},
       alive : BOOLEAN, reserved : BOOLEAN, order : Order,
       answer : {"none", "created", "replayed", "conflict", "refused", "failed"}]]
  /\ order \in [Attempts -> {"none", "unpaid", "free"}]
  /\ demo \in [Attempts -> {"none", "limited", "started"}]
  /\ task \in [Attempts -> {"none", "pending", "active", "done"}]
  /\ ipCount \in Nat /\ count \in Nat
  /\ owner \in [Emails -> Order]
  /\ work \in [Workers -> [
       pc : {"idle", "claim", "owner", "count", "uncount", "rollback", "limit", "start"},
       order : Order, claimed : BOOLEAN]]
  /\ faults \in 0 .. MaxFaults /\ before \in 0 .. MaxBefore
  /\ excuse \in [Keys -> SUBSET {"hangup", "redis", "database", "crash"}]
  /\ granted \subseteq Attempts /\ slips \in Nat

OrdersOf(k) == {r \in Attempts : key[r] = k /\ order[r] # "none"}

\* However many attempts of a client run at once, one order is created for its key,
\* as long as its calls are answered and its pods live.
OneOrderPerKey == \A k \in Keys :
  excuse[k] = {} => Cardinality(OrdersOf(k)) <= 1

\* The answer a retry is given names an order that was created for its key, and the
\* same one every time.
ReplayIsTheOrder == \A r, q \in Attempts :
  req[r].answer = "replayed" =>
    /\ req[r].order \in OrdersOf(key[r])
    /\ req[q].answer = "replayed" /\ key[q] = key[r] => req[q].order = req[r].order

\* When nothing went wrong with a key, it is held by an attempt that still runs, or
\* not at all: no client is told "in progress" about a request that has ended.
HeldWhileRunning == \A k \in Keys :
  entry[k] = Sentinel /\ excuse[k] = {} => Holding(k)

\* An email has one demo, whatever the orders it comes with, retries and rollbacks.
OneDemoPerEmail == \A o, q \in granted : email[o] = email[q] => o = q

\* A day gives its number of demos and no more, but for calls of Reserve cut short:
\* one that has claimed the email and not counted yet is granted when it is retried.
WithinDailyLimit == Cardinality(granted) <= DailyLimit - before + slips

Reserving == {w \in Workers : Doing(w, "uncount")}

\* The day's counter is the demos given and those being taken off it again; a
\* refusal costs the day nothing, and an order refused by the day leaves its email free.
RefusalsCostNothing == slips = 0 =>
  /\ count = before + Cardinality(granted) + Cardinality(Reserving)
  /\ \A o \in Attempts : demo[o] = "limited" => owner[email[o]] # o
=============================================================================
