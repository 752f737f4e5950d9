----------------------------- MODULE Generation -----------------------------
(***************************************************************************)
(* From a paid and queued order to its song: the generation task and the   *)
(* status polls of the Asynq queue, the workers that run them, the pool of *)
(* Suno accounts whose slots they hold, the recovery ticker that picks up  *)
(* what a dead pod left behind, and the admin who refunds and regenerates. *)
(*                                                                         *)
(* Everybody reads an order, works on the copy - for as long as a call to  *)
(* Suno, S3 or Robokassa takes - and writes the whole row back             *)
(* (OrderRepository.Update has no condition).  An account is written back  *)
(* with its status as read and its counters as differences.                *)
(***************************************************************************)
EXTENDS Integers, FiniteSets

CONSTANTS
  Orders, Accounts,
  Workers,         \* goroutines of the Asynq server
  Crons,           \* recovery tickers, one in each pod that runs a worker
  Admins,          \* goroutines of the admin API; {} leaves the admin out
  MaxSlots,        \* max_concurrent_tasks of an account
  MaxJobs,         \* bound: generations submitted to Suno for an order
  HeartbeatHolds,  \* TRUE: while an order is polled it is never 30 minutes without
                   \* an Update, as stuckOrderThreshold intends
  NoOrder, NoAccount

ASSUME NumbersAssumption == MaxSlots \in Nat /\ MaxJobs \in Nat

ASSUME AbsentAssumption == NoOrder \notin Orders /\ NoAccount \notin Accounts

\* A goroutine is started to be one of these.
ASSUME RolesAssumption ==
  Workers \cap Crons = {} /\ Workers \cap Admins = {} /\ Crons \cap Admins = {}

VARIABLES
  row,        \* table orders: payment_status, generation_status, assigned_account_id
  quiet,      \* orders whose updated_at is older than stuckOrderThreshold
  slots,      \* suno_accounts.concurrent_tasks
  status,     \* suno_accounts.status
  genTask,    \* the Asynq task "generate:<order>"
  polls,      \* the Asynq tasks polling a Suno job: <<order, job>>
  submitted,  \* Suno jobs created for an order; a job is named by its number
  proc,       \* the goroutines
  leaked,     \* history: slots taken that nobody will give back
  delivered,  \* history: how many times an order has been completed
  expired,    \* history: accounts banned for a dead session, not reactivated since
  repaid      \* history: orders refunded before their song was delivered

queue == <<genTask, polls>>
pool == <<slots, status>>
history == <<leaked, delivered, expired, repaid>>
vars == <<row, quiet, pool, queue, submitted, proc, history>>

Procs == Workers \cup Crons \cup Admins

Row == [payment : {"paid", "refunded"},
        generation : {"queued", "processing", "completed", "failed"},
        assigned : Accounts \cup {NoAccount}]

Fresh == [payment |-> "paid", generation |-> "queued", assigned |-> NoAccount]

\* A goroutine: the order it works on, its copy of the row, the account it has
\* loaded with the status it read and the slots it will give back, its job.
Idle == [pc |-> "idle", order |-> NoOrder, copy |-> Fresh,
         account |-> NoAccount, seen |-> "active", back |-> 0, job |-> 0]

-----------------------------------------------------------------------------
Init ==
  /\ row = [o \in Orders |-> Fresh]
  /\ quiet = {}
  /\ slots = [a \in Accounts |-> 0]
  /\ status = [a \in Accounts |-> "active"]
  /\ genTask = [o \in Orders |-> "pending"]
  /\ polls = {}
  /\ submitted = [o \in Orders |-> 0]
  /\ proc = [p \in Procs |-> Idle]
  /\ leaked = [a \in Accounts |-> 0]
  /\ delivered = [o \in Orders |-> 0]
  /\ expired = {}
  /\ repaid = {}

At(p, pc) == proc[p].pc = pc
Become(p, g) == proc' = [proc EXCEPT ![p] = g]
Goto(p, pc) == Become(p, [proc[p] EXCEPT !.pc = pc])
Return(p) == Become(p, Idle)
Enter(p, o, pc) ==
  /\ At(p, "idle")
  /\ Become(p, [Idle EXCEPT !.pc = pc, !.order = o, !.copy = row[o]])

\* What the methods of Order do to a copy.
StartProcessing(copy, a) == [copy EXCEPT !.generation = "processing", !.assigned = a]
Completed(copy) == [copy EXCEPT !.generation = "completed"]
Requeued(copy) == [copy EXCEPT !.generation = "queued", !.assigned = NoAccount]
Failed(copy) == [copy EXCEPT !.generation = "failed"]
MarkRefunded(copy) == [copy EXCEPT !.payment = "refunded"]
CancelGenerationForRefund(copy) ==
  IF copy.generation \in {"queued", "processing"}
    THEN [Failed(copy) EXCEPT !.assigned = NoAccount] ELSE copy
Running(copy) == copy.generation = "processing"

\* What the methods of SunoAccount do: the slot given back is a difference.
IsAvailable(a) == status[a] = "active" /\ slots[a] < MaxSlots
AcquireSlot(a) == IsAvailable(a) /\ slots' = [slots EXCEPT ![a] = @ + 1]
SlotToRelease(a) == IF slots[a] > 0 THEN 1 ELSE 0
BanForInvalidSession(g) == [g EXCEPT !.seen = "banned"]

\* The histories count up to a bound.
Bump(n, bound) == IF n < bound THEN n + 1 ELSE n
Leak(a) == leaked' = [leaked EXCEPT ![a] = Bump(@, MaxSlots + 1)]
Deliver(p) == delivered' = [delivered EXCEPT ![proc[p].order] = Bump(@, 2)]

LessBelowZero(n, k) == n - k

\* GREATEST(concurrent_tasks - n, 0)
Less(n, k) == IF n >= k THEN n - k ELSE 0

\* OrderRepository.Update: every column of the row becomes what the copy holds.
SaveOrder(o, copy) ==
  /\ row' = [row EXCEPT ![o] = copy]
  /\ quiet' = quiet \ {o}

\* An Update of the progress: a heartbeat with a full row.  A failure is logged.
Heartbeat(p) == SaveOrder(proc[p].order, proc[p].copy) \/ UNCHANGED <<row, quiet>>

\* AccountRepository.Update of a loaded account: slots by difference, status as read.
SaveAccount(a, seen, k) ==
  /\ slots' = [slots EXCEPT ![a] = Less(@, k)]
  /\ status' = [status EXCEPT ![a] = seen]

\* AccountRepository.GetByID and ReleaseSlot on what is read.
Loaded(p, pc, a) ==
  [proc[p] EXCEPT !.pc = pc, !.account = a, !.seen = status[a], !.back = SlotToRelease(a)]

\* saveOrderAndAccount: both or neither; no account, no second write.
SaveBoth(o, copy, a, seen, k) ==
  /\ SaveOrder(o, copy)
  /\ IF a = NoAccount THEN UNCHANGED pool ELSE SaveAccount(a, seen, k)

-----------------------------------------------------------------------------
(* Tasks.  A generation task is unique by its id; polls are not.           *)

EnqueueWithoutRescue(o) ==
  genTask' = [genTask EXCEPT ![o] = IF @ = "none" THEN "pending" ELSE @]

\* Client.Enqueue, or on a conflict of ids Inspector.RunTask: a task in retry or
\* in the archive becomes pending, one that is pending or active stays.
EnqueueGenerationTask(o) ==
  genTask' = [genTask EXCEPT ![o] = IF @ = "active" THEN "active" ELSE "pending"]

Poll(p) == <<proc[p].order, proc[p].job>>
Polling(p) == proc[p].job > 0 /\ Poll(p) \in polls
Taken(t) == \E p \in Workers : Poll(p) = t

\* The handler returns nil: the task is deleted.  It is archived after its last retry.
FinishTask(p) ==
  IF Polling(p) THEN polls' = polls \ {Poll(p)} /\ UNCHANGED genTask
                ELSE genTask' = [genTask EXCEPT ![proc[p].order] = "none"] /\ UNCHANGED polls
ArchiveTask(p) ==
  IF Polling(p) THEN polls' = polls \ {Poll(p)} /\ UNCHANGED genTask
                ELSE genTask' = [genTask EXCEPT ![proc[p].order] = "archived"] /\ UNCHANGED polls
RetryTask(p) ==
  IF Polling(p) THEN UNCHANGED queue
                ELSE genTask' = [genTask EXCEPT ![proc[p].order] = "retry"] /\ UNCHANGED polls

\* The handler returns an error: one more retry, or the ErrorHandler takes over.
TaskFails(p) ==
  \/ RetryTask(p) /\ Return(p)
  \/ Goto(p, "dead") /\ UNCHANGED queue

-----------------------------------------------------------------------------
(* ProcessGenerationTask.                                                  *)

TakeGenerateAny(p, o) ==
  /\ p \in Workers
  /\ genTask[o] \in {"pending", "retry"}
  /\ Enter(p, o, "lock") /\ genTask' = [genTask EXCEPT ![o] = "active"]
  /\ UNCHANGED <<row, quiet, pool, polls, submitted, history>>

\* The order is read; for one that is not queued there is nothing to do.
TakeGenerate(p, o) ==
  /\ p \in Workers
  /\ genTask[o] \in {"pending", "retry"}
  /\ IF row[o].generation = "queued"
       THEN Enter(p, o, "lock") /\ genTask' = [genTask EXCEPT ![o] = "active"]
       ELSE At(p, "idle") /\ genTask' = [genTask EXCEPT ![o] = "none"] /\ UNCHANGED proc
  /\ UNCHANGED <<row, quiet, pool, polls, submitted, history>>

LockAccountUnnamed(p, a) ==
  /\ At(p, "lock")
  /\ AcquireSlot(a)
  /\ Become(p, [proc[p] EXCEPT !.pc = "start", !.account = a, !.back = 1,
                !.copy.generation = "processing"])
  /\ UNCHANGED <<row, quiet, status, queue, submitted, history>>

\* FetchAndLockAvailable, then StartProcessing on the copy.
LockAccount(p, a) ==
  /\ At(p, "lock")
  /\ AcquireSlot(a)
  /\ Become(p, [proc[p] EXCEPT !.pc = "start", !.account = a, !.back = 1,
                              !.copy = StartProcessing(@, a)])
  /\ UNCHANGED <<row, quiet, status, queue, submitted, history>>

\* ErrNoAvailableAccount: banned, full, cooling down or locked accounts only.
\* HandleDeadTask enqueues again, which conflicts with the task it handles: that
\* one is still active, and goes to the archive.
PoolBusy(p) ==
  /\ At(p, "lock")
  /\ RetryTask(p) \/ ArchiveTask(p)
  /\ Return(p)
  /\ UNCHANGED <<row, quiet, pool, submitted, history>>

\* saveOrderAndAccount of the start.
SaveStart(p) ==
  /\ At(p, "start")
  /\ SaveBoth(proc[p].order, proc[p].copy, proc[p].account, proc[p].seen, 0)
  /\ Goto(p, "brief")
  /\ UNCHANGED <<queue, submitted, history>>

\* It fails: ReleaseSlot reaches the account in memory only.
SaveStartFails(p) ==
  /\ At(p, "start")
  /\ Leak(proc[p].account)
  /\ TaskFails(p)
  /\ UNCHANGED <<row, quiet, pool, submitted, delivered, expired, repaid>>

\* An empty brief: the order goes back to the queue.
BriefEmpty(p) ==
  /\ At(p, "brief")
  /\ Goto(p, "rollback")
  /\ UNCHANGED <<row, quiet, pool, queue, submitted, history>>

\* The progress before the submission is saved, or not.
SaveProgress(p) ==
  /\ At(p, "brief")
  /\ Heartbeat(p)
  /\ Goto(p, "submit")
  /\ UNCHANGED <<pool, queue, submitted, history>>

\* SubmitGeneration succeeds: Suno has a new job.
Submit(p) ==
  LET o == proc[p].order IN
  /\ At(p, "submit")
  /\ submitted[o] < MaxJobs
  /\ submitted' = [submitted EXCEPT ![o] = @ + 1]
  /\ Become(p, [proc[p] EXCEPT !.pc = "saveJob", !.job = submitted[o] + 1])
  /\ UNCHANGED <<row, quiet, pool, queue, history>>

\* ErrProviderSessionExpired: BanForInvalidSession.
SubmitExpired(p) ==
  /\ At(p, "submit")
  /\ Become(p, BanForInvalidSession([proc[p] EXCEPT !.pc = "rollback"]))
  /\ UNCHANGED <<row, quiet, pool, queue, submitted, history>>

\* Any other error of the provider: the account cools down.
SubmitFails(p) ==
  /\ At(p, "submit")
  /\ Goto(p, "rollback")
  /\ UNCHANGED <<row, quiet, pool, queue, submitted, history>>

\* The second saveOrderAndAccount, with the job running.
SaveJob(p) ==
  /\ At(p, "saveJob")
  /\ SaveBoth(proc[p].order, proc[p].copy, proc[p].account, proc[p].seen, 0)
  /\ Goto(p, "poll")
  /\ UNCHANGED <<queue, submitted, history>>

SaveJobFails(p) ==
  /\ At(p, "saveJob")
  /\ TaskFails(p)
  /\ UNCHANGED <<row, quiet, pool, submitted, history>>

\* EnqueueStatusCheckTask, and the generation task is done.
EnqueuePoll(p) ==
  /\ At(p, "poll")
  /\ polls' = polls \cup {Poll(p)}
  /\ genTask' = [genTask EXCEPT ![proc[p].order] = "none"]
  /\ Return(p)
  /\ UNCHANGED <<row, quiet, pool, submitted, history>>

EnqueuePollFails(p) ==
  /\ At(p, "poll")
  /\ Goto(p, "rollback")
  /\ UNCHANGED <<row, quiet, pool, queue, submitted, history>>

RollbackKeepingSlot(p) ==
  /\ At(p, "rollback")
  /\ SaveBoth(proc[p].order, Requeued(proc[p].copy), proc[p].account, proc[p].seen, 0)
  /\ expired' = IF proc[p].seen = "banned" THEN expired \cup {proc[p].account} ELSE expired
  /\ TaskFails(p)
  /\ UNCHANGED <<submitted, leaked, delivered, repaid>>

\* RequeueForRetry, ReleaseSlot, saveOrderAndAccount; the task is retried.
Rollback(p) ==
  /\ At(p, "rollback")
  /\ SaveBoth(proc[p].order, Requeued(proc[p].copy), proc[p].account, proc[p].seen,
              proc[p].back)
  /\ expired' = IF proc[p].seen = "banned" THEN expired \cup {proc[p].account} ELSE expired
  /\ TaskFails(p)
  /\ UNCHANGED <<submitted, leaked, delivered, repaid>>

\* The rollback is not saved: the order stays in processing with its slot.
RollbackFails(p) ==
  /\ At(p, "rollback")
  /\ TaskFails(p)
  /\ UNCHANGED <<row, quiet, pool, submitted, history>>

-----------------------------------------------------------------------------
(* CheckGenerationStatus.                                                  *)

\* The order is read; unless it is in processing the poll is over.
TakePoll(p, t) ==
  /\ p \in Workers /\ At(p, "idle")
  /\ ~Taken(t)
  /\ IF Running(row[t[1]])
       THEN /\ Become(p, [Idle EXCEPT !.pc = "fetch", !.order = t[1],
                                      !.copy = row[t[1]], !.job = t[2]])
            /\ UNCHANGED polls
       ELSE /\ polls' = polls \ {t}
            /\ UNCHANGED proc
  /\ UNCHANGED <<row, quiet, pool, genTask, submitted, history>>

\* FetchResult: still running.
FetchRunning(p) ==
  /\ At(p, "fetch")
  /\ Heartbeat(p)
  /\ Return(p) \/ Goto(p, "stale")
  /\ UNCHANGED <<pool, queue, submitted, history>>

FetchError(p) ==
  /\ At(p, "fetch")
  /\ TaskFails(p)
  /\ UNCHANGED <<row, quiet, pool, submitted, history>>

\* FetchResult is terminal, and the account is loaded.
FetchTerminal(p, pc) ==
  /\ At(p, "fetch")
  /\ Become(p, Loaded(p, pc, proc[p].copy.assigned))
  /\ UNCHANGED <<row, quiet, pool, queue, submitted, history>>

\* The tracks go to S3, each with a heartbeat.
Upload(p) ==
  /\ At(p, "upload")
  /\ Heartbeat(p)
  /\ Goto(p, "complete")
  /\ UNCHANGED <<pool, queue, submitted, history>>

UploadFails(p) ==
  /\ At(p, "upload")
  /\ Heartbeat(p)
  /\ TaskFails(p)
  /\ UNCHANGED <<pool, submitted, history>>

\* Complete or Fail, saved with the released slot in one transaction.
Complete(p) ==
  /\ At(p, "complete")
  /\ SaveBoth(proc[p].order, Completed(proc[p].copy), proc[p].account, proc[p].seen,
              proc[p].back)
  /\ Deliver(p)
  /\ FinishTask(p) /\ Return(p)
  /\ UNCHANGED <<submitted, leaked, expired, repaid>>

Fail(p) ==
  /\ At(p, "fail")
  /\ SaveBoth(proc[p].order, Failed(proc[p].copy), proc[p].account, proc[p].seen, proc[p].back)
  /\ FinishTask(p) /\ Return(p)
  /\ UNCHANGED <<submitted, history>>

SaveResultFails(p) ==
  /\ proc[p].pc \in {"complete", "fail"}
  /\ TaskFails(p)
  /\ UNCHANGED <<row, quiet, pool, submitted, history>>

-----------------------------------------------------------------------------
(* HandleDeadTask: the last retry has failed.                              *)

\* RetryStalePoll: within pollMaxLifetime a new poll takes the place of this one.
RetryStalePoll(p) ==
  LET r == row[proc[p].order] IN
  /\ At(p, "stale")
  /\ \/ ~Running(r) /\ FinishTask(p) /\ Return(p)
     \/ Running(r) /\ Return(p) /\ UNCHANGED queue
     \/ Running(r) /\ Goto(p, "dead") /\ UNCHANGED queue
  /\ UNCHANGED <<row, quiet, pool, submitted, history>>

\* FailGeneration reads the order afresh, and the account it names.
FailGeneration(p) ==
  LET o == proc[p].order
      a == row[o].assigned IN
  /\ At(p, "dead")
  /\ IF row[o].generation \in {"completed", "failed"}
       THEN ArchiveTask(p) /\ Return(p)
       ELSE /\ Become(p, [(IF a = NoAccount THEN proc[p] ELSE Loaded(p, "bury", a)) EXCEPT
                            !.pc = "bury", !.copy = Failed(row[o]), !.account = a])
            /\ UNCHANGED queue
  /\ UNCHANGED <<row, quiet, pool, submitted, history>>

\* The failed order and the released slot are saved; or, if the account could not
\* be read, the order alone; or nothing.
Bury(p) ==
  LET a == proc[p].account IN
  /\ At(p, "bury")
  /\ \/ SaveBoth(proc[p].order, proc[p].copy, a, proc[p].seen, proc[p].back) /\ UNCHANGED leaked
     \/ a # NoAccount /\ SaveOrder(proc[p].order, proc[p].copy) /\ Leak(a) /\ UNCHANGED pool
     \/ UNCHANGED <<row, quiet, pool, leaked>>
  /\ ArchiveTask(p) /\ Return(p)
  /\ UNCHANGED <<submitted, delivered, expired, repaid>>

\* The pod dies.  Asynq gives an active task to another worker.
Crash(p) ==
  /\ proc[p].pc # "idle"
  /\ CASE At(p, "start") -> Leak(proc[p].account)
       [] proc[p].pc \in {"releaseSlot", "giveBack"} -> Leak(proc[p].copy.assigned)
       [] OTHER -> UNCHANGED leaked
  /\ IF p \in Workers THEN RetryTask(p) ELSE UNCHANGED queue
  /\ Return(p)
  /\ UNCHANGED <<row, quiet, pool, submitted, delivered, expired, repaid>>

-----------------------------------------------------------------------------
(* The recovery ticker.                                                    *)

\* Thirty minutes pass without an Update of an order that no goroutine has.  A poll
\* that only meets errors of Suno makes none either.
GoQuiet(o) ==
  /\ genTask[o] # "active" /\ \A p \in Procs : proc[p].order # o
  /\ HeartbeatHolds => \A t \in polls : t[1] # o
  /\ quiet' = quiet \cup {o}
  /\ UNCHANGED <<row, pool, queue, submitted, proc, history>>

\* ListStuckProcessing has returned the order.
StartRecover(p, o) ==
  /\ p \in Crons
  /\ Running(row[o]) /\ o \in quiet
  /\ Enter(p, o, "recover")
  /\ UNCHANGED <<row, quiet, pool, queue, submitted, history>>

\* recoverStuckOrder loads the account of the order.
LoadStuck(p) ==
  /\ At(p, "recover")
  /\ Become(p, Loaded(p, "recoverSave", proc[p].copy.assigned))
  /\ UNCHANGED <<row, quiet, pool, queue, submitted, history>>

\* If the account cannot be read the order alone is saved, and the slot stays taken.
RecoverOrderOnly(p) ==
  /\ At(p, "recover")
  /\ SaveOrder(proc[p].order, Requeued(proc[p].copy))
  /\ Leak(proc[p].copy.assigned)
  /\ Goto(p, "requeue")
  /\ UNCHANGED <<pool, queue, submitted, delivered, expired, repaid>>

\* Back to the queue, and the slot of its account is free.
Recover(p) ==
  /\ At(p, "recoverSave")
  /\ SaveBoth(proc[p].order, Requeued(proc[p].copy), proc[p].account, proc[p].seen, proc[p].back)
  /\ Goto(p, "requeue")
  /\ UNCHANGED <<queue, submitted, history>>

\* RecoverOrphanedQueuedOrders, for an order five minutes in the queue.
RecoverQueued(p, o) ==
  /\ p \in Crons
  /\ row[o].generation = "queued" /\ row[o].payment = "paid"
  /\ Enter(p, o, "requeue")
  /\ UNCHANGED <<row, quiet, pool, queue, submitted, history>>

Requeue(p) ==
  /\ At(p, "requeue")
  /\ EnqueueGenerationTask(proc[p].order)
  /\ Return(p)
  /\ UNCHANGED <<row, quiet, pool, polls, submitted, history>>

-----------------------------------------------------------------------------
(* The admin.                                                              *)

\* RefundOrder reads a paid order and calls Robokassa, for up to 45 seconds.
StartRefund(p, o) ==
  /\ p \in Admins
  /\ row[o].payment = "paid"
  /\ Enter(p, o, "refund")
  /\ UNCHANGED <<row, quiet, pool, queue, submitted, history>>

RefundWithoutFailing(p) ==
  LET o == proc[p].order
      copy == [proc[p].copy EXCEPT !.payment = "refunded"]
      pending == copy.generation \in {"queued", "processing"} IN
  /\ At(p, "refund")
  /\ repaid' = IF pending THEN repaid \cup {o} ELSE repaid
  /\ SaveOrder(o, IF pending THEN [copy EXCEPT !.assigned = NoAccount] ELSE copy)
  /\ IF pending /\ copy.assigned # NoAccount
       THEN Goto(p, "releaseSlot")
       ELSE Return(p)
  /\ UNCHANGED <<pool, queue, submitted, leaked, delivered, expired>>

\* MarkRefunded, CancelGenerationForRefund and the Update, all on the copy.
Refund(p) ==
  LET o == proc[p].order
      copy == MarkRefunded(proc[p].copy)
      pending == copy.generation \in {"queued", "processing"} IN
  /\ At(p, "refund")
  /\ repaid' = IF pending THEN repaid \cup {o} ELSE repaid
  /\ SaveOrder(o, CancelGenerationForRefund(copy))
  /\ IF pending /\ copy.assigned # NoAccount
       THEN Goto(p, "releaseSlot")
       ELSE Return(p)
  /\ UNCHANGED <<pool, queue, submitted, leaked, delivered, expired>>

\* releaseAccountSlot: the account is loaded, and saved with the slot released.
LoadReleased(p) ==
  /\ At(p, "releaseSlot")
  /\ Become(p, Loaded(p, "giveBack", proc[p].copy.assigned))
  /\ UNCHANGED <<row, quiet, pool, queue, submitted, history>>

ReleaseSlot(p) ==
  /\ At(p, "giveBack")
  /\ SaveAccount(proc[p].account, proc[p].seen, proc[p].back)
  /\ Return(p)
  /\ UNCHANGED <<row, quiet, queue, submitted, history>>

StartRegenerateAny(p, o) ==
  /\ p \in Admins
  /\ row[o].payment = "paid" /\ row[o].generation # "completed"
  /\ Enter(p, o, "regenerate")
  /\ UNCHANGED <<row, quiet, pool, queue, submitted, history>>

\* RegenerateOrder: a paid order that failed.
StartRegenerate(p, o) ==
  /\ p \in Admins
  /\ row[o].payment = "paid" /\ row[o].generation = "failed"
  /\ Enter(p, o, "regenerate")
  /\ UNCHANGED <<row, quiet, pool, queue, submitted, history>>

Regenerate(p) ==
  /\ At(p, "regenerate")
  /\ SaveOrder(proc[p].order, Requeued(proc[p].copy))
  /\ Goto(p, "requeue")
  /\ UNCHANGED <<pool, queue, submitted, history>>

\* AccountRepository.SetStatus: the admin takes an account out of the rotation.
SetStatus(a) ==
  /\ status' = [status EXCEPT ![a] = "banned"]
  /\ UNCHANGED <<slots, leaked, expired>>

\* AccountRepository.ResetAccount: active again, and with the slots zeroed if so asked.
ResetAccount(a, releaseSlots) ==
  /\ status' = [status EXCEPT ![a] = "active"]
  /\ IF releaseSlots
       THEN slots' = [slots EXCEPT ![a] = 0] /\ leaked' = [leaked EXCEPT ![a] = 0]
       ELSE UNCHANGED <<slots, leaked>>
  /\ expired' = expired \ {a}

SetAccountStatus(a) == SetStatus(a) \/ ResetAccount(a, FALSE)

\* The buttons of an account in the admin.
Reactivate(a) ==
  /\ Admins # {}
  /\ SetAccountStatus(a) \/ ResetAccount(a, TRUE)
  /\ UNCHANGED <<row, quiet, queue, submitted, proc, delivered, repaid>>

-----------------------------------------------------------------------------
HandleGenerateTask(p) ==
  \/ \E a \in Accounts : LockAccount(p, a)
  \/ PoolBusy(p) \/ SaveStart(p) \/ SaveStartFails(p) \/ BriefEmpty(p) \/ SaveProgress(p)
  \/ Submit(p) \/ SubmitExpired(p) \/ SubmitFails(p) \/ SaveJob(p) \/ SaveJobFails(p)
  \/ EnqueuePoll(p) \/ EnqueuePollFails(p) \/ Rollback(p) \/ RollbackFails(p)

HandleStatusCheckTask(p) ==
  \/ FetchRunning(p) \/ FetchError(p)
  \/ \E pc \in {"upload", "fail"} : FetchTerminal(p, pc)
  \/ Upload(p) \/ UploadFails(p) \/ Complete(p) \/ Fail(p) \/ SaveResultFails(p)

HandleDeadTask(p) == RetryStalePoll(p) \/ FailGeneration(p) \/ Bury(p)

RecoverStuckOrders(p) == LoadStuck(p) \/ RecoverOrderOnly(p) \/ Recover(p) \/ Requeue(p)

RefundOrder(p) == Refund(p) \/ LoadReleased(p) \/ ReleaseSlot(p)

Work(p) ==
  \/ HandleGenerateTask(p) \/ HandleStatusCheckTask(p) \/ HandleDeadTask(p)
  \/ RecoverStuckOrders(p) \/ RefundOrder(p) \/ Regenerate(p)

Begin(p) ==
  \/ \E o \in Orders : \/ TakeGenerate(p, o) \/ StartRecover(p, o) \/ RecoverQueued(p, o)
                       \/ StartRefund(p, o) \/ StartRegenerate(p, o)
  \/ \E t \in polls : TakePoll(p, t)

Next ==
  \/ \E p \in Procs : Begin(p) \/ Work(p) \/ Crash(p)
  \/ \E o \in Orders : GoQuiet(o)
  \/ \E a \in Accounts : Reactivate(a)

Spec == Init /\ [][Next]_vars

\* The Asynq server serves its tasks and the ticker keeps ticking; the database,
\* Redis, Suno and S3 answer again and again, and a step that keeps being possible
\* is some day not cut short by a crash.  A retried task uses its retries up.
OnOrder(o, P, A(_)) == \E p \in P : proc[p].order = o /\ A(p)
Locks(p) == \E a \in Accounts : LockAccount(p, a)
Fetched(p) == \E pc \in {"upload", "fail"} : FetchTerminal(p, pc)
Ends(p) == Complete(p) \/ Fail(p)
LastRetry(p) == /\ SaveStartFails(p) \/ SaveJobFails(p) \/ Rollback(p) \/ RollbackFails(p)
                /\ proc'[p].pc = "dead"
Buried(p) == Bury(p) /\ row' # row

Fairness ==
  /\ \A p \in Procs : WF_vars(Work(p))
  /\ \A o \in Orders :
       /\ SF_vars(\E p \in Workers : TakeGenerate(p, o))
       /\ SF_vars(\E p \in Workers, t \in polls : t[1] = o /\ TakePoll(p, t))
       /\ SF_vars(GoQuiet(o))
       /\ SF_vars(\E p \in Crons : StartRecover(p, o))
       /\ SF_vars(\E p \in Crons : RecoverQueued(p, o))
       /\ SF_vars(OnOrder(o, Crons, LoadStuck))
       /\ SF_vars(OnOrder(o, Crons, Recover)) /\ SF_vars(OnOrder(o, Crons, Requeue))
       /\ SF_vars(OnOrder(o, Workers, Locks)) /\ SF_vars(OnOrder(o, Workers, Fetched))
       /\ SF_vars(OnOrder(o, Workers, LastRetry)) /\ SF_vars(OnOrder(o, Workers, FailGeneration))
       /\ SF_vars(OnOrder(o, Workers, Buried))
       /\ SF_vars(OnOrder(o, Workers, Upload)) /\ SF_vars(OnOrder(o, Workers, Ends))

FairSpec == Spec /\ Fairness

-----------------------------------------------------------------------------
WorkerPCs == {"idle", "lock", "start", "brief", "submit", "saveJob", "poll", "rollback",
              "fetch", "upload", "complete", "fail", "stale", "dead", "bury"}
OfficePCs == {"idle", "recover", "recoverSave", "requeue", "refund", "releaseSlot", "giveBack",
              "regenerate"}

Goroutine == [pc : WorkerPCs \cup OfficePCs, order : Orders \cup {NoOrder}, copy : Row,
              account : Accounts \cup {NoAccount}, seen : {"active", "banned"},
              back : {0, 1}, job : Nat]

\* Every variable stays in its domain, and a busy goroutine has its order.
TypeOK ==
  /\ row \in [Orders -> Row]
  /\ quiet \subseteq Orders
  /\ slots \in [Accounts -> Nat]
  /\ status \in [Accounts -> {"active", "banned"}]
  /\ genTask \in [Orders -> {"none", "pending", "active", "retry", "archived"}]
  /\ polls \subseteq Orders \X (Nat \ {0})
  /\ submitted \in [Orders -> Nat]
  /\ proc \in [Procs -> Goroutine]
  /\ \A p \in Procs : proc[p].pc # "idle" => proc[p].order \in Orders
  /\ leaked \in [Accounts -> Nat]
  /\ delivered \in [Orders -> Nat]
  /\ expired \subseteq Accounts
  /\ repaid \subseteq Orders

\* An order in processing names its account: CheckGenerationStatus dereferences
\* assigned_account_id without a look (order_usecase.go:801).
ProcessingHasAccount == \A o \in Orders : Running(row[o]) => row[o].assigned \in Accounts

\* concurrent_tasks counts what it should: every slot taken in an account is that
\* of an order in processing, or of a worker about to store it, or it leaked where
\* the code gives it up; whatever failed, crashed or was recovered in between.
Holders(a) == {o \in Orders : Running(row[o]) /\ row[o].assigned = a}
Starters(a) == {p \in Workers : At(p, "start") /\ proc[p].account = a}
SlotsAccountedFor == \A a \in Accounts :
  slots[a] = leaked[a] + Cardinality(Holders(a)) + Cardinality(Starters(a))

\* The code works on one generation of an order at a time: one status poll in the queue,
\* and none while another generation is being submitted.  Counted are polls and
\* submitters; a song that Suno still makes after its poll could not be enqueued, and
\* the order was queued again, is polled by nobody and is not counted.
Generating(o) == {p \in Workers :
  proc[p].order = o /\ proc[p].pc \in {"start", "brief", "submit", "saveJob", "poll"}}
OneGeneration == \A o \in Orders :
  Cardinality({t \in polls : t[1] = o}) + Cardinality(Generating(o)) <= 1

\* The client gets the song once, and a delivered order is never pulled back into
\* the queue by a stale copy of it.
DeliveredOnce == \A o \in Orders :
  delivered[o] <= 1 /\ (delivered[o] = 1 <=> row[o].generation = "completed")

\* A paid order ends in a song or in a failure the admin sees, unless the leaked
\* slots have used up the whole pool or every account is banned.
Exhausted == \A a \in Accounts : status[a] = "banned" \/ leaked[a] >= MaxSlots
EveryOrderEnds == \A o \in Orders :
  []<>(row[o].generation \in {"completed", "failed"} \/ Exhausted)

=============================================================================
