# Numaestra in TLA+

Numaestra sells songs. A client fills in a brief or a quiz, may listen to a demo,
pays through Robokassa, and a pool of Suno accounts generates the song. The backend
is a Go program (`cmd/server`) that runs as an API, as a worker or as both, on
PostgreSQL (orders, accounts, promo codes, the catalog), Redis (the Asynq queue,
limits, idempotency keys) and S3. Several pods may run at once. Nothing locks an
order: what keeps it right are conditional UPDATEs, unique task ids, retries and a
recovery ticker. This directory states what that should guarantee, checks it with
TLC on small instances and proves with TLAPS, for every number of orders, workers,
accounts and the rest, what payments, generation, demos, refunds, requests, the catalog and
the start of a process promise.

## 1. The system

| Part | State | Operations | Talks to |
| --- | --- | --- | --- |
| order creation, promo codes (`order_usecase.go`, `promo_code*.go`) | orders.amount, promo_code_id; promo_codes.current_uses | CreateOrder, ApplyPromoToOrder, IncrementUses, UpdatePromo | PostgreSQL |
| payment lanes: song and demo (`order_handler.go`, `order_usecase.go`, `order_repository.go`) | orders.payment_status, demo_payment_status | webhook, SyncPayment, reconciliation, free activation, admin confirmation, links to pay | Robokassa; enqueues tasks |
| song generation (`order_usecase.go`, `worker/processor.go`) | orders.generation_status, assigned_account_id, updated_at | ProcessGenerationTask, CheckGenerationStatus, HandleDeadTask, RetryStalePoll, FailGeneration | queue, accounts, Suno, S3 |
| demo generation (`order_usecase.go` from 1395) | orders.demo_status, demo_account_id, demo clips | TriggerDemo, GenerateDemo, CheckDemoStatus, RecoverStuckDemos, DeleteOrderDemo | queue, the same accounts, Suno, S3 |
| accounts (`account.go`, `account_repository.go`) | suno_accounts.status, concurrent_tasks, cooldown, tokens | FetchAndLockAvailable, Update by differences, ban, ResetAccount | PostgreSQL row locks |
| queue (`asynq_publisher.go`) | tasks in Redis: pending, active, retry, archived | enqueue with a unique id, rescue of a waiting task, polls | Asynq |
| recovery ticker (`cmd/server/main.go`) | none; every 5 minutes in each worker pod | stuck orders, orphans of the queue, unpaid orders, stuck demos, free orders | all of the above |
| admin (`admin_usecase.go`) | none | refund, regenerate, confirm, delete, reset accounts | Robokassa, orders, accounts |
| refunds (`pkg/robokassa`) | a map of refunds waited for, in the memory of a pod | Client.Refund: three calls and polls | Robokassa, under a breaker |
| breakers (`pkg/circuitbreaker`) | state and failures, in the memory of a pod | Do | the clients of Suno, the LLM, S3, Robokassa |
| requests (`idempotency.go`, `pkg/idempotency`, `pkg/demolimit`) | keys and counters in Redis | Get/Reserve/Complete/Delete; AllowIP, Reserve | around CreateOrder and GenerateDemo |
| catalog (`category_repository.go`, `genre_repository.go`, `prompt_usecase.go`) | categories, questions, options, genres; a cached list in each pod | forms of the admin, the quiz | orders |
| texts (`pkg/suno/prompt.go`, `generation_jobs.go`, `adapter.go`) | orders.suno_prompt, brief, tracks | BuildFinalPrompt, the encoded prompt, briefs, tasks and clips | Suno |
| start and shutdown (`main.go`, `config.go`, `pkg/migrate`) | the schema, schema_migrations, an advisory lock | configuration, pings, migrations, serve, drain | PostgreSQL, Redis, Docker |
| the rest: sessions, reviews, examples, statistics, SEO, notifications, storage, frontend | rows that are read and written alone | CRUD and rendering | |

What is hard in it:

* A payment is confirmed by up to five paths at the same time, and each works on a
  copy of the order read earlier. They are arbitrated by one conditional UPDATE.
* `OrderRepository.Update` is not conditional. A worker that has read an order
  waits for Suno or S3 and then writes the whole row back.
* A slot of an account is a counter in one row and a fact in another (an order, or a
  demo, in processing). About ten places give slots back.
* Everything between a commit and an enqueue may be cut off by a crash; the ticker
  is what makes the promise "a paid order gets its song" true.
* The demo becomes part of the song, and the song is asked for, polled and delivered
  while the demo may become ready, fail or be deleted.
* Redis fails open in some places and closed in others, and calls to it are sequences
  that a hung-up client or a dead pod cuts short.
* Money is given back by calls that may time out after they have worked.
* Text passes five conversions between the form and Suno, each of which may drop
  something.

The hazards, each at the line where it bites and with the property that would
catch it, are listed in PROJECT.json.

## 2. The modules

| Module | Content |
| --- | --- |
| `Checkout` | What the payment lanes promise: prices move only while the song is unpaid, an invoice is collected once, a lane is settled once and for good, its task is released at most once and only when settled, a song starts only when its lane is settled. |
| `Payments` | The code of both lanes, promo codes, and the end of the lane in the queue. Implements `Checkout`. |
| `PaymentsProofs` | The theorems about `Payments`. |
| `GenerationProofs`, `DemoProofs`, `CatalogProofs`, `SongProofs` | The theorems about `Generation`, `Demo`, `Catalog` and `Song`. |
| `RequestsProofs`, `RefundProofs`, `ServiceProofs` | The theorems about `Requests`, about `Refund` and `Breaker`, about `Service`. |
| `Generation` | From the queued order to the song: tasks, polls, workers, account slots, the ticker, the admin. |
| `Demo` | The demo of an order beside its song: tasks, polls, slots, recovery, deletion, reuse. |
| `Requests` | `POST /orders` under its idempotency key, and the limits that guard the demos. |
| `Breaker` | The circuit breaker as a value with the operations of `Do`. |
| `Refund` | RefundOrder through the refund client and `Breaker`, on several pods. |
| `Service` | Processes: configuration, migrations under the advisory lock, serving, shutdown. |
| `Catalog` | The forms of the admin, statement by statement, the caches and the quiz. |
| `Song` | What the answers, the stored text and the requests say, and which clips become tracks. |
| `MC...` | Values and symmetry of each for TLC. |

The modules divide an order among them and each keeps the rest abstract. `Payments`
ends where a worker takes a queued order (`generation = "started"`); `Generation`
begins with orders that are paid and queued. `Demo` has the demo in full and the song
in four steps, over the slots they share. `Song` has no failures of storage and no
slots, but says what is in the texts and clips that `Demo` only counts. `Requests`
ends where the limits have answered, which in `Demo` is the step `Limits`. `Refund`
has the calls to Robokassa, of which `Generation` has the result.

### Payments

A goroutine is a record in `proc` with a program counter, its copy of what it has
read (`sum`, `outer`, `quote`, `code`) and the path it came by (`via`). One handler is a chain of
actions cut at each database statement and each external call:

| Code | Actions |
| --- | --- |
| `CreateOrder` | `StartCreate`, `IncrementUses`, `InsertOrder`, and for a free order `Load`, `Apply`, `EnqueueTask` |
| `ApplyPromoToOrder` | `StartPromo`, `IncrementUses`, `WritePromo` |
| links and the client | `LinkSum`, `OpenPage`, `Pay` (Robokassa, external) |
| `HandleRobokassaWebhook` | `Webhook`, then `Load` or `LoadDemo` |
| `SyncPayment`, `ReconcilePendingPayments` | `SyncPayment`/`Reconcile`, `PollDemoPaid`/`PollDemoSkip`, `LoadDemo`, `ApplyDemo`, `EnqueueDemo`, `PollPaid`/`PollFails`, `Load`, `Apply`, `EnqueueTask` |
| `applyPaymentSuccess` | `Apply` (the conditional UPDATE decides who wins), `EnqueueTask` |
| `RecoverFreePendingOrders`, `AdminConfirmPayment`, `RecoverOrphanedQueuedOrders` | `RecoverFree`, `AdminConfirm`, `RecoverOrphanedQueued` |
| any error, the end of a request, the death of a pod | `Abort` at every program counter |

`IncrementUses` commits on its own, as the code does (it takes its connection from the
pool, not from the transaction). Time enters as `Age`: fresh, open for
reconciliation, expired. Promo codes are named by the sum they take off.
History variables (`confirmedBy`, `lowest`, `released`) are read by properties and
never by an action.

### Generation

`row` is the part of an order that the pipeline decides on: payment, generation,
assigned account. A goroutine has its copy of the row, which `SaveOrder` writes back
whole, and the status and the number of slots to give back as it saw them in the
account, which `SaveAccount` writes as `status := seen`,
`slots := max(slots - back, 0)`. The transitions of the domain objects are operators
named after the methods (`StartProcessing`, `Completed`, `Requeued`, `AcquireSlot`,
`BanForInvalidSession`, ...).

| Code | Actions |
| --- | --- |
| `ProcessGenerationTask` (`HandleGenerateTask`) | `TakeGenerate`, `LockAccount`/`PoolBusy`, `SaveStart`, `BriefEmpty`/`SaveProgress`, `Submit`/`SubmitExpired`/`SubmitFails`, `SaveJob`, `EnqueuePoll`, and `Rollback` for the errors after the start |
| a save or an enqueue that fails | `SaveStartFails`, `SaveJobFails`, `RollbackFails`, `EnqueuePollFails`, `UploadFails`, `SaveResultFails`, and the third alternatives of `Bury` and `RecoverOrderOnly` |
| `CheckGenerationStatus` (`HandleStatusCheckTask`) | `TakePoll`, `FetchRunning`/`FetchError`/`FetchTerminal`, `Upload`, `Complete`/`Fail` |
| `HandleDeadTask` | `PoolBusy` (archiving), `RetryStalePoll`, `FailGeneration`, `Bury` |
| Asynq | `EnqueueGenerationTask`, `FinishTask`, `ArchiveTask`, `RetryTask`; `Crash` returns an active task to the queue |
| `RecoverStuckOrders`, `RecoverOrphanedQueuedOrders` | `StartRecover`, `LoadStuck`/`RecoverOrderOnly`, `Recover`, `Requeue`; `RecoverQueued`, `Requeue` |
| `RefundOrder`, `RegenerateOrder` | `StartRefund`, `Refund`, `LoadReleased`, `ReleaseSlot`; `StartRegenerate`, `Regenerate`, `Requeue` |
| `SetAccountStatus`, `ResetAccount` | `Reactivate` with `SetStatus` and `ResetAccount` |

A poll is a pair of order and Suno job; a generation task has one of five states.
`quiet` holds the orders whose `updated_at` is older than 30 minutes. The assumption the
code makes about it, that a polled order is never quiet, is the constant
`HeartbeatHolds`, TRUE in the runs (see Known divergences). An order a goroutine works
on does not get quiet: every handler has a timeout far below 30 minutes.
`leaked` counts the slots that the code itself gives up: the save of the start that
fails, a crash at that point, an account that cannot be read during recovery.

### Demo

`demo` holds the demo columns, `slots` the counter of the one account of the pool,
`task` and `checks` the queue, `stored` the batches of clips in S3. `UpdateDemo` writes
the demo columns without a condition, from the copy the goroutine read. A slot
is given back by a write of its own, *before* the order is saved (`GiveBack`, then the
save), so a failed save leads to a second return: the histories `ghosts` (a demo in
processing whose slot is back already) and `stolen` (a second return took somebody
else's slot) tell these apart from what is right.

| Code | Actions |
| --- | --- |
| `TriggerDemo`, `HandleDemoPaymentSuccess` | `TriggerDemo`, `PayDemo` |
| `GenerateDemo` | `TakeDemo`, `LockAccount`/`PoolBusy`, `Limits`, `SaveStart`, `Submit`, `EnqueueCheck`, and `SaveStartFails`, `SubmitFails`, `GiveBack`, `MarkFailed`, `MarkLimited` |
| `CheckDemoStatus` | `TakeCheck`, `FetchLater`/`FetchTerminal`, `UploadClips`, `UploadPreview`, `UploadFails`, `GiveBack`, `SaveReady`/`SaveReadyFails`/`SaveFailed` |
| `RecoverStuckDemos` | `GoQuiet`, `StartRecover`, `GiveBack`, `SaveFailed` |
| `DeleteOrderDemo` | `StartDelete`, `DeleteFiles`, `ClearSaved` |
| Asynq, the pod | `Finish`, `Error`, `TaskFails`, `Crash` |
| the song of the order | `PaySong`, `SubmitSong`, `PollSong`, `CompleteSong`/`FailSong`, with `Asked` and `ReuseDemo` |

`PollsInTime` is the assumption that a demo is polled to its end within
`stuckDemoThreshold` (12 minutes).

### Requests

An attempt is a request that bears an idempotency key or none; its goroutine goes
through the middleware (`Get`, `Reserve`, `FailOpen`), the handler (`Reject`,
`CreateOrder`, `CreateFails`, `Activate`, `ActivateFails`), `TriggerDemo` (`AllowIP`,
`AllowFails`, `EnqueueDemoTask`, `LimitByIP`, `TriggerFails`) and back (`Complete`, `Delete`,
`EndFails`). `HangUp` cancels its context, after which no call of it succeeds;
`Die` is the death of the pod; `Expire` is the five minutes of the sentinel. A worker
runs `demolimit.Reserve` (`TakeDemo`, `ClaimEmail`, `ReadOwner`, `CountDemo`, `Uncount`,
`RollbackEmail`, `ReserveFails`) and acts on the answer (`MarkLimited`, `StartDemo`).

### Refund and Breaker

`Breaker` is a value; `Do` is `Admitted` before the call and `Succeeded` or `Failed`
after it, two critical sections with the call between them. In `Refund` an admin clicks on a pod
(`Click`), and the client runs under the breaker: `Admit`, `LookUp` (the map of refunds
waited for), `FetchOpKey`, `CreateRefund`/`CreateFails`, `Remember`, `Wait`/`WaitFails`,
`Forget`, `Succeed`/`Fail`, then `Save`/`SaveFails` of the row read before. `SetShareRevoked`
saves the same row from its own copy. `Settle` is Robokassa, `Rest` the timeout of the
breaker, `Die` the death of a pod with its map and its breaker.

`slips` counts the steps by which the code loses sight of a refund, and `RefundsAccountedFor` allows one
more refund for each. They are, exhaustively: an answer of `createRefund` that is lost after Robokassa
has created the refund (`CreateFails`); a refund created by a click that found nothing in its map
although another click was about to create one, or one was known (`LookUp` puts it among the `rivals`,
`CreateRefund` counts it): this is an overlapping click on the same pod, a click on another pod, or one that
read the order before it was saved as refunded; and the failed save (`SaveFails`), the death of the pod (`Die`)
and the late save of a share (`SetShareRevoked`) by which the last trace of a refund disappears (`Known`).
All of them happen in the run, in any order; nothing is excluded by assumption, and the property fails
if any one of the five is left uncounted. Refusals, a missing
key, timeouts, failed polls, cancelled refunds, closed pages and an open breaker are no slips.

### Service

`Setting` is an environment; `Load` and `DecodeHexKey` are what `config.Load` and the key
builders accept. A process is `Start`ed by Docker, runs `LoadConfig`, `BuildKeys`,
`PingPostgres`, `AcquireLock`/`LockIsTaken`, `AppliedVersions`, `ApplyMigration`,
`FinishRun` (or `ConnectionLost` anywhere between), `PingRedis`, then serves
(`AcceptRequest`, `AnswerRequest`, `ServeFails`), gets a `Signal` (a deploy of an older or newer
image) and drains (`Shutdown`). Around it: `Kill`, `Outage`, `ComesBack`, `Reap` (Postgres
notices a dead session), `Recycle` (the pool closes an old connection). The advisory lock
belongs to a session, and Run never unlocks it: the connection goes back to the pool with
the lock (`FinishRun`) and holds it until the pool closes it (`Recycle`).

### Catalog

A request is made once and walks through the statements of its form. `CreateCategory`,
`UpdateCategory`, `DeleteCategory`, `AddQuestion`, `UpdateQuestion`, `DeleteQuestion`,
`CreateGenre`, `UpdateGenre`, `DeleteGenre`, `SetCategoryGenres`, `ListCached`, `GetAll`,
`CreateOrder` are its first steps; `SaveCategory`, `ClearOptions`, `InsertOption`, `OptionsDone`,
`CommitLinks`, `InvalidateCache`, `StoreCache`, `BuildFinalPrompt`, `InsertOrder` the ones after.
`Fail` is a statement that fails. What a form wrote bears its request as a stamp, so that
the properties can tell whose rows are there. `clean` is a history: what was edited
without overlap and without a failure.

### Song

Texts are told by what they say: the facts, the customer's words they quote, which of
two versions they ask for, whether they demand an instrumental. `BuildFinalPrompt` (with
`StyleTags`, `Filled`, `Cleaned`, `FormatQuizDescription`), `Encode`/`Decode`, `Briefs`,
`Resolve`, `Jobs`, `Created`, `Fetched` and `Delivered` are the functions of the code on such
texts, as operators; the actions (`CreateOrder`, `GenerateDemo`, `CheckDemoStatus`, `Queue`,
`ProcessGenerationTask`, `CheckGenerationStatus`, `SunoEnds`) put them to work. The answer to a question
is one sentence, the keys MOOD and TEMPO behave as GENRE, and texts never reach the length limit.

## 3. The runs

| Run | Instance | What it asks |
| --- | --- | --- |
| `payments` | 1 order, 2 goroutines, price 3, demo 1, codes worth 2 and 4, 1 use | Nobody is released twice (`ReleasedOnce`) or for less than the price (`PaidInFull`), no code is carried beyond its limit (`PromoWithinLimit`), the price of a paid order stands (`PriceFrozen`), all of it is a `Checkout` |
| `payments_live` | 1 order, 2 goroutines, no demo, code 2 | What Robokassa has collected is settled, what is settled reaches a worker, whatever webhook or task is lost |
| `generation` | 2 orders, 1 account of 2 slots, 2 workers, the ticker, 1 job each | Slots balance, one poll or submission of an order at a time, one delivery, an order in processing names its account |
| `generation_admin` | 1 order, 1 slot, 2 workers, the ticker, an admin, 2 jobs | What of this survives refunds, regenerations, bans and resets |
| `generation_live` | 1 order, 2 slots, 2 workers, the ticker, 2 jobs | A queued order ends in a song or a failure |
| `demo` | 1 order, 2 slots, 2 workers, the ticker, an admin, 1 job | Slots shared by song and demo balance, one demo job at a time, four versions, the demo that was heard is delivered |
| `demo_live` | 1 order, 1 worker, the ticker, 2 jobs | No demo stays in processing |
| `requests` | 3 attempts under one key or none, 2 e-mails, 2 workers, 2 demos a day, 3 per address, 1 fault, at most 1 demo before | One order per key, a replay names it, no key is held by a request that ended, one demo per e-mail, the day's limit, refusals cost nothing |
| `refund` | 2 pods, 2 admins, 1 owner, threshold 2, 2 refunds, 1 death | Recorded as returned only if it was, asked back once and once more per slip, the breaker counts right |
| `service` | 2 instances, 2 images, 5 settings, 2 tries of the lock and of a ping, 1 request, 1 deploy, 2 faults | One migrates at a time, each migration once and in order, nobody serves a schema older than its image, a good configuration comes to serve |
| `catalog` | 1 pod, 3 requests, 1 category, 2 questions, 2 genres, 3 forms of a question, 1 fault | No row outlives what it belongs to, an edit without a rival stands whole, edits become visible |
| `song` | one quiz of 5 sentences, the keys NAME, DATE and WISHES, 2 genres of which one asks for an instrumental, 0 to 2 clips of a task, 3 tasks | No answer is lost on the way to Suno, own words are sung, two versions of each of two texts |

### Why the bounds are enough

Orders meet only in promo codes, account slots, limits and the catalog. A race over one
order is one between two goroutines with different copies, so two goroutines and one order
show it; three paths in a row are still possible since a goroutine that has ended
starts again. Two orders matter where a slot of one is given back for the other
(`generation`) and where two orders want the last use of a code. The latter is left to
`PromoWithinLimitHolds`, which is proved for any number of orders; `payments` checks it
for one order whose client comes with two requests. The price 3 is the least that
has a demo, a remainder, a code below and a code above it.

Two slots are the least with which a slot given back twice is seen (`generation`,
`demo`); with one, `max(slots - back, 0)` hides it. One job per order
excludes the regeneration, which `generation_admin` has with two. Two images are the least
with a deploy back, two tries the least with a retry that succeeds. Three catalog
requests are two that collide and one that comes between. The quiz of `song` has
each shape of sentence that the seeded templates have. Two refunds show a second one
without a slip; that each further one has a slip of its own is proved (`RefundsAccountedForHolds`), and the
run also passes with `MaxRefunds = 3` and `Owners = {}`.

Named bounds, all in guards: `MaxUses` (the limit of a code), `MaxSlots` (the limit of an
account, 2 in the code), `MaxJobs` (submissions per order), `MaxTasks` (Suno tasks per
lane), `MaxFaults` (failed calls, outages, kills), `MaxBefore` (demos given to others
today), `MaxRefunds`, `MaxDeaths`, `MaxDeploys`, `MaxRequests`. Passing steps that have no
bound (retries, crashes, passes of the ticker) go round in the state graph.

`CHECK_DEADLOCK FALSE` stands where a system may end: every order paid and started,
every attempt answered, every request made, every refund over. `Generation` is
checked for deadlock, and ends in none: an order is either delivered, and its ticker
comes round, or can go on.

Symmetry is taken over workers, goroutines, attempts, pods, admins, orders and e-mails in the safety
runs and in none of the runs that check liveness. `TypeOK` is a definition of each module; it is
among the properties of `payments` and `generation_admin`.

`SlotsAccountedFor` and `DeliveredOnce` of `Generation` are not asked of the admin's run, because
they do not hold there: the refund writes a stale copy over a delivered order, or a poll
over a refund, and both give the slot back. `OneGeneration` and `ProcessingHasAccount` survive the
admin. Several properties name their exception (`stolen`, `cleared`, `excuse`, `slips`,
`clean`, `refused`): a history variable of the step after which the code promises nothing. Section 5
says what happens then.

### Fairness

`Payments!Fairness`: every goroutine that can step does (weak), and for each order the
ticker's passes and each of their steps are taken again and again if possible again and again
(strong): the ticker runs every five minutes for ever, and Robokassa, Redis and the
database answer again and again, so that no step fails or is cut off by a crash for
ever. Clients, webhooks, the status page and the admin owe nothing. The demo lane owes
nothing either, so `CollectedIsSettled` is about the song. Reconciliation takes at most 200
orders per pass; the model assumes that an order gets its turn within the window.

`Generation!Fairness` says the same of the Asynq server and the ticker: tasks of an order are
served, a fetch becomes terminal, an upload and a save work at some time, and a
task that is retried over and over uses up its retries (`LastRetry`). No fairness is asked
of the admin, of crashes, of errors, or of `PoolBusy`. `EveryOrderEnds` therefore needs its
exception: leaked slots or bans may use the pool up, and only the admin can repair that.

`Demo!Fairness`: handlers go on and tasks are served (weak), a task that comes back again and
again has its last retry some day (`LastRetry`, `LastCheck`), the ticker comes round and the
database records its decision some day (strong). Crashes stop some day: a demo
may otherwise be started again for ever.

`Service!FairSpec`: a process runs and Docker restarts it, a server that is away comes back,
Postgres notices a dead session, a pool closes an old connection (all weak). Kills, outages
and deploys are bounded, and owe nothing. Neither the holder of the lock nor a waiting
instance is favoured: `EventuallyServes` holds since `Recycle` and `Reap` free the lock.

`Catalog!FairSpec`: a request under way goes on (or fails), and an hour passes.

### Assumptions about the outside

* A call to the database or to Redis that fails has had no effect. The exception is the commit of
  CreateOrder, which may fail towards the caller and stand (`CreateFails` in `Requests`).
* The attempts of `Requests` fall into one day and one window of an e-mail.
* A poll lives as long as its order is not quiet (`HeartbeatHolds`, `PollsInTime`; see section 5).
* Robokassa (`Pay`, `Settle`), Suno (`SunoEnds`, the fetches) and Docker (`Start`) are modelled from
  how the code uses them. Robokassa may create another refund of an operation that has one: this is what
  `robokassa.go:98-100` guards against.

## 4. The proofs

`PaymentsProofs` proves for every set of orders and goroutines, every price,
demo price, set of codes and limit, from `PricesAssumption` (they are natural numbers) and
`AbsentAssumption` (the null values are not orders or codes):

| Theorem | Statement |
| --- | --- |
| `TypeCorrect` | `Spec => []TypeOK` |
| `OrdersInOrder` | an order being created belongs to one goroutine and does not exist yet; lanes that do not exist are not paid |
| `MainReleasedOnce`, `DemoReleasedOnce` | the winner of each conditional UPDATE is alone until it has enqueued |
| `ReleasedOnceHolds` | `Spec => []ReleasedOnce` |
| `PaidInFullHolds` | `Spec => [](SumsAreReal /\ PaidInFull)` |
| `PriceFrozenHolds` | `Spec => PriceFrozen` |
| `ImplementsCheckoutHolds` | `Spec => ImplementsCheckout` |
| `UsesBooked` | `Spec => []UsesAreBooked` |
| `PromoWithinLimitHolds` | `Spec => []PromoWithinLimit` |

The argument. None of the properties is inductive. `ReleasedOnce` needs to know that
whoever is about to enqueue as the winner has a settled lane that was not released, and
that no other goroutine is: `OneWinner`, which holds because the UPDATE is conditional on
the status and a settled lane never opens again. `PaidInFull` needs to know that the sums
goroutines carry are in Robokassa's hands and that a sum compared with the
price a while ago still covers the lowest price the order has had: `SumsAreReal`. It is
relative to `lowest`, not to the current price, since a code may be applied between the
comparison and the UPDATE. `PriceFrozen` needs `CreatorAlone`: the INSERT must not meet
a paid order. The refinement maps `settled` to the two status columns and
`started` to the generation status; every action is a step of `Checkout` or a stutter. Each
invariant is proved once per action, and the later ones use the earlier ones as facts.

`PromoWithinLimit` compares the orders that carry a code with its counted uses. Between the
count and the write of the order a goroutine stands with a use that no order has yet, so the
invariant is that the orders *and* the goroutines about to write (`Bearers`) are together
no more than the uses: `UsesAreBooked`. `IncrementUses` adds a use and a bearer, the two writes turn a
bearer into an order, `Abort` drops a bearer and leaves its use. The sets of orders and
goroutines may be infinite: that only finitely many carry a code is part of the invariant.
The counting itself is in four lemmas about the cardinality of a set with one member
more or less.

`RequestsProofs` proves for any attempts, keys, e-mails, workers and limits, from `RequestsNumbers`
(numbers; a day starts within its limit) and `RequestsAbsent`:

| Theorem | Statement |
| --- | --- |
| `RequestsTypeCorrect` | `Spec => [](TypeOK /\ TasksInHand /\ CountCovers)` |
| `OneDemoPerEmailHolds` | `Spec => [](EmailsInOrder /\ OneDemoPerEmail)` |
| `OneOrderPerKeyHolds` | `Spec => []OneOrderPerKey` |
| `HeldWhileRunningHolds` | `Spec => []HeldWhileRunning` |
| `ReplayIsTheOrderHolds` | `Spec => []ReplayIsTheOrder` |
| `RefusalsCostNothingHolds` | `Spec => []RefusalsCostNothing` |
| `WithinDailyLimitHolds` | `Spec => []WithinDailyLimit` |

Types come first here with two facts about workers: a task is worked on by one of them, and
whoever is about to take a demo off the day's counter has counted it, without which the counter
might go below zero. The limit of an e-mail is `EmailsInOrder`: its key names
the order that got its demo or the one whose worker has claimed it and not yet counted, so the
rollback meets no demo. Keys are shown in three parts (`KeysAreHeld`): `Stages` relates the program counter of a
request to its order; `KeysInOrder` holds whatever goes wrong, because the sentinel is there as long as its
request runs and a kept answer is never replaced; `Unexcused` says for a key
with no accident that an order of it is the one kept or the one of the request that runs. The day
(`DayIsCounted`) counts `Stranded` orders, which hold their e-mail with nobody at work for
them: a retry will grant them uncounted, and each of them, and each demo so granted, is paid for by a slip.

`RefundProofs` proves for any pods, admins and owners and any threshold, from `RefundNumbers`
and `RefundAbsent`:

| Theorem | Statement |
| --- | --- |
| `RefundTypeCorrect` | `Spec => [](TypeOK /\ InHand)`: a goroutine past `CreateRefund` has a refund that exists |
| `RefundedIsReturnedHolds` | `Spec => []RefundedIsReturned` |
| `ClosedBelowThresholdHolds` | `Spec => []ClosedBelowThreshold` |
| `RefundsAccountedForHolds` | `Spec => []RefundsAccountedFor` |

`RefundedIsReturned` is about the row, which any goroutine overwrites from its copy, so
`MoneyFirst` is the invariant: past its last poll, or with a copy that says refunded, a goroutine has the
money behind it, and a finished refund stays finished. `ClosedBelowThreshold` is
inductive by itself: it holds of what each operation of the breaker makes of a breaker it held of, and
between a call and its report any other report may come. `RefundsAccountedFor`
compares two counters that grow at different steps, so `Accounted` says when the free refund has been used: an
admin about to create one that is no rival (`Fresh`) is the only one, and until it has, or whenever nothing is known of
a refund, the slips pay for all there are. A step that asks for nothing keeps this
(`QuietKeeps`) because a trace disappears only with a slip; `Remember` hands the trace from the admin to the
pod and `Forget` back, which is where a lost map would open the gap.

`ServiceProofs` proves for any instances, files of migrations and numbers of tries, from
`ServiceNumbers` and `ServiceAbsent`:

| Theorem | Statement |
| --- | --- |
| `ServiceTypeCorrect` | `Spec => []TypeOK` |
| `OneMigratorHolds` | `Spec => [](LockHeld /\ OneMigrator)` |
| `MigrationsInOrder` | `Spec => [](InOrder /\ NothingMissing)` |
| `AppliedOnceHolds` | `Spec => []AppliedOnce` |
| `ServesMigratedHolds` | `Spec => []ServesMigrated` |

The lock belongs to a session and not to the process, so `LockHeld` says that an instance that
migrates over a session still alive holds the lock; one whose session is gone fails at its next statement.
With it the list an instance has read stays what the database has while it migrates: `InOrder` says
that the table names the versions from 1 to the length of the schema and the schema has the files in
that order, and `NothingMissing` that what an instance has still to do is what is lacking, and
that past `Run` nothing of its image is.

`GenerationProofs` proves for any orders, accounts, workers, limit of slots and number of
submissions, from `NumbersAssumption`, `AbsentAssumption` and `RolesAssumption` (the
limits are numbers; the null values are no orders or accounts; workers, tickers and admins
differ):

| Theorem | Under | Statement |
| --- | --- | --- |
| `TypeCorrect` | | `Spec => []TypeOK` |
| `AccountIsNamed` | | `Spec => []ProcessingHasAccount` |
| `OneGenerationAtATime` | `HeartbeatHolds`, one ticker, one admin | `Spec => []OneGeneration` |
| `DeliveredOnceOnly` | `HeartbeatHolds`, one ticker, no admin | `Spec => []DeliveredOnce` |
| `SlotsAccounted` | `HeartbeatHolds`, one ticker, no admin | `Spec => []SlotsAccountedFor` |

The hypotheses are those of the runs, and TLC finds each of the last three properties violated
when one of them is dropped (two tickers, `HeartbeatHolds = FALSE`, one admin more than the
theorem allows). They are what a deployment must see to, not what the code enforces.

Since a row is overwritten whole, what can be said of it is what can be said of every copy of it.
`Typed` therefore types the copies: a goroutine that will write a copy in processing has the
account that copy names. `Hands` says whose a task is: a busy worker has an active generation
task or a poll still in the queue, and no other worker has the same one; jobs in the queue
have been submitted. `Alone` is about one order: it has one poll or one worker on its generation task
and not both, one that is queued has no poll and no goroutine that would write over it, and who
recovers or regenerates it, or could since it is quiet, finds nothing under way. That is where a second ticker
or admin, or a polled order that gets quiet, breaks it. `Served` adds, while no admin interferes, that a
goroutine's copy *is* the row, and that an order was delivered exactly if it is completed. `Books` is the
count: the slots of an account are the orders in processing on it, the workers between the capture
of a slot and the save of it, and the lost ones; `AllGive` says that whoever will give a slot back has seen one
taken. The steps are sorted by what they do to an order and its tasks (`WorkerStep`, `OfficeStep`, `TakesTask`
and so on) once, and `Hands`, `Alone` and `Served` are shown for those kinds of step.

`DemoProofs` proves for any orders, workers, admins, slots and jobs, from `DemoNumbers`,
`DemoAbsent` and `DemoRoles`:

| Theorem | Under | Statement |
| --- | --- | --- |
| `TypeCorrect` | | `Spec => []TypeOK` |
| `OneJobAtATime` | one ticker, `PollsInTime` | `Spec => []OneDemoJob` |
| `VersionsDelivered` | one ticker, `PollsInTime` | `Spec => []FullDelivery` |
| `HeardDemoDelivered` | one ticker, `PollsInTime` | `Spec => []HeardIsDelivered` |
| `SlotsAccounted` | one ticker, `PollsInTime` | `Spec => []SlotsAccountedFor` |

Any number of admins may delete demos meanwhile. Each of the last four is violated with two
tickers and with `PollsInTime = FALSE`. `Hands` and `Alone` are as above, the latter for orders whose
demo no admin has deleted in the middle (`cleared`): a worker about to store the start has read a demo that
is not in work and still is not; a demo that is polled is in processing and has one poll; one in the hands of
the ticker has nobody else. `Kept` is what the song relies on: the clips a demo names are in S3 and were
there before it named them, and the number of versions asked of Suno leaves room for exactly the clips the
submission has seen, which stay the demo's. `Given` says that who is about to write an outcome has given the
slot back already, and `Books` counts: slots are those of songs and demos in work, of workers about to store
a start, and the leaked ones, until a slot is given back twice (`stolen`).

`CatalogProofs` proves for any pods, requests, categories, questions, genres and forms, from
`CatalogStamps` and `CatalogThings` (stamps and things are told apart), with no further hypothesis:

| Theorem | Statement |
| --- | --- |
| `TypeCorrect` | `Spec => []TypeOK` |
| `NothingIsLeftBehind` | `Spec => []NothingDangles` |
| `EditsStand` | `Spec => []EditStands` |

`NothingDangles` needs the types to say that a request in the middle of a form names what it edits, and that
a question that is there has a category (`Placed`): an option or a link inserted late meets the foreign key of
a row that is gone. `EditStands` is about things edited without overlap (`clean`). Its invariant follows the
statements: `Overlaps` says that who edits a thing alone is the only one in it, and that what several edit is not
clean; `QuestionOn` says which options are there after the row was saved, the old ones cleared and some
inserted; `GenresOn` that the links of a clean category come from one list, and that a transaction that is
alone with it has seen all it has to delete.

`SongProofs` proves for any quizzes, templates, answers, genres, numbers of clips and tasks, from
`SongQuizzes` and `SongGenres` (templates and genres are what they are said to be) and `SongNumbers`:

| Theorem | Statement |
| --- | --- |
| `TextsAndJobs` | `Spec => []IInv`, the invariant below |
| `AnswersReachSunoHolds` | `Spec => []AnswersReachSuno` |
| `OwnWordsAreSungHolds` | `Spec => []OwnWordsAreSung` |
| `TwoTextsHolds` | `Spec => []TwoTexts` |

The argument follows a text on its way. Decoding gives back what was encoded, though empty sections are not
written (`DecodeEncode`). So the stored text of a quiz, of the constructor or of a plain brief says what the
form says: its tags, its words, its facts, whether it is silent (`Stored`; `WrittenIsStored`, form by form).
Each of the two texts made of it says as much in its own version, or carries the customer's words (`BriefsSay`),
and `ResolveMusicInput` turns a text that does into a request that does (`ResolveSays`), alone or in the jobs
of a demo and of a song with or without a demo before it (`DemoJobs`, `SongJobs`). The first two properties then
only need `Asked`: nothing is at Suno before the form is stored, and all that is there was made this way.
`TwoTexts` needs more: what the demo has made stays its own and of the first version (`DemoHeld`), a submission
that lost no job asks for the versions that are missing (`SongAsked`), and the tracks are the clips of its tasks
after those of the demo it counted on, though the demo may become ready in the meantime (`SongDelivered`).

Only model-checked: all liveness properties, `EditsShowUp` among them (ENABLED and fairness are out of the
prover's reach).

## 5. Known divergences

Where the code does not do what a comment or a document of the repository says. The models
behave like the code; the properties above hold with these behaviours in them, or name the
exception.

| The promise | What happens |
| --- | --- |
| demo and song cost exactly the price (`order.go:376-377`) | Both invoices are open at once: the full-price payment is applied first and leaves the demo payable. |
| a credited demo always leaves something to pay (`order_usecase.go:288-290`, `README.md:304-306`) | A code applied after the demo lowers the price to it; the order can then be neither paid nor activated, unless the price is 0 and the free activation takes it. |
| the use of a code is rolled back with the discount (`order_usecase.go:371-372`) | `IncrementUses` runs on the pool, not on the transaction (`promo_code_repository.go:161`), and stays. |
| a paid demo whose task was not enqueued is picked up by the ticker (`order_usecase.go:517`) | `RecoverStuckDemos` looks for demos in processing only; this one has no status yet. |
| a refund stops an undelivered generation (`admin_usecase.go:206-208`) | A poll holds a copy from before the refund and writes it back, completed and paid. |
| a refund may be repeated safely after a network failure (`admin_usecase.go:209-210`) | Not when the failure hits `createRefund`: if Robokassa created the refund and the answer was lost (a broken connection, the 30 seconds of the client, an unreadable body), there is no request id to remember and the next click, on the same pod as well, creates a second refund (`robokassa.go:302-305`). |
| a second call does not create a second refund (`robokassa.go:97-101`) | The map is looked up and written under two locks with two calls between them (`robokassa.go:294-305`): two overlapping clicks on one pod both find it empty and both create a refund; the second request id replaces the first. |
| Refund is idempotent for an invoice (`admin_usecase.go:209`) | On another pod, or after a restart, the map is empty (`robokassa.go:102-106` accepts the restart). When the save after a finished refund is what failed, the map is emptied already and a click on the same pod creates another; so it does when the owner's late save of a share link makes the order paid again. |
| one trial request in half-open state (`breaker.go:9`) | `Do` refuses nothing in that state (`breaker.go:61-72`): every call until the first one ends goes through. `Admits` models this; `ClosedBelowThreshold` is about the closed state only. |
| a banned account stays banned until the admin acts (`account.go:299-301`) | Another worker writes the status it read before the ban. |
| a living order never looks stuck (`order_usecase.go:1168-1172`) | Polls that fail leave no heartbeat; the ticker starts a second generation. With `HeartbeatHolds = FALSE` `OneGeneration` fails. |
| recovery is idempotent and starts no second generation (`order_usecase.go:1168-1171`, `1190`) | With two tickers, which `APP_MODE=all` beside a worker has (`docker-compose.yml:121`, `147-148`), the later one writes its stale copy over the recovered order: a second generation, and a slot given back twice. With `Crons = {c1, c2}`, `MaxJobs = 2` and one order `OneGeneration` fails. |
| a repeated submit with the same key makes no second order (`useCreateOrder.ts:25-26`) | The key is deleted when the answer is an error, also one that came after the commit; it expires after five minutes; Redis fails open. `excuse` records these. |
| the lock of the migrations is released when Run ends (`migrate.go:65-66`) | `conn.Release` gives the connection back to the pool with its session and its advisory lock; other instances wait until the pool closes it. |
| an edited category shows at once (`prompt_usecase.go:76-78`) | Only on the pod of the admin, and a load under way there may store the old list after the invalidation; elsewhere up to an hour later. `EditsShowUp` holds by the expiry of the hour, not by the invalidation. |
| an edited question has exactly its new options (`category_repository.go:231`) | Not if two edits of it overlap, or one fails between its statements: the options of both stay, or of neither. `clean` excepts them, so that `EditStands` says only that edits one after another, beside edits of other things, are whole. |
| clips of a demo already delivered are not deleted (`admin_usecase.go:338-340`) | The status is read before the files are deleted: a song that completes in between has lost its first tracks. `cleared` records it. |
| filled answers remain (`prompt_usecase_test.go:132-133`) | A sentence with two keys of which one was skipped goes with the answer to the other (`prompt.go:145-165`); `Told` leaves such answers out. |
| the description stays beside a phrase of the customer's (`prompt_test.go:190-191`) | `sunoInspirationBriefs` sends the phrase as the words to sing with an empty description (`order_usecase.go:1788-1799`), so the texts of the paid song know only the phrase and `AnswersReachSuno` excepts orders with words of their own. |

Others that nothing promises against: a song whose poll could not be enqueued is still made by Suno while the
order is queued for another (`order_usecase.go:756-760` prefers this), so `OneGeneration` counts polls and
submitters; when one of the two tasks of a song is refused the customer gets the clips of one
text only, and twice as many of that text if the demo became ready in the meantime (`adapter.go:33-34` accepts
fewer versions, and `TwoTexts` excepts them); two clicks on the regeneration of one failed order,
both past the check of its status, start two generations; a plain brief that is itself a text with `[Verse]` marks is
sung, in the second version, with the instruction for that version in it; a demo of which Suno made one clip becomes one
track; an answer about the voice that merely contains the word "instrumental" makes the song
one; the late save of `RefundOrder` restores a share link its owner has revoked meanwhile, and
the other way round; the category of an order is read twice, once for its prompt.

## 6. What is not modelled

* `DeleteOrder`: the row disappears under whoever works on it. Every later save finds no
  row, and the slot is given back twice or never, depending on who was first.
* Token balance and the length of a cooldown: an account is available, full or banned, and
  `PoolBusy` is possible at any time, which covers them. CRUD of accounts.
* Codes worth a percentage, their dates, and the forms of the admin for them: a code is
  worth a sum and is either applicable or not.
* A refund inside `Payments`: a refunded order leaves that module.
* An enqueue that reaches Redis while its reply is lost: a second task with the same id,
  which the queue refuses, or a second poll.
* The limit of 200 orders per pass of the reconciliation; the test-autopay switch of
  non-production configurations; the length limits of texts; the language model, which the
  code has switched off.
* The breakers around Suno, S3 and the language model: the same `Breaker` around other clients.
* HTTP middleware, admin sessions, access recovery: filters of single requests. Reviews,
  examples, statistics: rows written alone by one administrator. Storage, notifications,
  encryption, logging, metrics, SEO, the frontend: input, output and rendering. No property
  beyond the statement itself was found for them.

## 7. Plan

`DeleteOrder` beside `Generation` and `Demo`: which slots and tasks survive a row that is gone.
