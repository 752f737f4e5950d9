-------------------------------- MODULE Demo --------------------------------
(***************************************************************************)
(* The demo of an order: the fragment a client hears before paying for the *)
(* song.  Its task shares the slots of the Suno account with the paid lane,*)
(* its clips become the first two versions of the song, a ticker cleans up *)
(* what a dead pod left, and the admin may delete it at any time.          *)
(*                                                                         *)
(* Every goroutine reads the order, works on the copy and writes the demo  *)
(* columns alone (OrderRepository.UpdateDemo, no condition); the slot is   *)
(* given back by a write of its own, before the order is saved.            *)
(*                                                                         *)
(* The pool is one account.  The generation of the song is told in four    *)
(* steps: it is the subject of Generation.                                 *)
(***************************************************************************)
EXTENDS Integers, FiniteSets

CONSTANTS
  Orders,
  Workers,      \* goroutines of the Asynq server
  Crons,        \* recovery tickers, one in each pod that runs a worker
  Admins,       \* goroutines of the admin API
  MaxSlots,     \* max_concurrent_tasks of the account
  MaxJobs,      \* bound: demo jobs submitted to Suno for an order
  PollsInTime,  \* TRUE: a demo is polled to its end within stuckDemoThreshold
  NoOrder

ASSUME DemoNumbers == MaxSlots \in Nat /\ MaxJobs \in Nat
ASSUME DemoAbsent == NoOrder \notin Orders

\* A goroutine is started to be one of these.
ASSUME DemoRoles ==
  Workers \cap Crons = {} /\ Workers \cap Admins = {} /\ Crons \cap Admins = {}

VARIABLES
  demo,       \* orders.demo_status, demo_account_id is set, demo_clips
  invoice,    \* orders.demo_payment_status, "none" without a demo invoice
  song,       \* the paid lane of the order, as far as the demo meets it
  quiet,      \* orders whose updated_at is older than stuckDemoThreshold
  slots,      \* suno_accounts.concurrent_tasks
  task,       \* the Asynq task "demo:<order>"
  checks,     \* the Asynq tasks polling a demo job: <<order, job>>
  submitted,  \* demo jobs created at Suno for an order
  stored,     \* batches of full demo clips in S3: <<order, batch>>
  calling,    \* orders whose CreateOrder has yet to call TriggerDemo
  proc,       \* the goroutines
  leaked,     \* history: slots taken that nobody will give back
  ghosts,     \* history: demos in processing whose slot was given back already
  stolen,     \* history: a slot was given back that was no longer the demo's
  cleared     \* history: orders whose demo the admin has deleted

queue == <<task, checks>>
history == <<leaked, ghosts, stolen, cleared>>
vars == <<demo, invoice, song, quiet, slots, queue, submitted, stored, calling, proc, history>>

Procs == Workers \cup Crons \cup Admins

DefaultTrackCount == 4
clipsPerDemoTask == 2

\* The demo columns; clips is the batch of uploads they name, 0 for none.
NoDemo == [status |-> "none", held |-> FALSE, clips |-> 0]

\* A goroutine: its order, its copy of the demo columns, the Suno job it polls, the
\* slot it has captured and not stored yet, and where it goes after giving one back.
Idle == [pc |-> "idle", order |-> NoOrder, copy |-> NoDemo, job |-> 0,
         holds |-> FALSE, then |-> "finish"]

\* The song: where it is, the tracks asked of Suno, the clips its last poll has read
\* and those it asked with, the versions delivered and the demo clips among them.
NewSong == [state |-> "pending", asked |-> 0, seen |-> 0, heard |-> 0,
            fresh |-> 0, reused |-> 0]

Init ==
  /\ demo = [o \in Orders |-> NoDemo]
  /\ invoice \in [Orders -> {"none", "pending"}]
  /\ song = [o \in Orders |-> NewSong]
  /\ quiet = {}
  /\ slots = 0
  /\ task = [o \in Orders |-> "none"]
  /\ checks = {}
  /\ submitted = [o \in Orders |-> 0]
  /\ stored = {}
  /\ calling = {o \in Orders : invoice[o] = "none"}
  /\ proc = [p \in Procs |-> Idle]
  /\ leaked = 0 /\ ghosts = {} /\ stolen = FALSE /\ cleared = {}

At(p, pc) == proc[p].pc = pc
Become(p, g) == proc' = [proc EXCEPT ![p] = g]
Goto(p, pc) == Become(p, [proc[p] EXCEPT !.pc = pc])
Return(p) == Become(p, Idle)
Enter(p, o, pc) ==
  /\ At(p, "idle")
  /\ Become(p, [Idle EXCEPT !.pc = pc, !.order = o, !.copy = demo[o]])

MarkPaid(o) == song' = [song EXCEPT ![o].state = "paid"]
MarkDemoPaid(o) == invoice' = [invoice EXCEPT ![o] = "paid"]
Running(d) == d.status = "processing"
Settled(d) == d.status \in {"processing", "ready"}

-----------------------------------------------------------------------------
(* The transitions of the demo lane (domain/order.go), on a copy.          *)

StartDemo(d) == [d EXCEPT !.status = "processing", !.held = TRUE]
CompleteDemo(d, clips) == [status |-> "ready", held |-> FALSE, clips |-> clips]
FailDemoInWork(d) == [d EXCEPT !.held = FALSE]
FailDemo(d) == [d EXCEPT !.status = "failed", !.held = FALSE]
MarkDemoLimited(d) ==
  IF Settled(d) THEN d ELSE [d EXCEPT !.status = "limited", !.held = FALSE]
ClearDemo(d) == NoDemo

\* OrderRepository.UpdateDemo: the demo columns, and updated_at.
UpdateDemo(o, d) ==
  /\ demo' = [demo EXCEPT ![o] = d]
  /\ quiet' = quiet \ {o}
  /\ ghosts' = IF Running(d) THEN ghosts ELSE ghosts \ {o}

\* A demo in processing whose slot is still taken.
Holds(o) == Running(demo[o]) /\ demo[o].held /\ o \notin ghosts

\* GREATEST(concurrent_tasks - k, 0)
Less(n, k) == IF n >= k THEN n - k ELSE 0

\* The history of leaks counts up to a bound, which no leak passes before a slot
\* is stolen.
Leak(n) == IF n <= MaxSlots THEN n + 1 ELSE n

-----------------------------------------------------------------------------
(* Tasks.  A demo task is unique by its id; an id in use means success.     *)

\* EnqueueDemoTask.
EnqueueDemoTask(o) == task' = [task EXCEPT ![o] = IF @ = "none" THEN "pending" ELSE @]

Check(p) == <<proc[p].order, proc[p].job>>
Polling(p) == proc[p].job > 0 /\ Check(p) \in checks
Taken(t) == \E p \in Workers : Check(p) = t

FinishTask(p) ==
  IF Polling(p) THEN checks' = checks \ {Check(p)} /\ UNCHANGED task
  ELSE IF p \in Workers THEN task' = [task EXCEPT ![proc[p].order] = "none"] /\ UNCHANGED checks
  ELSE UNCHANGED queue

\* One more retry, or the archive: HandleDeadTask only logs a dead demo task.
TaskFails(p) ==
  IF Polling(p)
    THEN checks' \in {checks, checks \ {Check(p)}} /\ UNCHANGED task
    ELSE /\ \E s \in {"retry", "archived"} : task' = [task EXCEPT ![proc[p].order] = s]
         /\ UNCHANGED checks

-----------------------------------------------------------------------------
(* What starts a demo.                                                     *)

\* TriggerDemo, once, from CreateOrder, for an order without a demo invoice.  The
\* limit per IP fails open; a task that is not enqueued is only logged.
TriggerDemo(o) ==
  /\ o \in calling
  /\ calling' = calling \ {o}
  /\ \/ EnqueueDemoTask(o) /\ UNCHANGED <<demo, quiet, ghosts>>
     \/ UpdateDemo(o, MarkDemoLimited(demo[o])) /\ UNCHANGED task
     \/ UNCHANGED <<task, demo, quiet, ghosts>>
  /\ UNCHANGED <<invoice, song, slots, checks, submitted, stored, proc, leaked, stolen, cleared>>

\* HandleDemoPaymentSuccess by the winner of the conditional UPDATE; a task that is
\* not enqueued is only logged.
PayDemo(o) ==
  /\ invoice[o] = "pending"
  /\ MarkDemoPaid(o)
  /\ EnqueueDemoTask(o) \/ UNCHANGED task
  /\ UNCHANGED <<demo, song, quiet, slots, checks, submitted, stored, calling, proc, history>>

-----------------------------------------------------------------------------
(* The paid lane of the same order, in four steps.                         *)

SongOnly == UNCHANGED <<demo, invoice, queue, submitted, stored, calling, proc, history>>

PaySong(o) ==
  /\ song[o].state = "pending"
  /\ MarkPaid(o)
  /\ quiet' = quiet \ {o} /\ UNCHANGED slots /\ SongOnly

AskedAll(o) == DefaultTrackCount

\* ProcessGenerationTask asks only for the versions the demo does not cover.
Asked(o) == IF demo[o].clips # 0 THEN DefaultTrackCount - clipsPerDemoTask
                                 ELSE DefaultTrackCount

SubmitSong(o) ==
  /\ song[o].state = "paid" /\ slots < MaxSlots
  /\ slots' = slots + 1
  /\ song' = [song EXCEPT ![o].state = "submitted", ![o].asked = Asked(o),
                          ![o].heard = demo[o].clips]
  /\ quiet' = quiet \ {o} /\ SongOnly

\* CheckGenerationStatus reads the order, then takes its time over the uploads; a
\* poll that was cut short begins anew.
PollSong(o) ==
  /\ song[o].state \in {"submitted", "uploading"}
  /\ song' = [song EXCEPT ![o].state = "uploading", ![o].seen = demo[o].clips]
  /\ quiet' = quiet \ {o} /\ UNCHANGED slots /\ SongOnly

ReuseAlways(o, got) == song[o].seen # 0

\* The clips are reused if, with the new tracks, they fit the four versions.
ReuseDemo(o, got) ==
  song[o].seen # 0 /\ got <= DefaultTrackCount - clipsPerDemoTask

\* Suno may deliver one of two jobs of a full song; the account is released with it.
CompleteSong(o) ==
  /\ song[o].state = "uploading"
  /\ \E got \in {song[o].asked, DefaultTrackCount \div 2} :
       song' = [song EXCEPT ![o].state = "completed", ![o].fresh = got,
                            ![o].reused = IF ReuseDemo(o, got) THEN song[o].seen ELSE 0]
  /\ slots' = Less(slots, 1)
  /\ quiet' = quiet \ {o} /\ SongOnly

FailSong(o) ==
  /\ song[o].state = "uploading"
  /\ song' = [song EXCEPT ![o].state = "failed"]
  /\ slots' = Less(slots, 1)
  /\ quiet' = quiet \ {o} /\ SongOnly

-----------------------------------------------------------------------------
(* GenerateDemo.                                                           *)

Spared == UNCHANGED <<invoice, song, calling>>

TakeDemoAny(p, o) ==
  /\ p \in Workers
  /\ task[o] \in {"pending", "retry"}
  /\ Enter(p, o, "lock") /\ task' = [task EXCEPT ![o] = "active"]
  /\ Spared /\ UNCHANGED <<demo, quiet, slots, checks, submitted, stored, history>>

\* Nothing to do for a paid order, an unpaid demo, one in processing or ready.
TakeDemo(p, o) ==
  /\ p \in Workers
  /\ task[o] \in {"pending", "retry"}
  /\ IF song[o].state = "pending" /\ invoice[o] # "pending" /\ ~Settled(demo[o])
       THEN Enter(p, o, "lock") /\ task' = [task EXCEPT ![o] = "active"]
       ELSE At(p, "idle") /\ task' = [task EXCEPT ![o] = "none"] /\ UNCHANGED proc
  /\ Spared /\ UNCHANGED <<demo, quiet, slots, checks, submitted, stored, history>>

\* FetchAndLockAvailable.
LockAccount(p) ==
  /\ At(p, "lock") /\ slots < MaxSlots
  /\ slots' = slots + 1
  /\ Become(p, [proc[p] EXCEPT !.pc = "limits", !.holds = TRUE])
  /\ Spared /\ UNCHANGED <<demo, quiet, queue, submitted, stored, history>>

\* No account is free, or it cannot be locked: the demo gives way and is retried.
PoolBusy(p) ==
  /\ At(p, "lock")
  /\ TaskFails(p) /\ Return(p)
  /\ Spared /\ UNCHANGED <<demo, quiet, slots, submitted, stored, history>>

\* Goes to give back a slot, and then to pc.
Release(p, pc) == Become(p, [proc[p] EXCEPT !.pc = "release", !.then = pc])

\* The reserve of tokens, and demolimit.Reserve: granted; refused; or not to be
\* told, when the demo is dropped without a word.
Limits(p) ==
  /\ At(p, "limits")
  /\ Goto(p, "start") \/ Release(p, "limited") \/ Release(p, "finish")
  /\ Spared /\ UNCHANGED <<demo, quiet, slots, queue, submitted, stored, history>>

\* StartDemo and its save; the slot is now the order's.
SaveStart(p) ==
  /\ At(p, "start")
  /\ UpdateDemo(proc[p].order, StartDemo(proc[p].copy))
  /\ Become(p, [proc[p] EXCEPT !.pc = "submit", !.holds = FALSE, !.copy = StartDemo(@)])
  /\ Spared /\ UNCHANGED <<slots, queue, submitted, stored, leaked, stolen, cleared>>

SaveStartFails(p) ==
  /\ At(p, "start")
  /\ Release(p, "error")
  /\ Spared /\ UNCHANGED <<demo, quiet, slots, queue, submitted, stored, history>>

Submit(p) ==
  LET o == proc[p].order IN
  /\ At(p, "submit")
  /\ submitted[o] < MaxJobs
  /\ submitted' = [submitted EXCEPT ![o] = @ + 1]
  /\ Become(p, [proc[p] EXCEPT !.pc = "enqueue", !.job = submitted[o] + 1])
  /\ Spared /\ UNCHANGED <<demo, quiet, slots, queue, stored, history>>

SubmitFailsHolding(p) ==
  /\ proc[p].pc \in {"submit", "enqueue"}
  /\ Goto(p, "markFailed")
  /\ Spared /\ UNCHANGED <<demo, quiet, slots, queue, submitted, stored, history>>

\* Suno refuses, or the poll cannot be enqueued: slot, status, and one more retry.
SubmitFails(p) ==
  /\ proc[p].pc \in {"submit", "enqueue"}
  /\ Release(p, "markFailed")
  /\ Spared /\ UNCHANGED <<demo, quiet, slots, queue, submitted, stored, history>>

\* EnqueueDemoCheckTask; the demo task is done a moment later.
EnqueueCheck(p) ==
  /\ At(p, "enqueue")
  /\ checks' = checks \cup {Check(p)}
  /\ Become(p, [proc[p] EXCEPT !.pc = "finish", !.job = 0])
  /\ Spared /\ UNCHANGED <<demo, quiet, slots, task, submitted, stored, history>>

-----------------------------------------------------------------------------
(* Giving a slot back, and the saves that follow it.                       *)

\* releaseDemoSlot and releaseDemoAccount: a write of its own, and one that fails
\* is only logged.
GiveBack(p) ==
  LET o == proc[p].order
      owed == proc[p].holds \/ Holds(o) IN
  /\ At(p, "release")
  /\ \/ /\ slots' = Less(slots, 1)
        /\ stolen' = (stolen \/ (~owed /\ slots > 0))
        /\ UNCHANGED leaked
     \/ /\ leaked' = IF owed THEN Leak(leaked) ELSE leaked
        /\ UNCHANGED <<slots, stolen>>
  /\ ghosts' = IF ~proc[p].holds /\ Running(demo[o]) THEN ghosts \cup {o} ELSE ghosts
  /\ Become(p, [proc[p] EXCEPT !.pc = proc[p].then, !.holds = FALSE, !.then = "finish"])
  /\ Spared /\ UNCHANGED <<demo, quiet, queue, submitted, stored, cleared>>

\* A save whose failure is only logged.
TrySave(p, d) == UpdateDemo(proc[p].order, d) \/ UNCHANGED <<demo, quiet, ghosts>>

MarkLimited(p) ==
  /\ At(p, "limited")
  /\ TrySave(p, MarkDemoLimited(proc[p].copy))
  /\ FinishTask(p) /\ Return(p)
  /\ Spared /\ UNCHANGED <<slots, submitted, stored, leaked, stolen, cleared>>

\* markDemoFailed in GenerateDemo, which then returns the error.
MarkFailed(p) ==
  /\ At(p, "markFailed")
  /\ TrySave(p, FailDemo(proc[p].copy))
  /\ TaskFails(p) /\ Return(p)
  /\ Spared /\ UNCHANGED <<slots, submitted, stored, leaked, stolen, cleared>>

\* markDemoFailed in CheckDemoStatus and RecoverStuckDemos, which then return nil.
SaveFailed(p) ==
  /\ At(p, "saveFailed")
  /\ TrySave(p, FailDemo(proc[p].copy))
  /\ FinishTask(p) /\ Return(p)
  /\ Spared /\ UNCHANGED <<slots, submitted, stored, leaked, stolen, cleared>>

Finish(p) ==
  /\ At(p, "finish")
  /\ FinishTask(p) /\ Return(p)
  /\ Spared /\ UNCHANGED <<demo, quiet, slots, submitted, stored, history>>

Error(p) ==
  /\ At(p, "error")
  /\ TaskFails(p) /\ Return(p)
  /\ Spared /\ UNCHANGED <<demo, quiet, slots, submitted, stored, history>>

-----------------------------------------------------------------------------
(* CheckDemoStatus.                                                        *)

\* A demo no longer in processing ends its polls.
TakeCheck(p, t) ==
  /\ p \in Workers /\ At(p, "idle")
  /\ ~Taken(t)
  /\ IF Running(demo[t[1]])
       THEN /\ Become(p, [Idle EXCEPT !.pc = "fetch", !.order = t[1],
                                      !.copy = demo[t[1]], !.job = t[2]])
            /\ UNCHANGED checks
       ELSE checks' = checks \ {t} /\ UNCHANGED proc
  /\ Spared /\ UNCHANGED <<demo, quiet, slots, task, submitted, stored, history>>

\* Not ready, or Suno does not answer.
FetchLater(p) ==
  /\ At(p, "fetch")
  /\ Goto(p, "error")
  /\ Spared /\ UNCHANGED <<demo, quiet, slots, queue, submitted, stored, history>>

FetchTerminal(p) ==
  /\ At(p, "fetch")
  /\ Goto(p, "clips") \/ Release(p, "saveFailed")
  /\ Spared /\ UNCHANGED <<demo, quiet, slots, queue, submitted, stored, history>>

\* uploadDemoFullClips; a batch is named by its job.
UploadClips(p) ==
  /\ At(p, "clips")
  /\ stored' = stored \cup {Check(p)}
  /\ Goto(p, "preview")
  /\ Spared /\ UNCHANGED <<demo, quiet, slots, queue, submitted, history>>

\* uploadDemoClip, the fragment cut out or the whole clip.
UploadPreview(p) ==
  /\ At(p, "preview")
  /\ Release(p, "saveReady")
  /\ Spared /\ UNCHANGED <<demo, quiet, slots, queue, submitted, stored, history>>

UploadFails(p) ==
  /\ proc[p].pc \in {"clips", "preview"}
  /\ Goto(p, "error")
  /\ Spared /\ UNCHANGED <<demo, quiet, slots, queue, submitted, stored, history>>

\* CompleteDemo and its save.
SaveReady(p) ==
  /\ At(p, "saveReady")
  /\ UpdateDemo(proc[p].order, CompleteDemo(proc[p].copy, proc[p].job))
  /\ FinishTask(p) /\ Return(p)
  /\ Spared /\ UNCHANGED <<slots, submitted, stored, leaked, stolen, cleared>>

\* The slot is back, the demo is not saved, and the retry starts over.
SaveReadyFails(p) ==
  /\ At(p, "saveReady")
  /\ Goto(p, "error")
  /\ Spared /\ UNCHANGED <<demo, quiet, slots, queue, submitted, stored, history>>

-----------------------------------------------------------------------------
(* The recovery ticker, the admin, the pod that dies.                      *)

\* Twelve minutes pass without an UPDATE of an order that no goroutine has.
GoQuiet(o) ==
  /\ Running(demo[o]) /\ o \notin quiet
  /\ task[o] # "active" /\ \A p \in Procs : proc[p].order # o
  /\ PollsInTime => \A t \in checks : t[1] # o
  /\ quiet' = quiet \cup {o}
  /\ UNCHANGED <<demo, invoice, song, slots, queue, submitted, stored, calling, proc, history>>

ListStuckDemo == {o \in quiet : Running(demo[o])}

\* RecoverStuckDemos on an order of the list, which has its account.
StartRecover(p, o) ==
  /\ p \in Crons
  /\ o \in ListStuckDemo
  /\ At(p, "idle")
  /\ Become(p, [Idle EXCEPT !.pc = "release", !.then = "saveFailed", !.order = o, !.copy = demo[o]])
  /\ Spared /\ UNCHANGED <<demo, quiet, slots, queue, submitted, stored, history>>

\* DeleteOrderDemo reads the order: not completed, and something to delete.
StartDelete(p, o) ==
  /\ p \in Admins
  /\ song[o].state # "completed"
  /\ demo[o].status # "none" \/ demo[o].clips # 0
  /\ Enter(p, o, "delete")
  /\ Spared /\ UNCHANGED <<demo, quiet, slots, queue, submitted, stored, history>>

\* The files go first; an error of S3 leaves the order alone.
DeleteFiles(p) ==
  LET o == proc[p].order IN
  /\ At(p, "delete")
  /\ stored' = stored \ {<<o, proc[p].copy.clips>>}
  /\ cleared' = cleared \cup {o}
  /\ Goto(p, "clear") \/ Return(p)
  /\ Spared /\ UNCHANGED <<demo, quiet, slots, queue, submitted, leaked, ghosts, stolen>>

\* ClearDemo and its save.  The slot of a demo in processing is forgotten.
ClearSaved(p) ==
  LET o == proc[p].order IN
  /\ At(p, "clear")
  /\ UpdateDemo(o, ClearDemo(proc[p].copy))
  /\ Return(p)
  /\ Spared /\ UNCHANGED <<slots, queue, submitted, stored, leaked, stolen, cleared>>

\* The pod dies, or a write of the admin fails.  Asynq gives an active task to
\* another worker.  Where the handler's own failure comes to the same, that is it.
Crash(p) ==
  /\ proc[p].pc \notin {"idle", "lock", "error", "markFailed"}
  /\ p \in Crons => ~At(p, "saveFailed")
  /\ leaked' = IF proc[p].holds THEN Leak(leaked) ELSE leaked
  /\ task' = IF p \in Workers /\ ~Polling(p) THEN [task EXCEPT ![proc[p].order] = "retry"]
                                             ELSE task
  /\ Return(p)
  /\ Spared /\ UNCHANGED <<demo, quiet, slots, checks, submitted, stored, ghosts, stolen, cleared>>

-----------------------------------------------------------------------------
Client(o) == TriggerDemo(o) \/ PayDemo(o) \/ PaySong(o)
Song(o) == SubmitSong(o) \/ PollSong(o) \/ CompleteSong(o) \/ FailSong(o)

HandleDemoGenerateTask(p) ==
  \/ LockAccount(p) \/ PoolBusy(p) \/ Limits(p) \/ SaveStart(p) \/ SaveStartFails(p)
  \/ Submit(p) \/ SubmitFails(p) \/ EnqueueCheck(p) \/ MarkLimited(p) \/ MarkFailed(p)

HandleDemoCheckTask(p) ==
  \/ FetchLater(p) \/ FetchTerminal(p) \/ UploadClips(p) \/ UploadPreview(p) \/ UploadFails(p)
  \/ SaveReady(p) \/ SaveReadyFails(p)

Close(p) == GiveBack(p) \/ SaveFailed(p) \/ Finish(p) \/ Error(p)
DeleteOrderDemo(p) == DeleteFiles(p) \/ ClearSaved(p)

Begin(p) ==
  \/ \E o \in Orders : TakeDemo(p, o) \/ StartRecover(p, o) \/ StartDelete(p, o)
  \/ \E t \in checks : TakeCheck(p, t)

Next ==
  \/ \E o \in Orders : Client(o) \/ Song(o) \/ GoQuiet(o)
  \/ \E p \in Procs :
       \/ Begin(p) \/ HandleDemoGenerateTask(p) \/ HandleDemoCheckTask(p)
       \/ Close(p) \/ DeleteOrderDemo(p) \/ Crash(p)

Spec == Init /\ [][Next]_vars

\* The worker server and the ticker keep going, pods die only so often, a retried
\* task uses its retries up, and the database some day records what it is given.
\* Clients, Suno and the admin owe nothing.
OnOrder(o, P, A(_)) == \E p \in P : proc[p].order = o /\ A(p)
Recorded(p) == SaveFailed(p) /\ demo' # demo
Failing(p) == PoolBusy(p) \/ Error(p) \/ MarkFailed(p)
LastRetry(p) == Failing(p) /\ task' # task /\ task'[proc[p].order] = "archived"
LastCheck(p) == Failing(p) /\ checks' # checks

Fairness ==
  /\ <>[][\A p \in Workers \cup Crons : ~Crash(p)]_vars
  /\ \A p \in Procs : WF_vars(\/ HandleDemoGenerateTask(p) \/ HandleDemoCheckTask(p)
                             \/ Close(p) \/ DeleteOrderDemo(p))
  /\ \A o \in Orders :
       /\ WF_vars(\E p \in Workers : TakeDemo(p, o))
       /\ WF_vars(\E p \in Workers, t \in checks : t[1] = o /\ TakeCheck(p, t))
       /\ SF_vars(OnOrder(o, Workers, LastRetry)) /\ SF_vars(OnOrder(o, Workers, LastCheck))
       /\ SF_vars(GoQuiet(o))
       /\ SF_vars(\E p \in Crons : StartRecover(p, o))
       /\ SF_vars(OnOrder(o, Crons, Recorded))

FairSpec == Spec /\ Fairness

-----------------------------------------------------------------------------
PCs == {"idle", "lock", "limits", "limited", "start", "submit", "enqueue", "markFailed",
        "release", "finish", "error", "fetch", "clips", "preview", "saveReady",
        "saveFailed", "delete", "clear"}
DemoRow == [status : {"none", "processing", "ready", "failed", "limited"},
            held : BOOLEAN, clips : Nat]
Goroutine == [pc : PCs, order : Orders \cup {NoOrder}, copy : DemoRow, job : Nat,
              holds : BOOLEAN, then : PCs]
SongRow == [state : {"pending", "paid", "submitted", "uploading", "completed", "failed"},
            asked : Nat, seen : Nat, heard : Nat, fresh : Nat, reused : Nat]

\* Every variable stays in its domain, and a busy goroutine has its order.
TypeOK ==
  /\ demo \in [Orders -> DemoRow]
  /\ invoice \in [Orders -> {"none", "pending", "paid"}]
  /\ song \in [Orders -> SongRow]
  /\ quiet \subseteq Orders
  /\ slots \in Nat
  /\ task \in [Orders -> {"none", "pending", "active", "retry", "archived"}]
  /\ checks \subseteq Orders \X Nat
  /\ submitted \in [Orders -> Nat]
  /\ stored \subseteq Orders \X Nat
  /\ calling \subseteq Orders
  /\ proc \in [Procs -> Goroutine]
  /\ \A p \in Procs : proc[p].pc # "idle" => proc[p].order \in Orders
  /\ leaked \in Nat /\ ghosts \subseteq Orders /\ stolen \in BOOLEAN /\ cleared \subseteq Orders

\* The slots of the account are those of the songs and demos in work, of a worker
\* about to store one, and of those a crash or a failed write forgets: none is free
\* twice and, while the admin deletes no demo in work, none is lost in silence.  Until
\* a demo whose save has failed gives its slot back again, and takes somebody else's.
Singing == {o \in Orders : song[o].state \in {"submitted", "uploading"}}
SlotsAccountedFor == ~stolen =>
  LET used == Cardinality(Singing) + Cardinality({o \in Orders : Holds(o)})
              + Cardinality({p \in Procs : proc[p].holds}) IN
  /\ slots >= used
  /\ cleared = {} => slots = used + leaked

\* One demo job of an order is polled at a time, whatever retries, crashes and late
\* answers, unless the admin deletes the demo in the middle of it: a second would
\* spend credits of Suno twice and give the slot back twice.
Generating(o) == {p \in Workers : proc[p].order = o /\ proc[p].pc \in {"submit", "enqueue"}}
OneDemoJob == \A o \in Orders \ cleared :
  Cardinality({t \in checks : t[1] = o}) + Cardinality(Generating(o)) <= 1

\* A song has its four versions, unless Suno delivered one job of two and there is
\* no demo to complete it with: what the demo lane does between the submission and
\* the last poll neither takes a version away nor adds a fifth.
Versions(o) == song[o].fresh + IF song[o].reused # 0 THEN clipsPerDemoTask ELSE 0
FullDelivery == \A o \in Orders :
  song[o].state = "completed" /\ o \notin cleared =>
    \/ Versions(o) = DefaultTrackCount
    \/ song[o].asked = DefaultTrackCount /\ song[o].fresh < DefaultTrackCount /\ song[o].reused = 0

\* A client who has heard the demo before paying for the song gets exactly that
\* demo as the first versions, and its files are there, unless the admin deleted it.
HeardIsDelivered == \A o \in Orders :
  song[o].state = "completed" /\ song[o].heard # 0 /\ o \notin cleared =>
    song[o].reused = song[o].heard /\ <<o, song[o].heard>> \in stored

\* A demo does not stay in processing, nor keep a slot from paid songs, for ever.
DemoEnds == \A o \in Orders : Running(demo[o]) ~> ~Running(demo[o])
=============================================================================
