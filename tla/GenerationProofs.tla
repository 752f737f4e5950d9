-------------------------- MODULE GenerationProofs --------------------------
(* The generation of songs for any orders, accounts, workers, slots and jobs.  *)
EXTENDS Generation, TLAPS, FiniteSetTheorems

-----------------------------------------------------------------------------
(* What every goroutine knows of itself.                                   *)

Starting == {"start", "brief", "submit", "saveJob", "poll", "rollback"}
Polled == {"fetch", "upload", "complete", "fail", "stale"}
Recovering == {"recover", "recoverSave"}

PCs == WorkerPCs \cup OfficePCs
TickerPCs == {"idle", "requeue"} \cup Recovering
AdminPCs == OfficePCs \ Recovering

\* A goroutine that will write a copy in processing has its account, and one that
\* gives a slot back gives it to the account of its copy.
GoroutineOK(g) ==
  /\ g.pc # "idle" => g.order \in Orders
  /\ g.pc \in Starting =>
       Running(g.copy) /\ g.copy.assigned = g.account /\ g.account \in Accounts
  /\ g.pc \in Polled \cup Recovering => Running(g.copy) /\ g.copy.assigned \in Accounts
  /\ g.pc \in {"upload", "complete", "fail", "recoverSave", "giveBack"} =>
       g.account = g.copy.assigned
  /\ g.pc \in {"releaseSlot", "giveBack"} => g.copy.assigned \in Accounts
  /\ (g.pc = "refund" /\ Running(g.copy)) => g.copy.assigned \in Accounts
  /\ g.pc = "bury" => g.copy.generation = "failed"
  /\ g.pc \in {"saveJob", "poll"} \cup Polled => g.job > 0

OwnPCs(p) ==
  CASE p \in Workers -> WorkerPCs
    [] p \in Crons -> TickerPCs
    [] OTHER -> AdminPCs

ProcsOK ==
  /\ proc \in [Procs -> Goroutine]
  /\ \A p \in Procs : GoroutineOK(proc[p]) /\ proc[p].pc \in OwnPCs(p)

RowsOK == row \in [Orders -> Row] /\ quiet \subseteq Orders /\ ProcessingHasAccount
PoolOK == slots \in [Accounts -> Nat] /\ status \in [Accounts -> {"active", "banned"}]
TaskStates == {"none", "pending", "active", "retry", "archived"}
QueueOK ==
  /\ genTask \in [Orders -> TaskStates] /\ polls \subseteq Orders \X (Nat \ {0})
  /\ submitted \in [Orders -> Nat]
HistoryOK ==
  /\ leaked \in [Accounts -> Nat] /\ delivered \in [Orders -> Nat]
  /\ expired \subseteq Accounts /\ repaid \subseteq Orders

Typed == ProcsOK /\ RowsOK /\ PoolOK /\ QueueOK /\ HistoryOK

-----------------------------------------------------------------------------
(* What a step does to its goroutine.                                      *)

Only(p) ==
  /\ proc' \in [Procs -> Goroutine]
  /\ \A q \in Procs \ {p} : proc'[q] = proc[q]

SameButPC(p) ==
  /\ proc'[p].order = proc[p].order /\ proc'[p].copy = proc[p].copy
  /\ proc'[p].account = proc[p].account /\ proc'[p].seen = proc[p].seen
  /\ proc'[p].back = proc[p].back /\ proc'[p].job = proc[p].job

\* Only the goroutine of the step moves.
LEMMA BecomeMoves ==
  ASSUME proc \in [Procs -> Goroutine], NEW p \in Procs, NEW g \in Goroutine, Become(p, g)
  PROVE  Only(p) /\ proc'[p] = g
  BY DEF Become, Only

\* A jump changes the program counter and nothing else.
LEMMA GotoMoves ==
  ASSUME proc \in [Procs -> Goroutine], NEW p \in Procs, NEW c \in PCs, Goto(p, c)
  PROVE  Only(p) /\ proc'[p].pc = c /\ SameButPC(p)
  <1> DEFINE g == [proc[p] EXCEPT !.pc = c]
  <1>1. proc[p] \in Goroutine  OBVIOUS
  <1>2. g \in Goroutine  BY <1>1 DEF Goroutine, PCs
  <1>3. /\ g.pc = c /\ g.order = proc[p].order /\ g.copy = proc[p].copy
        /\ g.account = proc[p].account /\ g.seen = proc[p].seen
        /\ g.back = proc[p].back /\ g.job = proc[p].job
    BY <1>1 DEF Goroutine
  <1>4. Become(p, g)  BY DEF Goto
  <1> HIDE DEF g
  <1>5. Only(p) /\ proc'[p] = g  BY <1>2, <1>4, BecomeMoves
  <1> QED  BY <1>3, <1>5 DEF SameButPC

\* The goroutine of a finished handler is idle.
LEMMA IdleIs ==
  /\ Idle \in Goroutine /\ Idle.pc = "idle" /\ Idle.order = NoOrder /\ Idle.copy = Fresh
  /\ Idle.account = NoAccount /\ Idle.seen = "active" /\ Idle.back = 0 /\ Idle.job = 0
  BY DEF Idle, Goroutine, Fresh, Row, WorkerPCs

\* A handler that returns leaves its goroutine idle.
LEMMA ReturnMoves ==
  ASSUME proc \in [Procs -> Goroutine], NEW p \in Procs, Return(p)
  PROVE  /\ Only(p) /\ proc'[p] = Idle
         /\ proc'[p].pc = "idle" /\ proc'[p].order = NoOrder /\ proc'[p].job = 0
  BY IdleIs, BecomeMoves DEF Return

\* A handler starts with a copy of the row it has read.
LEMMA EnterMoves ==
  ASSUME ProcsOK, RowsOK, NEW p \in Procs, NEW o \in Orders, NEW c \in PCs, Enter(p, o, c)
  PROVE  /\ Only(p) /\ proc[p].pc = "idle"
         /\ proc'[p].pc = c /\ proc'[p].order = o /\ proc'[p].copy = row[o]
         /\ proc'[p].account = NoAccount /\ proc'[p].seen = "active"
         /\ proc'[p].back = 0 /\ proc'[p].job = 0
  <1> DEFINE g == [Idle EXCEPT !.pc = c, !.order = o, !.copy = row[o]]
  <1>1. row[o] \in Row  BY DEF RowsOK
  <1>2. g \in Goroutine  BY <1>1, IdleIs DEF Goroutine, PCs
  <1>3. /\ g.pc = c /\ g.order = o /\ g.copy = row[o] /\ g.account = NoAccount
        /\ g.seen = "active" /\ g.back = 0 /\ g.job = 0
    BY <1>1, IdleIs DEF Goroutine
  <1>4. Become(p, g) /\ proc[p].pc = "idle"  BY DEF Enter, At
  <1> HIDE DEF g
  <1>5. Only(p) /\ proc'[p] = g  BY <1>2, <1>4, BecomeMoves DEF ProcsOK
  <1> QED  BY <1>3, <1>4, <1>5

\* A poll starts with a copy of the row and its job.
LEMMA EnterPollMoves ==
  ASSUME ProcsOK, RowsOK, QueueOK, NEW p \in Procs, NEW t \in polls, TakePoll(p, t),
         Running(row[t[1]])
  PROVE  /\ Only(p) /\ proc[p].pc = "idle" /\ proc'[p].pc = "fetch" /\ proc'[p].order = t[1]
         /\ proc'[p].copy = row[t[1]] /\ proc'[p].back = 0 /\ proc'[p].job = t[2]
         /\ polls' = polls
  <1> DEFINE o == t[1]
             j == t[2]
             g == [Idle EXCEPT !.pc = "fetch", !.order = o, !.copy = row[o], !.job = j]
  <1>1. o \in Orders /\ j \in Nat /\ row[o] \in Row  BY DEF RowsOK, QueueOK
  <1>2. Become(p, g) /\ proc[p].pc = "idle" /\ polls' = polls  BY DEF TakePoll, At
  <1> HIDE DEF o, j
  <1>3. g \in Goroutine  BY <1>1, IdleIs DEF Goroutine, WorkerPCs
  <1>4. g.pc = "fetch" /\ g.order = o /\ g.copy = row[o] /\ g.back = 0 /\ g.job = j
    BY <1>1, IdleIs DEF Goroutine
  <1> HIDE DEF g
  <1>5. Only(p) /\ proc'[p] = g  BY <1>2, <1>3, BecomeMoves DEF ProcsOK
  <1> QED  BY <1>2, <1>4, <1>5 DEF o, j

\* An account is loaded with its status and the slot it has to give back.
LEMMA LoadedIs ==
  ASSUME ProcsOK, PoolOK, NEW p \in Procs, NEW c \in PCs, NEW a \in Accounts
  PROVE  /\ Loaded(p, c, a) \in Goroutine
         /\ Loaded(p, c, a).pc = c /\ Loaded(p, c, a).order = proc[p].order
         /\ Loaded(p, c, a).copy = proc[p].copy /\ Loaded(p, c, a).job = proc[p].job
         /\ Loaded(p, c, a).account = a /\ Loaded(p, c, a).seen = status[a]
         /\ Loaded(p, c, a).back = SlotToRelease(a)
  <1>1. proc[p] \in Goroutine /\ status[a] \in {"active", "banned"} /\ SlotToRelease(a) \in {0, 1}
    BY DEF ProcsOK, PoolOK, SlotToRelease
  <1> QED  BY <1>1 DEF Loaded, Goroutine, PCs

\* A goroutine that loads an account keeps its order, its copy and its job.
LEMMA LoadedMoves ==
  ASSUME ProcsOK, PoolOK, NEW p \in Procs, NEW c \in PCs, NEW a \in Accounts,
         Become(p, Loaded(p, c, a))
  PROVE  /\ Only(p) /\ proc'[p].pc = c /\ proc'[p].order = proc[p].order
         /\ proc'[p].copy = proc[p].copy /\ proc'[p].job = proc[p].job
         /\ proc'[p].account = a /\ proc'[p].seen = status[a]
         /\ proc'[p].back = SlotToRelease(a)
  BY LoadedIs, BecomeMoves DEF ProcsOK

\* The account that was locked is named by the copy, which is in processing now.
LEMMA LockMoves ==
  ASSUME ProcsOK, NEW p \in Procs, NEW a \in Accounts, LockAccount(p, a)
  PROVE  /\ Only(p) /\ proc'[p].pc = "start" /\ proc'[p].order = proc[p].order
         /\ proc'[p].copy \in Row /\ Running(proc'[p].copy) /\ proc'[p].copy.assigned = a
         /\ proc'[p].account = a /\ proc'[p].back = 1 /\ proc'[p].job = proc[p].job
  <1> DEFINE c == [proc[p].copy EXCEPT !.generation = "processing", !.assigned = a]
             g == [proc[p] EXCEPT !.pc = "start", !.account = a, !.back = 1, !.copy = c]
  <1>1. proc[p] \in Goroutine  BY DEF ProcsOK
  <1>2. c \in Row /\ c.generation = "processing" /\ c.assigned = a
    BY <1>1 DEF Goroutine, Row
  <1>3. Become(p, g)  BY DEF LockAccount, StartProcessing
  <1> HIDE DEF c
  <1>4. g \in Goroutine  BY <1>1, <1>2 DEF Goroutine, WorkerPCs
  <1>5. /\ g.pc = "start" /\ g.order = proc[p].order /\ g.copy = c
        /\ g.account = a /\ g.back = 1 /\ g.job = proc[p].job
    BY <1>1, <1>2 DEF Goroutine
  <1> HIDE DEF g
  <1>6. Only(p) /\ proc'[p] = g  BY <1>3, <1>4, BecomeMoves DEF ProcsOK
  <1> QED  BY <1>2, <1>5, <1>6 DEF Running

\* A submitted job is known by the next number of its order.
LEMMA SubmitMoves ==
  ASSUME ProcsOK, QueueOK, NEW p \in Procs, Submit(p), proc[p].order \in Orders
  PROVE  /\ Only(p) /\ proc'[p].pc = "saveJob" /\ proc'[p].order = proc[p].order
         /\ proc'[p].copy = proc[p].copy /\ proc'[p].account = proc[p].account
         /\ proc'[p].back = proc[p].back /\ proc'[p].job = submitted[proc[p].order] + 1
  <1> DEFINE j == submitted[proc[p].order] + 1
             g == [proc[p] EXCEPT !.pc = "saveJob", !.job = j]
  <1>1. proc[p] \in Goroutine /\ j \in Nat  BY DEF ProcsOK, QueueOK
  <1>2. Become(p, g)  BY DEF Submit
  <1> HIDE DEF j
  <1>3. g \in Goroutine  BY <1>1 DEF Goroutine, WorkerPCs
  <1>4. /\ g.pc = "saveJob" /\ g.order = proc[p].order /\ g.copy = proc[p].copy
        /\ g.account = proc[p].account /\ g.back = proc[p].back /\ g.job = j
    BY <1>1 DEF Goroutine
  <1> HIDE DEF g
  <1>5. Only(p) /\ proc'[p] = g  BY <1>2, <1>3, BecomeMoves DEF ProcsOK
  <1> QED  BY <1>4, <1>5 DEF j

\* An expired session changes the status the worker will write.
LEMMA SubmitExpiredMoves ==
  ASSUME ProcsOK, NEW p \in Procs, SubmitExpired(p)
  PROVE  /\ Only(p) /\ proc'[p].pc = "rollback" /\ proc'[p].order = proc[p].order
         /\ proc'[p].copy = proc[p].copy /\ proc'[p].account = proc[p].account
         /\ proc'[p].back = proc[p].back /\ proc'[p].job = proc[p].job
  <1> DEFINE h == [proc[p] EXCEPT !.pc = "rollback"]
             g == [h EXCEPT !.seen = "banned"]
  <1>1. proc[p] \in Goroutine  BY DEF ProcsOK
  <1>2. h \in Goroutine  BY <1>1 DEF Goroutine, WorkerPCs
  <1>3. /\ h.pc = "rollback" /\ h.order = proc[p].order /\ h.copy = proc[p].copy
        /\ h.account = proc[p].account /\ h.back = proc[p].back /\ h.job = proc[p].job
    BY <1>1 DEF Goroutine
  <1>4. Become(p, g)  BY DEF SubmitExpired, BanForInvalidSession
  <1> HIDE DEF h
  <1>5. g \in Goroutine  BY <1>2 DEF Goroutine
  <1>6. /\ g.pc = h.pc /\ g.order = h.order /\ g.copy = h.copy
        /\ g.account = h.account /\ g.back = h.back /\ g.job = h.job
    BY <1>2 DEF Goroutine
  <1> HIDE DEF g
  <1>7. Only(p) /\ proc'[p] = g  BY <1>4, <1>5, BecomeMoves DEF ProcsOK
  <1> QED  BY <1>3, <1>6, <1>7

\* What the methods of Order leave in a copy.
LEMMA CopiesAre ==
  ASSUME NEW c \in Row
  PROVE  /\ Completed(c) \in Row /\ Completed(c).generation = "completed"
         /\ Completed(c).payment = c.payment /\ Completed(c).assigned = c.assigned
         /\ Requeued(c) \in Row /\ Requeued(c).generation = "queued"
         /\ Requeued(c).payment = c.payment /\ Requeued(c).assigned = NoAccount
         /\ Failed(c) \in Row /\ Failed(c).generation = "failed"
         /\ Failed(c).payment = c.payment /\ Failed(c).assigned = c.assigned
         /\ MarkRefunded(c) \in Row /\ MarkRefunded(c).generation = c.generation
         /\ MarkRefunded(c).payment = "refunded" /\ MarkRefunded(c).assigned = c.assigned
  BY DEF Completed, Requeued, Failed, MarkRefunded, Row

\* A refunded copy is in no state that a worker would take up.
LEMMA RefundedCopyIs ==
  ASSUME NEW c \in Row
  PROVE  LET r == CancelGenerationForRefund(MarkRefunded(c)) IN
         /\ r \in Row /\ r.payment = "refunded" /\ r.generation \in {"completed", "failed"}
  <1> DEFINE m == MarkRefunded(c)
             f == Failed(m)
             n == [f EXCEPT !.assigned = NoAccount]
  <1>1. m \in Row /\ m.payment = "refunded" /\ m.generation = c.generation  BY CopiesAre
  <1> HIDE DEF m
  <1>2. f \in Row /\ f.payment = "refunded" /\ f.generation = "failed"  BY <1>1, CopiesAre
  <1> HIDE DEF f
  <1>3. n \in Row /\ n.payment = "refunded" /\ n.generation = "failed"  BY <1>2 DEF Row
  <1> HIDE DEF n
  <1>4. CancelGenerationForRefund(m)
          = IF m.generation \in {"queued", "processing"} THEN n ELSE m
    BY DEF CancelGenerationForRefund, f, n
  <1>5. m.generation \in {"queued", "processing", "completed", "failed"}  BY <1>1 DEF Row
  <1> QED  BY <1>1, <1>3, <1>4, <1>5 DEF m

\* FailGeneration: the copy is the row as it is now, failed; an account is loaded.
LEMMA FailMoves ==
  ASSUME ProcsOK, RowsOK, PoolOK, NEW p \in Procs, proc[p].order \in Orders, FailGeneration(p),
         row[proc[p].order].generation \notin {"completed", "failed"}
  PROVE  LET o == proc[p].order  a == row[o].assigned IN
         /\ Only(p) /\ proc'[p].pc = "bury" /\ proc'[p].order = o
         /\ proc'[p].copy = Failed(row[o]) /\ proc'[p].account = a /\ proc'[p].job = proc[p].job
         /\ a # NoAccount => proc'[p].back = SlotToRelease(a)
         /\ UNCHANGED queue
  <1> DEFINE o == proc[p].order
             a == row[o].assigned
             h == IF a = NoAccount THEN proc[p] ELSE Loaded(p, "bury", a)
             f == Failed(row[o])
             g == [h EXCEPT !.pc = "bury", !.copy = f, !.account = a]
  <1>1. proc[p] \in Goroutine /\ row[o] \in Row  BY DEF ProcsOK, RowsOK
  <1>2. f \in Row /\ a \in Accounts \cup {NoAccount}  BY <1>1, CopiesAre DEF Row
  <1>3. "bury" \in PCs  BY DEF PCs, WorkerPCs
  <1>4. h \in Goroutine /\ h.order = o /\ h.job = proc[p].job
        /\ (a # NoAccount => h.back = SlotToRelease(a))
    <2>1. CASE a = NoAccount  BY <2>1, <1>1
    <2>2. CASE a # NoAccount
      <3>1. a \in Accounts  BY <2>2, <1>2
      <3> HIDE DEF a, o
      <3>2. /\ Loaded(p, "bury", a) \in Goroutine
            /\ Loaded(p, "bury", a).order = proc[p].order
            /\ Loaded(p, "bury", a).job = proc[p].job
            /\ Loaded(p, "bury", a).back = SlotToRelease(a)
        BY <3>1, <1>3, LoadedIs
      <3> QED  BY <2>2, <3>2 DEF o
    <2> QED  BY <2>1, <2>2
  <1>5. Become(p, g) /\ UNCHANGED queue  BY DEF FailGeneration
  <1> HIDE DEF h, f, a, o
  <1>6. g \in Goroutine  BY <1>2, <1>4 DEF Goroutine, WorkerPCs
  <1>7. /\ g.pc = "bury" /\ g.order = h.order /\ g.copy = f /\ g.account = a
        /\ g.job = h.job /\ g.back = h.back
    BY <1>2, <1>4 DEF Goroutine
  <1> HIDE DEF g
  <1>8. Only(p) /\ proc'[p] = g  BY <1>5, <1>6, BecomeMoves DEF ProcsOK
  <1> QED  BY <1>4, <1>5, <1>7, <1>8 DEF o, a, f

-----------------------------------------------------------------------------
(* What a step does to rows, accounts and tasks.                           *)

\* The row becomes the copy and no other row changes.
LEMMA SaveOrderIs ==
  ASSUME RowsOK, NEW o \in Orders, NEW c \in Row, Running(c) => c.assigned \in Accounts,
         SaveOrder(o, c)
  PROVE  /\ RowsOK' /\ row'[o] = c /\ quiet' = quiet \ {o}
         /\ \A q \in Orders \ {o} : row'[q] = row[q]
  <1>1. row' \in [Orders -> Row] /\ row'[o] = c /\ \A q \in Orders \ {o} : row'[q] = row[q]
    BY DEF RowsOK, SaveOrder
  <1>2. quiet' = quiet \ {o}  BY DEF SaveOrder
  <1> QED  BY <1>1, <1>2 DEF RowsOK, ProcessingHasAccount

\* The slots of one account go down, never below zero.
LEMMA SaveAccountIs ==
  ASSUME PoolOK, NEW a \in Accounts, NEW s \in {"active", "banned"}, NEW k \in {0, 1},
         SaveAccount(a, s, k)
  PROVE  /\ PoolOK' /\ slots'[a] = Less(slots[a], k)
         /\ \A b \in Accounts \ {a} : slots'[b] = slots[b]
  BY DEF PoolOK, SaveAccount, Less

\* Both are saved, or the order alone when there is no account.
LEMMA SaveBothIs ==
  ASSUME RowsOK, PoolOK, NEW o \in Orders, NEW c \in Row, Running(c) => c.assigned \in Accounts,
         NEW a \in Accounts \cup {NoAccount}, NEW s \in {"active", "banned"}, NEW k \in {0, 1},
         SaveBoth(o, c, a, s, k)
  PROVE  /\ RowsOK' /\ PoolOK' /\ row'[o] = c /\ quiet' = quiet \ {o}
         /\ \A q \in Orders \ {o} : row'[q] = row[q]
         /\ a = NoAccount => slots' = slots
         /\ a \in Accounts => slots'[a] = Less(slots[a], k)
         /\ \A b \in Accounts \ {a} : slots'[b] = slots[b]
  <1>1. SaveOrder(o, c)  BY DEF SaveBoth
  <1>2. /\ RowsOK' /\ row'[o] = c /\ quiet' = quiet \ {o}
        /\ \A q \in Orders \ {o} : row'[q] = row[q]
    BY <1>1, SaveOrderIs
  <1>3. CASE a = NoAccount
    BY <1>2, <1>3, AbsentAssumption DEF SaveBoth, pool, PoolOK
  <1>4. CASE a \in Accounts
    <2>1. SaveAccount(a, s, k)  BY <1>4, AbsentAssumption DEF SaveBoth
    <2> QED  BY <2>1, <1>2, <1>4, SaveAccountIs, AbsentAssumption
  <1> QED  BY <1>3, <1>4

\* The tasks of a finished, retried or archived handler keep their types.
LEMMA TaskOps ==
  ASSUME QueueOK, NEW p \in Procs, FinishTask(p) \/ ArchiveTask(p) \/ RetryTask(p)
  PROVE  /\ genTask' \in [Orders -> TaskStates] /\ polls' \subseteq polls
         /\ \A t \in polls : t # Poll(p) => t \in polls'
         /\ Polling(p) => genTask' = genTask
         /\ ~Polling(p) => /\ polls' = polls
                           /\ proc[p].order \in Orders => genTask'[proc[p].order] # "active"
                           /\ \A o \in Orders : o # proc[p].order => genTask'[o] = genTask[o]
  BY DEF QueueOK, FinishTask, ArchiveTask, RetryTask, queue, TaskStates


-----------------------------------------------------------------------------
(* Types.                                                                  *)

\* What is left alone keeps its type.
LEMMA Unmoved ==
  /\ RowsOK /\ UNCHANGED <<row, quiet>> => RowsOK'
  /\ PoolOK /\ UNCHANGED pool => PoolOK'
  /\ QueueOK /\ UNCHANGED <<queue, submitted>> => QueueOK'
  /\ HistoryOK /\ UNCHANGED history => HistoryOK'
  /\ ProcsOK /\ UNCHANGED proc => ProcsOK'
  BY DEF RowsOK, ProcessingHasAccount, PoolOK, pool, QueueOK, queue, HistoryOK, history, ProcsOK

\* It is enough to look at the goroutine that moves.
LEMMA MoverOK ==
  ASSUME ProcsOK, NEW p \in Procs, Only(p), GoroutineOK(proc'[p]), proc'[p].pc \in OwnPCs(p)
  PROVE  ProcsOK'
  BY DEF ProcsOK, Only

\* The pcs tell who is at work.
LEMMA WhoWorks ==
  ASSUME ProcsOK, NEW p \in Procs
  PROVE  /\ proc[p].pc \in WorkerPCs \ {"idle"} => p \in Workers
         /\ proc[p].pc \in Recovering => p \in Crons
         /\ proc[p].pc \in {"refund", "releaseSlot", "giveBack", "regenerate"} => p \in Admins
         /\ p \in Workers => OwnPCs(p) = WorkerPCs
         /\ p \in Crons => OwnPCs(p) = TickerPCs
         /\ p \in Admins => OwnPCs(p) = AdminPCs
         /\ "idle" \in OwnPCs(p) /\ GoroutineOK(Idle)
  <1>1. /\ p \in Workers => OwnPCs(p) = WorkerPCs
        /\ p \in Crons => OwnPCs(p) = TickerPCs
        /\ p \in Admins => OwnPCs(p) = AdminPCs
        /\ p \in Workers \/ p \in Crons \/ p \in Admins
    BY RolesAssumption DEF OwnPCs, Procs
  <1>2. proc[p].pc \in OwnPCs(p)  BY DEF ProcsOK
  <1> QED
    BY <1>1, <1>2, IdleIs
       DEF WorkerPCs, TickerPCs, AdminPCs, OfficePCs, Recovering, GoroutineOK, Starting, Polled

\* A handler that returns leaves good goroutines.
LEMMA ReturnOK ==
  ASSUME ProcsOK, NEW p \in Procs, Return(p)
  PROVE  ProcsOK' /\ Only(p) /\ proc'[p] = Idle /\ proc'[p].pc = "idle"
  <1>1. Only(p) /\ proc'[p] = Idle /\ proc'[p].pc = "idle"  BY ReturnMoves DEF ProcsOK
  <1> QED  BY <1>1, WhoWorks, MoverOK

\* So does a worker that jumps to where it knows enough.
LEMMA GotoOK ==
  ASSUME ProcsOK, NEW p \in Workers, NEW c \in WorkerPCs, Goto(p, c), proc[p].pc # "idle",
         \/ c = "dead"
         \/ proc[p].pc \in Starting /\ c \in Starting \ {"saveJob", "poll"}
         \/ proc[p].pc = "saveJob" /\ c = "poll"
         \/ proc[p].pc = "fetch" /\ c = "stale"
         \/ proc[p].pc = "upload" /\ c = "complete"
  PROVE  ProcsOK' /\ Only(p) /\ proc'[p].pc = c /\ SameButPC(p)
  <1>1. p \in Procs /\ c \in PCs  BY DEF Procs, PCs
  <1>2. Only(p) /\ proc'[p].pc = c /\ SameButPC(p)
    BY <1>1, GotoMoves DEF ProcsOK
  <1>3. GoroutineOK(proc[p])  BY <1>1 DEF ProcsOK
  <1>4. GoroutineOK(proc'[p])
    BY <1>2, <1>3 DEF GoroutineOK, SameButPC, Starting, Polled, Recovering
  <1> QED  BY <1>1, <1>2, <1>4, WhoWorks, MoverOK

\* A handler that fails is retried or dead.
LEMMA TaskFailsOK ==
  ASSUME ProcsOK, QueueOK, NEW p \in Workers, TaskFails(p), proc[p].pc # "idle"
  PROVE  /\ ProcsOK' /\ Only(p)
         /\ \/ proc'[p] = Idle /\ proc'[p].pc = "idle" /\ RetryTask(p)
            \/ proc'[p].pc = "dead" /\ SameButPC(p) /\ UNCHANGED queue
         /\ genTask' \in [Orders -> TaskStates] /\ polls' \subseteq polls
  <1>1. p \in Procs /\ "dead" \in WorkerPCs  BY DEF Procs, WorkerPCs
  <1>2. CASE RetryTask(p) /\ Return(p)  BY <1>1, <1>2, ReturnOK, TaskOps
  <1>3. CASE Goto(p, "dead") /\ UNCHANGED queue
    BY <1>1, <1>3, GotoOK DEF queue, QueueOK
  <1> QED  BY <1>2, <1>3 DEF TaskFails

\* Leaks and deliveries are counts.
LEMMA HistoriesCount ==
  ASSUME HistoryOK
  PROVE  /\ \A a \in Accounts : Leak(a) => leaked' \in [Accounts -> Nat]
         /\ \A p \in Procs : Deliver(p) => delivered' \in [Orders -> Nat]
  BY NumbersAssumption DEF HistoryOK, Leak, Deliver, Bump

\* The worker that saves an order knows what it saves.
LEMMA KnownBy ==
  ASSUME ProcsOK, NEW p \in Procs, proc[p].pc # "idle"
  PROVE  /\ proc[p].order \in Orders /\ proc[p].copy \in Row /\ proc[p].job \in Nat
         /\ proc[p].account \in Accounts \cup {NoAccount}
         /\ proc[p].seen \in {"active", "banned"} /\ proc[p].back \in {0, 1}
         /\ proc[p].pc \in Starting => /\ Running(proc[p].copy) /\ proc[p].account \in Accounts
                                       /\ proc[p].copy.assigned = proc[p].account
         /\ proc[p].pc \in Polled \cup Recovering =>
              Running(proc[p].copy) /\ proc[p].copy.assigned \in Accounts
         /\ proc[p].pc \in {"upload", "complete", "fail", "recoverSave", "giveBack"} =>
              proc[p].account = proc[p].copy.assigned
         /\ proc[p].pc \in {"releaseSlot", "giveBack"} => proc[p].copy.assigned \in Accounts
         /\ (proc[p].pc = "refund" /\ Running(proc[p].copy)) => proc[p].copy.assigned \in Accounts
         /\ proc[p].pc = "bury" => proc[p].copy.generation = "failed"
         /\ proc[p].pc \in {"saveJob", "poll"} \cup Polled => proc[p].job > 0
  <1>1. proc[p] \in Goroutine /\ GoroutineOK(proc[p])  BY DEF ProcsOK
  <1>2. proc[p].copy \in Row  BY <1>1 DEF Goroutine
  <1> QED  BY <1>1, <1>2 DEF Goroutine, GoroutineOK

\* A heartbeat writes a copy in processing, or fails.
LEMMA HeartbeatIs ==
  ASSUME ProcsOK, RowsOK, NEW p \in Procs, proc[p].pc # "idle", Heartbeat(p),
         Running(proc[p].copy), proc[p].copy.assigned \in Accounts
  PROVE  /\ RowsOK'
         /\ \A q \in Orders \ {proc[p].order} : row'[q] = row[q]
         /\ \/ row'[proc[p].order] = proc[p].copy /\ quiet' = quiet \ {proc[p].order}
            \/ UNCHANGED <<row, quiet>>
  <1>1. proc[p].order \in Orders /\ proc[p].copy \in Row  BY KnownBy
  <1>2. CASE SaveOrder(proc[p].order, proc[p].copy)  BY <1>1, <1>2, SaveOrderIs
  <1>3. CASE UNCHANGED <<row, quiet>>  BY <1>3, Unmoved
  <1> QED  BY <1>2, <1>3 DEF Heartbeat

\* The generation task keeps the types.
LEMMA GenerateTyped ==
  ASSUME Typed, NEW p \in Procs, HandleGenerateTask(p)
  PROVE  Typed'
  <1> USE DEF Typed
  <1>1. ASSUME proc[p].pc \in Starting \cup {"lock"}
        PROVE  p \in Workers /\ proc[p].pc # "idle"
    BY <1>1, WhoWorks DEF Starting, WorkerPCs
  <1>2. ASSUME NEW a \in Accounts, LockAccount(p, a)  PROVE Typed'
    <2>1. proc[p].pc = "lock" /\ p \in Workers  BY <1>1, <1>2 DEF LockAccount, At
    <2>2. GoroutineOK(proc'[p]) /\ proc'[p].pc \in OwnPCs(p) /\ Only(p)
      BY <1>2, <2>1, KnownBy, LockMoves, WhoWorks
         DEF GoroutineOK, Starting, Polled, Recovering, WorkerPCs
    <2>3. ProcsOK'  BY <2>2, MoverOK
    <2>4. PoolOK' /\ UNCHANGED <<row, quiet>> /\ UNCHANGED <<queue, submitted>> /\ UNCHANGED history
      BY <1>2 DEF LockAccount, AcquireSlot, PoolOK
    <2> QED  BY <2>3, <2>4, Unmoved
  <1>3. ASSUME PoolBusy(p)  PROVE Typed'
    <2>1. p \in Workers /\ Return(p) /\ (RetryTask(p) \/ ArchiveTask(p))
          /\ UNCHANGED <<row, quiet, pool, submitted, history>>
      BY <1>1, <1>3 DEF PoolBusy, At
    <2>2. ProcsOK'  BY <2>1, ReturnOK
    <2>3. QueueOK'  BY <2>1, TaskOps DEF QueueOK
    <2> QED  BY <2>1, <2>2, <2>3, Unmoved
  <1>4. ASSUME SaveStart(p) \/ SaveJob(p)  PROVE Typed'
    <2>1. /\ proc[p].pc \in {"start", "saveJob"}
          /\ SaveBoth(proc[p].order, proc[p].copy, proc[p].account, proc[p].seen, 0)
          /\ proc[p].pc = "start" => Goto(p, "brief")
          /\ proc[p].pc = "saveJob" => Goto(p, "poll")
          /\ UNCHANGED <<queue, submitted, history>>
      BY <1>4 DEF SaveStart, SaveJob, At
    <2>2. p \in Workers /\ proc[p].pc # "idle" /\ proc[p].pc \in Starting
      BY <1>1, <2>1 DEF Starting
    <2>3. ProcsOK'
      <3>1. CASE proc[p].pc = "start"
        BY <3>1, <2>1, <2>2, GotoOK DEF Starting, WorkerPCs
      <3>2. CASE proc[p].pc = "saveJob"
        BY <3>2, <2>1, <2>2, GotoOK DEF Starting, WorkerPCs
      <3> QED  BY <2>1, <3>1, <3>2
    <2>4. RowsOK' /\ PoolOK'  BY <2>1, <2>2, KnownBy, SaveBothIs
    <2> QED  BY <2>1, <2>3, <2>4, Unmoved
  <1>5. ASSUME SaveStartFails(p) \/ SaveJobFails(p) \/ RollbackFails(p)  PROVE Typed'
    <2>1. /\ proc[p].pc \in {"start", "saveJob", "rollback"} /\ TaskFails(p)
          /\ UNCHANGED <<row, quiet>> /\ UNCHANGED pool /\ UNCHANGED submitted
          /\ UNCHANGED <<delivered, expired, repaid>>
          /\ Leak(proc[p].account) \/ UNCHANGED leaked
      BY <1>5 DEF SaveStartFails, SaveJobFails, RollbackFails, At, history
    <2>2. p \in Workers /\ proc[p].pc # "idle" /\ proc[p].account \in Accounts
      BY <1>1, <2>1, KnownBy DEF Starting
    <2>3. ProcsOK' /\ QueueOK'
      BY <2>1, <2>2, TaskFailsOK DEF QueueOK
    <2>4. HistoryOK'  BY <2>1, <2>2, HistoriesCount DEF HistoryOK
    <2> QED  BY <2>1, <2>3, <2>4, Unmoved
  <1>6. ASSUME BriefEmpty(p) \/ SubmitFails(p) \/ EnqueuePollFails(p)  PROVE Typed'
    <2>1. /\ proc[p].pc \in {"brief", "submit", "poll"} /\ Goto(p, "rollback")
          /\ UNCHANGED <<row, quiet>> /\ UNCHANGED pool /\ UNCHANGED <<queue, submitted>>
          /\ UNCHANGED history
      BY <1>6 DEF BriefEmpty, SubmitFails, EnqueuePollFails, At
    <2>2. ProcsOK'  BY <1>1, <2>1, GotoOK DEF Starting, WorkerPCs
    <2> QED  BY <2>1, <2>2, Unmoved
  <1>7. ASSUME SaveProgress(p)  PROVE Typed'
    <2>1. /\ proc[p].pc = "brief" /\ Heartbeat(p) /\ Goto(p, "submit")
          /\ UNCHANGED pool /\ UNCHANGED <<queue, submitted>> /\ UNCHANGED history
      BY <1>7 DEF SaveProgress, At
    <2>2. ProcsOK'  BY <1>1, <2>1, GotoOK DEF Starting, WorkerPCs
    <2>3. RowsOK'  BY <2>1, KnownBy, HeartbeatIs DEF Starting
    <2> QED  BY <2>1, <2>2, <2>3, Unmoved
  <1>8. ASSUME Submit(p)  PROVE Typed'
    <2>1. /\ proc[p].pc = "submit" /\ p \in Workers /\ proc[p].order \in Orders
          /\ submitted' = [submitted EXCEPT ![proc[p].order] = @ + 1]
          /\ UNCHANGED <<row, quiet>> /\ UNCHANGED pool /\ UNCHANGED queue /\ UNCHANGED history
      BY <1>1, <1>8, KnownBy DEF Submit, At, Starting
    <2>2. QueueOK' /\ submitted[proc[p].order] + 1 > 0  BY <2>1 DEF QueueOK, queue
    <2>3. GoroutineOK(proc'[p]) /\ proc'[p].pc \in OwnPCs(p) /\ Only(p)
      BY <1>8, <2>1, <2>2, KnownBy, SubmitMoves, WhoWorks
         DEF GoroutineOK, Starting, Polled, Recovering, WorkerPCs
    <2>4. ProcsOK'  BY <2>3, MoverOK
    <2> QED  BY <2>1, <2>2, <2>4, Unmoved
  <1>9. ASSUME SubmitExpired(p)  PROVE Typed'
    <2>1. /\ proc[p].pc = "submit" /\ p \in Workers
          /\ UNCHANGED <<row, quiet>> /\ UNCHANGED pool /\ UNCHANGED <<queue, submitted>>
          /\ UNCHANGED history
      BY <1>1, <1>9 DEF SubmitExpired, At, Starting
    <2>2. GoroutineOK(proc'[p]) /\ proc'[p].pc \in OwnPCs(p) /\ Only(p)
      BY <1>9, <2>1, KnownBy, SubmitExpiredMoves, WhoWorks
         DEF GoroutineOK, Starting, Polled, Recovering, WorkerPCs
    <2>3. ProcsOK'  BY <2>2, MoverOK
    <2> QED  BY <2>1, <2>3, Unmoved
  <1>10. ASSUME EnqueuePoll(p)  PROVE Typed'
    <2>1. /\ proc[p].pc = "poll" /\ Return(p) /\ polls' = polls \cup {Poll(p)}
          /\ genTask' = [genTask EXCEPT ![proc[p].order] = "none"]
          /\ UNCHANGED <<row, quiet>> /\ UNCHANGED pool /\ UNCHANGED submitted /\ UNCHANGED history
      BY <1>10 DEF EnqueuePoll, At
    <2>2. Poll(p) \in Orders \X (Nat \ {0})  BY <2>1, KnownBy DEF Poll
    <2>3. QueueOK'  BY <2>1, <2>2 DEF QueueOK, TaskStates
    <2>4. ProcsOK'  BY <2>1, ReturnOK
    <2> QED  BY <2>1, <2>3, <2>4, Unmoved
  <1>11. ASSUME Rollback(p)  PROVE Typed'
    <2>1. /\ proc[p].pc = "rollback" /\ TaskFails(p)
          /\ SaveBoth(proc[p].order, Requeued(proc[p].copy), proc[p].account, proc[p].seen,
                      proc[p].back)
          /\ expired' = IF proc[p].seen = "banned" THEN expired \cup {proc[p].account} ELSE expired
          /\ UNCHANGED <<submitted, leaked, delivered, repaid>>
      BY <1>11 DEF Rollback, At
    <2>2. /\ p \in Workers /\ proc[p].pc # "idle" /\ proc[p].account \in Accounts
          /\ proc[p].order \in Orders /\ proc[p].copy \in Row
          /\ proc[p].seen \in {"active", "banned"} /\ proc[p].back \in {0, 1}
      BY <1>1, <2>1, KnownBy DEF Starting
    <2>3. ProcsOK' /\ QueueOK'  BY <2>1, <2>2, TaskFailsOK DEF QueueOK
    <2>4. Requeued(proc[p].copy) \in Row /\ ~Running(Requeued(proc[p].copy))
      BY <2>2, CopiesAre DEF Running
    <2>5. RowsOK' /\ PoolOK'  BY <2>1, <2>2, <2>4, SaveBothIs
    <2>6. HistoryOK'  BY <2>1, <2>2 DEF HistoryOK
    <2> QED  BY <2>3, <2>5, <2>6
  <1> QED
    BY <1>2, <1>3, <1>4, <1>5, <1>6, <1>7, <1>8, <1>9, <1>10, <1>11 DEF HandleGenerateTask

\* So do the polls.
LEMMA StatusCheckTyped ==
  ASSUME Typed, NEW p \in Procs, HandleStatusCheckTask(p)
  PROVE  Typed'
  <1> USE DEF Typed
  <1>1. ASSUME proc[p].pc \in Polled
        PROVE  /\ p \in Workers /\ proc[p].pc # "idle" /\ proc[p].order \in Orders
               /\ proc[p].copy \in Row /\ Running(proc[p].copy)
               /\ proc[p].copy.assigned \in Accounts
               /\ proc[p].seen \in {"active", "banned"} /\ proc[p].back \in {0, 1}
    BY <1>1, WhoWorks, KnownBy DEF Polled, WorkerPCs
  <1>2. ASSUME FetchRunning(p)  PROVE Typed'
    <2>1. /\ proc[p].pc = "fetch" /\ Heartbeat(p) /\ (Return(p) \/ Goto(p, "stale"))
          /\ UNCHANGED pool /\ UNCHANGED <<queue, submitted>> /\ UNCHANGED history
      BY <1>2 DEF FetchRunning, At
    <2>2. ProcsOK'  BY <1>1, <2>1, ReturnOK, GotoOK DEF Polled, WorkerPCs
    <2>3. RowsOK'  BY <1>1, <2>1, HeartbeatIs DEF Polled
    <2> QED  BY <2>1, <2>2, <2>3, Unmoved
  <1>3. ASSUME FetchError(p) \/ SaveResultFails(p)  PROVE Typed'
    <2>1. /\ proc[p].pc \in {"fetch", "complete", "fail"} /\ TaskFails(p)
          /\ UNCHANGED <<row, quiet>> /\ UNCHANGED pool /\ UNCHANGED submitted
          /\ UNCHANGED history
      BY <1>3 DEF FetchError, SaveResultFails, At
    <2>2. ProcsOK' /\ QueueOK'  BY <1>1, <2>1, TaskFailsOK DEF QueueOK, Polled
    <2> QED  BY <2>1, <2>2, Unmoved
  <1>4. ASSUME NEW pc \in {"upload", "fail"}, FetchTerminal(p, pc)  PROVE Typed'
    <2>1. /\ proc[p].pc = "fetch" /\ Become(p, Loaded(p, pc, proc[p].copy.assigned))
          /\ UNCHANGED <<row, quiet>> /\ UNCHANGED pool /\ UNCHANGED <<queue, submitted>>
          /\ UNCHANGED history
      BY <1>4 DEF FetchTerminal, At
    <2>2. GoroutineOK(proc'[p]) /\ proc'[p].pc \in OwnPCs(p) /\ Only(p)
      <3>1. p \in Workers /\ proc[p].copy.assigned \in Accounts /\ pc \in PCs
        BY <1>1, <2>1 DEF PCs, WorkerPCs, Polled
      <3>2. /\ Only(p) /\ proc'[p].pc = pc /\ proc'[p].order = proc[p].order
            /\ proc'[p].copy = proc[p].copy /\ proc'[p].job = proc[p].job
            /\ proc'[p].account = proc[p].copy.assigned
        BY <2>1, <3>1, LoadedMoves
      <3> QED
        BY <2>1, <3>1, <3>2, KnownBy, WhoWorks
           DEF GoroutineOK, Starting, Polled, Recovering, WorkerPCs
    <2>3. ProcsOK'  BY <2>2, MoverOK
    <2> QED  BY <2>1, <2>3, Unmoved
  <1>5. ASSUME Upload(p)  PROVE Typed'
    <2>1. /\ proc[p].pc = "upload" /\ Heartbeat(p) /\ Goto(p, "complete")
          /\ UNCHANGED pool /\ UNCHANGED <<queue, submitted>> /\ UNCHANGED history
      BY <1>5 DEF Upload, At
    <2>2. ProcsOK'  BY <1>1, <2>1, GotoOK DEF Polled, WorkerPCs
    <2>3. RowsOK'  BY <1>1, <2>1, HeartbeatIs DEF Polled
    <2> QED  BY <2>1, <2>2, <2>3, Unmoved
  <1>6. ASSUME UploadFails(p)  PROVE Typed'
    <2>1. /\ proc[p].pc = "upload" /\ Heartbeat(p) /\ TaskFails(p)
          /\ UNCHANGED pool /\ UNCHANGED submitted /\ UNCHANGED history
      BY <1>6 DEF UploadFails, At
    <2>2. ProcsOK' /\ QueueOK'  BY <1>1, <2>1, TaskFailsOK DEF QueueOK, Polled
    <2>3. RowsOK'  BY <1>1, <2>1, HeartbeatIs DEF Polled
    <2> QED  BY <2>1, <2>2, <2>3, Unmoved
  <1>7. ASSUME Complete(p) \/ Fail(p)  PROVE Typed'
    <2>1. PICK c \in {Completed(proc[p].copy), Failed(proc[p].copy)} :
            /\ proc[p].pc \in {"complete", "fail"} /\ FinishTask(p) /\ Return(p)
            /\ SaveBoth(proc[p].order, c, proc[p].account, proc[p].seen, proc[p].back)
            /\ UNCHANGED submitted /\ UNCHANGED <<leaked, expired, repaid>>
            /\ Deliver(p) \/ UNCHANGED delivered
      BY <1>7 DEF Complete, Fail, At, history
    <2>2. c \in Row /\ ~Running(c) /\ proc[p].account \in Accounts
      BY <1>1, <2>1, CopiesAre, KnownBy DEF Running, Polled
    <2>3. RowsOK' /\ PoolOK'  BY <1>1, <2>1, <2>2, SaveBothIs DEF Polled
    <2>4. ProcsOK'  BY <2>1, ReturnOK
    <2>5. QueueOK'  BY <2>1, TaskOps DEF QueueOK
    <2>6. HistoryOK'  BY <2>1, HistoriesCount DEF HistoryOK
    <2> QED  BY <2>3, <2>4, <2>5, <2>6
  <1> QED
    BY <1>2, <1>3, <1>4, <1>5, <1>6, <1>7 DEF HandleStatusCheckTask

\* So does the last retry.
LEMMA DeadTaskTyped ==
  ASSUME Typed, NEW p \in Procs, HandleDeadTask(p)
  PROVE  Typed'
  <1> USE DEF Typed
  <1>1. ASSUME proc[p].pc \in {"stale", "dead", "bury"}
        PROVE  /\ p \in Workers /\ proc[p].pc # "idle" /\ proc[p].order \in Orders
               /\ proc[p].copy \in Row /\ proc[p].account \in Accounts \cup {NoAccount}
               /\ proc[p].seen \in {"active", "banned"} /\ proc[p].back \in {0, 1}
    BY <1>1, WhoWorks, KnownBy DEF WorkerPCs
  <1>2. ASSUME RetryStalePoll(p)  PROVE Typed'
    <2>1. /\ proc[p].pc = "stale" /\ (Return(p) \/ Goto(p, "dead"))
          /\ FinishTask(p) \/ UNCHANGED queue
          /\ UNCHANGED <<row, quiet>> /\ UNCHANGED pool /\ UNCHANGED submitted
          /\ UNCHANGED history
      BY <1>2 DEF RetryStalePoll, At
    <2>2. ProcsOK'  BY <1>1, <2>1, ReturnOK, GotoOK DEF WorkerPCs
    <2>3. QueueOK'  BY <2>1, TaskOps DEF QueueOK, queue
    <2> QED  BY <2>1, <2>2, <2>3, Unmoved
  <1>3. ASSUME FailGeneration(p)  PROVE Typed'
    <2>1. /\ proc[p].pc = "dead" /\ UNCHANGED <<row, quiet>> /\ UNCHANGED pool
          /\ UNCHANGED submitted /\ UNCHANGED history
      BY <1>3 DEF FailGeneration, At
    <2>2. CASE row[proc[p].order].generation \in {"completed", "failed"}
      <3>1. ArchiveTask(p) /\ Return(p)  BY <1>3, <2>2 DEF FailGeneration
      <3>2. ProcsOK' /\ QueueOK'  BY <2>1, <3>1, ReturnOK, TaskOps DEF QueueOK
      <3> QED  BY <2>1, <3>2, Unmoved
    <2>3. CASE row[proc[p].order].generation \notin {"completed", "failed"}
      <3>1. /\ Only(p) /\ proc'[p].pc = "bury" /\ proc'[p].order = proc[p].order
            /\ proc'[p].copy = Failed(row[proc[p].order]) /\ UNCHANGED queue
        BY <1>1, <1>3, <2>1, <2>3, FailMoves
      <3>2. proc'[p].copy.generation = "failed"
        BY <1>1, <2>1, <3>1, CopiesAre DEF RowsOK
      <3>3. ProcsOK'
        BY <1>1, <2>1, <3>1, <3>2, MoverOK, WhoWorks
           DEF GoroutineOK, Starting, Polled, Recovering, WorkerPCs
      <3> QED  BY <2>1, <3>1, <3>3, Unmoved DEF queue
    <2> QED  BY <2>2, <2>3
  <1>4. ASSUME Bury(p)  PROVE Typed'
    <2>1. /\ proc[p].pc = "bury" /\ ArchiveTask(p) /\ Return(p)
          /\ UNCHANGED <<submitted, delivered, expired, repaid>>
      BY <1>4 DEF Bury, At
    <2>2. ProcsOK' /\ QueueOK'  BY <2>1, ReturnOK, TaskOps DEF QueueOK
    <2>3. ~Running(proc[p].copy)  BY <2>1, KnownBy DEF Running
    <2>4. CASE /\ SaveBoth(proc[p].order, proc[p].copy, proc[p].account, proc[p].seen, proc[p].back)
               /\ UNCHANGED leaked
      <3>1. RowsOK' /\ PoolOK'  BY <1>1, <2>1, <2>3, <2>4, SaveBothIs
      <3> QED  BY <2>1, <2>2, <2>4, <3>1 DEF HistoryOK
    <2>5. CASE /\ proc[p].account # NoAccount /\ SaveOrder(proc[p].order, proc[p].copy)
               /\ Leak(proc[p].account) /\ UNCHANGED pool
      <3>1. RowsOK'  BY <1>1, <2>1, <2>3, <2>5, SaveOrderIs
      <3>2. HistoryOK'  BY <1>1, <2>1, <2>5, HistoriesCount DEF HistoryOK
      <3> QED  BY <2>2, <2>5, <3>1, <3>2, Unmoved
    <2>6. CASE UNCHANGED <<row, quiet, pool, leaked>>
      BY <2>1, <2>2, <2>6, Unmoved DEF HistoryOK
    <2> QED  BY <1>4, <2>4, <2>5, <2>6 DEF Bury
  <1> QED
    BY <1>2, <1>3, <1>4 DEF HandleDeadTask

\* And so does the end of a pod.
LEMMA CrashTyped ==
  ASSUME Typed, NEW p \in Procs, Crash(p)
  PROVE  Typed'
  <1> USE DEF Typed
  <1>1. /\ proc[p].pc # "idle" /\ Return(p)
        /\ UNCHANGED <<row, quiet>> /\ UNCHANGED pool /\ UNCHANGED submitted
        /\ UNCHANGED <<delivered, expired, repaid>>
        /\ RetryTask(p) \/ UNCHANGED queue
    BY DEF Crash
  <1>2. ProcsOK' /\ QueueOK'  BY <1>1, ReturnOK, TaskOps DEF QueueOK, queue
  <1>3. leaked' \in [Accounts -> Nat]
    <2>1. CASE proc[p].pc = "start"
      BY <1>1, <2>1, KnownBy, HistoriesCount DEF Crash, At, Starting
    <2>2. CASE proc[p].pc \in {"releaseSlot", "giveBack"}
      BY <1>1, <2>2, KnownBy, HistoriesCount DEF Crash, At
    <2>3. CASE proc[p].pc \notin {"start", "releaseSlot", "giveBack"}
      BY <2>3 DEF Crash, At, HistoryOK
    <2> QED  BY <2>1, <2>2, <2>3
  <1> QED  BY <1>1, <1>2, <1>3, Unmoved DEF HistoryOK

\* The ticker and the admin jump to where they know enough.
LEMMA OfficeGotoOK ==
  ASSUME ProcsOK, NEW p \in Crons \cup Admins, NEW c \in {"requeue", "releaseSlot"}, Goto(p, c),
         proc[p].pc # "idle",
         c = "releaseSlot" => p \in Admins /\ proc[p].copy.assigned \in Accounts
  PROVE  ProcsOK' /\ Only(p) /\ proc'[p].pc = c /\ SameButPC(p)
  <1>1. p \in Procs /\ c \in PCs  BY DEF Procs, PCs, OfficePCs
  <1>2. Only(p) /\ proc'[p].pc = c /\ SameButPC(p)  BY <1>1, GotoMoves DEF ProcsOK
  <1>3. GoroutineOK(proc'[p])
    BY <1>1, <1>2, KnownBy DEF GoroutineOK, SameButPC, Starting, Polled, Recovering
  <1>4. c \in OwnPCs(p)
    BY <1>1, WhoWorks DEF TickerPCs, AdminPCs, OfficePCs, Recovering
  <1> QED  BY <1>1, <1>2, <1>3, <1>4, MoverOK

\* They load the account their copy names.
LEMMA OfficeLoadOK ==
  ASSUME ProcsOK, PoolOK, NEW p \in Procs, NEW c \in PCs,
         Become(p, Loaded(p, c, proc[p].copy.assigned)),
         \/ proc[p].pc = "recover" /\ c = "recoverSave"
         \/ proc[p].pc = "releaseSlot" /\ c = "giveBack"
  PROVE  /\ ProcsOK' /\ Only(p) /\ proc'[p].pc = c /\ proc'[p].order = proc[p].order
         /\ proc'[p].copy = proc[p].copy /\ proc'[p].account = proc[p].copy.assigned
         /\ proc'[p].job = proc[p].job /\ proc'[p].back = SlotToRelease(proc[p].copy.assigned)
  <1>1. proc[p].copy.assigned \in Accounts  BY KnownBy DEF Recovering
  <1>2. /\ Only(p) /\ proc'[p].pc = c /\ proc'[p].order = proc[p].order
        /\ proc'[p].copy = proc[p].copy /\ proc'[p].account = proc[p].copy.assigned
        /\ proc'[p].job = proc[p].job /\ proc'[p].back = SlotToRelease(proc[p].copy.assigned)
    BY <1>1, LoadedMoves
  <1>3. GoroutineOK(proc'[p])
    BY <1>1, <1>2, KnownBy DEF GoroutineOK, Starting, Polled, Recovering
  <1>4. proc'[p].pc \in OwnPCs(p)
    BY <1>2, WhoWorks DEF TickerPCs, AdminPCs, OfficePCs, Recovering
  <1> QED  BY <1>2, <1>3, <1>4, MoverOK

\* The ticker keeps the types.
LEMMA RecoverTyped ==
  ASSUME Typed, NEW p \in Procs, RecoverStuckOrders(p)
  PROVE  Typed'
  <1> USE DEF Typed
  <1>1. ASSUME LoadStuck(p)  PROVE Typed'
    <2>1. /\ proc[p].pc = "recover" /\ Become(p, Loaded(p, "recoverSave", proc[p].copy.assigned))
          /\ UNCHANGED <<row, quiet>> /\ UNCHANGED pool /\ UNCHANGED <<queue, submitted>>
          /\ UNCHANGED history
      BY <1>1 DEF LoadStuck, At
    <2>2. "recoverSave" \in PCs  BY DEF PCs, OfficePCs
    <2>3. ProcsOK'  BY <2>1, <2>2, OfficeLoadOK
    <2> QED  BY <2>1, <2>3, Unmoved
  <1>2. ASSUME RecoverOrderOnly(p) \/ Recover(p)  PROVE Typed'
    <2>1. /\ proc[p].pc \in Recovering /\ Goto(p, "requeue") /\ UNCHANGED <<queue, submitted>>
          /\ UNCHANGED <<delivered, expired, repaid>>
      BY <1>2 DEF RecoverOrderOnly, Recover, At, Recovering, history
    <2>2. /\ p \in Crons /\ proc[p].pc # "idle" /\ proc[p].order \in Orders
          /\ proc[p].copy \in Row /\ proc[p].copy.assigned \in Accounts
          /\ proc[p].account \in Accounts \cup {NoAccount}
          /\ proc[p].seen \in {"active", "banned"} /\ proc[p].back \in {0, 1}
      BY <2>1, WhoWorks, KnownBy DEF Recovering
    <2>3. Requeued(proc[p].copy) \in Row /\ ~Running(Requeued(proc[p].copy))
      BY <2>2, CopiesAre DEF Running
    <2>4. ProcsOK'  BY <2>1, <2>2, OfficeGotoOK
    <2>5. CASE RecoverOrderOnly(p)
      <3>1. /\ SaveOrder(proc[p].order, Requeued(proc[p].copy))
            /\ Leak(proc[p].copy.assigned) /\ UNCHANGED pool
        BY <2>5 DEF RecoverOrderOnly
      <3>2. RowsOK'  BY <3>1, <2>2, <2>3, SaveOrderIs
      <3>3. HistoryOK'  BY <2>1, <2>2, <3>1, HistoriesCount DEF HistoryOK
      <3> QED  BY <2>1, <2>4, <3>1, <3>2, <3>3, Unmoved
    <2>6. CASE Recover(p)
      <3>1. /\ SaveBoth(proc[p].order, Requeued(proc[p].copy), proc[p].account, proc[p].seen,
                        proc[p].back)
            /\ UNCHANGED history
        BY <2>6 DEF Recover
      <3>2. RowsOK' /\ PoolOK'  BY <3>1, <2>2, <2>3, SaveBothIs
      <3> QED  BY <2>1, <2>4, <3>1, <3>2, Unmoved
    <2> QED  BY <1>2, <2>5, <2>6
  <1>3. ASSUME Requeue(p)  PROVE Typed'
    <2>1. /\ Return(p) /\ EnqueueGenerationTask(proc[p].order)
          /\ UNCHANGED <<row, quiet>> /\ UNCHANGED pool /\ UNCHANGED polls
          /\ UNCHANGED submitted /\ UNCHANGED history
      BY <1>3 DEF Requeue
    <2>2. ProcsOK' /\ QueueOK'
      BY <2>1, ReturnOK DEF QueueOK, EnqueueGenerationTask, TaskStates
    <2> QED  BY <2>1, <2>2, Unmoved
  <1> QED
    BY <1>1, <1>2, <1>3 DEF RecoverStuckOrders

\* The admin keeps the types.
LEMMA AdminTyped ==
  ASSUME Typed, NEW p \in Procs, RefundOrder(p) \/ Regenerate(p)
  PROVE  Typed'
  <1> USE DEF Typed
  <1>1. ASSUME Refund(p)  PROVE Typed'
    <2> DEFINE o == proc[p].order
               m == MarkRefunded(proc[p].copy)
               r == CancelGenerationForRefund(m)
    <2>1. /\ proc[p].pc = "refund" /\ SaveOrder(o, r)
          /\ UNCHANGED pool /\ UNCHANGED <<queue, submitted>>
          /\ UNCHANGED <<leaked, delivered, expired>>
          /\ repaid' \in {repaid \cup {o}, repaid}
          /\ \/ Goto(p, "releaseSlot") /\ m.assigned # NoAccount
             \/ Return(p)
      BY <1>1 DEF Refund, At
    <2>2. o \in Orders /\ proc[p].copy \in Row /\ p \in Admins  BY <2>1, KnownBy, WhoWorks
    <2>3. m.assigned = proc[p].copy.assigned /\ m.assigned \in Accounts \cup {NoAccount}
      BY <2>2, CopiesAre DEF Row
    <2>4. r \in Row /\ ~Running(r)  BY <2>2, RefundedCopyIs DEF Running
    <2> HIDE DEF r, m
    <2>5. RowsOK'  BY <2>1, <2>2, <2>4, SaveOrderIs
    <2>6. ProcsOK'  BY <2>1, <2>2, <2>3, ReturnOK, OfficeGotoOK
    <2>7. HistoryOK'  BY <2>1, <2>2 DEF HistoryOK
    <2> QED  BY <2>1, <2>5, <2>6, <2>7, Unmoved
  <1>2. ASSUME LoadReleased(p)  PROVE Typed'
    <2>1. /\ proc[p].pc = "releaseSlot"
          /\ Become(p, Loaded(p, "giveBack", proc[p].copy.assigned))
          /\ UNCHANGED <<row, quiet>> /\ UNCHANGED pool /\ UNCHANGED <<queue, submitted>>
          /\ UNCHANGED history
      BY <1>2 DEF LoadReleased, At
    <2>2. "giveBack" \in PCs  BY DEF PCs, OfficePCs
    <2>3. ProcsOK'  BY <2>1, <2>2, OfficeLoadOK
    <2> QED  BY <2>1, <2>3, Unmoved
  <1>3. ASSUME ReleaseSlot(p)  PROVE Typed'
    <2>1. /\ proc[p].pc = "giveBack" /\ Return(p)
          /\ SaveAccount(proc[p].account, proc[p].seen, proc[p].back)
          /\ UNCHANGED <<row, quiet>> /\ UNCHANGED <<queue, submitted>> /\ UNCHANGED history
      BY <1>3 DEF ReleaseSlot, At
    <2>2. /\ proc[p].account \in Accounts /\ proc[p].seen \in {"active", "banned"}
          /\ proc[p].back \in {0, 1}
      BY <2>1, KnownBy
    <2>3. PoolOK'  BY <2>1, <2>2, SaveAccountIs
    <2>4. ProcsOK'  BY <2>1, ReturnOK
    <2> QED  BY <2>1, <2>3, <2>4, Unmoved
  <1>4. ASSUME Regenerate(p)  PROVE Typed'
    <2>1. /\ proc[p].pc = "regenerate" /\ Goto(p, "requeue")
          /\ SaveOrder(proc[p].order, Requeued(proc[p].copy))
          /\ UNCHANGED pool /\ UNCHANGED <<queue, submitted>> /\ UNCHANGED history
      BY <1>4 DEF Regenerate, At
    <2>2. /\ p \in Admins /\ proc[p].order \in Orders /\ proc[p].copy \in Row
      BY <2>1, WhoWorks, KnownBy
    <2>3. Requeued(proc[p].copy) \in Row /\ ~Running(Requeued(proc[p].copy))
      BY <2>2, CopiesAre DEF Running
    <2>4. RowsOK'  BY <2>1, <2>2, <2>3, SaveOrderIs
    <2>5. ProcsOK'  BY <2>1, <2>2, OfficeGotoOK
    <2> QED  BY <2>1, <2>4, <2>5, Unmoved
  <1> QED
    BY <1>1, <1>2, <1>3, <1>4 DEF RefundOrder

\* Whoever starts has read the row he starts on.
LEMMA EnterOK ==
  ASSUME ProcsOK, RowsOK, NEW p \in Procs, NEW o \in Orders, NEW c \in PCs, Enter(p, o, c),
         \/ p \in Workers /\ c = "lock"
         \/ p \in Crons /\ c = "recover" /\ Running(row[o])
         \/ p \in Crons /\ c = "requeue"
         \/ p \in Admins /\ c \in {"refund", "regenerate"}
  PROVE  /\ ProcsOK' /\ Only(p) /\ proc[p].pc = "idle"
         /\ proc'[p].pc = c /\ proc'[p].order = o /\ proc'[p].copy = row[o] /\ proc'[p].job = 0
  <1>1. /\ Only(p) /\ proc[p].pc = "idle" /\ proc'[p].pc = c /\ proc'[p].order = o
        /\ proc'[p].copy = row[o] /\ proc'[p].job = 0
    BY EnterMoves
  <1>2. row[o] \in Row /\ (Running(row[o]) => row[o].assigned \in Accounts)
    BY DEF RowsOK, ProcessingHasAccount
  <1>3. GoroutineOK(proc'[p])
    BY <1>1, <1>2 DEF GoroutineOK, Starting, Polled, Recovering
  <1>4. c \in OwnPCs(p)
    BY WhoWorks DEF WorkerPCs, TickerPCs, AdminPCs, OfficePCs, Recovering
  <1> QED  BY <1>1, <1>3, <1>4, MoverOK

\* So every step keeps the types.
LEMMA TypesStep ==
  ASSUME Typed, [Next]_vars
  PROVE  Typed'
  <1> USE DEF Typed
  <1>1. ASSUME NEW p \in Procs, NEW o \in Orders, TakeGenerate(p, o)  PROVE Typed'
    <2>1. /\ p \in Workers /\ UNCHANGED <<row, quiet>> /\ UNCHANGED pool /\ UNCHANGED polls
          /\ UNCHANGED submitted /\ UNCHANGED history
          /\ \/ Enter(p, o, "lock") /\ genTask' = [genTask EXCEPT ![o] = "active"]
             \/ UNCHANGED proc /\ genTask' = [genTask EXCEPT ![o] = "none"]
      BY <1>1 DEF TakeGenerate
    <2>2. "lock" \in PCs  BY DEF PCs, WorkerPCs
    <2>3. ProcsOK'  BY <2>1, <2>2, EnterOK, Unmoved
    <2>4. QueueOK'  BY <2>1 DEF QueueOK, TaskStates
    <2> QED  BY <2>1, <2>3, <2>4, Unmoved
  <1>2. ASSUME NEW p \in Procs, NEW o \in Orders,
               \/ StartRecover(p, o) \/ RecoverQueued(p, o)
               \/ StartRefund(p, o) \/ StartRegenerate(p, o)
        PROVE  Typed'
    <2>1. /\ UNCHANGED <<row, quiet>> /\ UNCHANGED pool /\ UNCHANGED <<queue, submitted>>
          /\ UNCHANGED history
          /\ \/ p \in Crons /\ Enter(p, o, "recover") /\ Running(row[o])
             \/ p \in Crons /\ Enter(p, o, "requeue")
             \/ p \in Admins /\ Enter(p, o, "refund")
             \/ p \in Admins /\ Enter(p, o, "regenerate")
      BY <1>2 DEF StartRecover, RecoverQueued, StartRefund, StartRegenerate
    <2>2. {"recover", "requeue", "refund", "regenerate"} \subseteq PCs  BY DEF PCs, OfficePCs
    <2>3. ProcsOK'  BY <2>1, <2>2, EnterOK
    <2> QED  BY <2>1, <2>3, Unmoved
  <1>3. ASSUME NEW p \in Procs, NEW t \in polls, TakePoll(p, t)  PROVE Typed'
    <2>1. /\ p \in Workers /\ proc[p].pc = "idle"
          /\ UNCHANGED <<row, quiet>> /\ UNCHANGED pool /\ UNCHANGED genTask
          /\ UNCHANGED submitted /\ UNCHANGED history /\ t[1] \in Orders /\ t[2] \in Nat \ {0}
      BY <1>3 DEF TakePoll, At, QueueOK
    <2>2. QueueOK'  BY <1>3, <2>1 DEF QueueOK, TakePoll
    <2>3. ProcsOK'
      <3>1. CASE Running(row[t[1]])
        <4>2. /\ Only(p) /\ proc'[p].pc = "fetch" /\ proc'[p].order = t[1]
              /\ proc'[p].copy = row[t[1]] /\ proc'[p].job = t[2]
          BY <1>3, <3>1, EnterPollMoves
        <4>3. row[t[1]].assigned \in Accounts
          BY <2>1, <3>1 DEF RowsOK, ProcessingHasAccount
        <4> QED
          BY <2>1, <3>1, <4>2, <4>3, MoverOK, WhoWorks
             DEF GoroutineOK, Starting, Polled, Recovering, WorkerPCs
      <3>2. CASE ~Running(row[t[1]])
        BY <1>3, <3>2, Unmoved DEF TakePoll
      <3> QED  BY <3>1, <3>2
    <2> QED  BY <2>1, <2>2, <2>3, Unmoved
  <1>4. ASSUME NEW o \in Orders, GoQuiet(o)  PROVE Typed'
    <2>1. /\ RowsOK' /\ UNCHANGED pool /\ UNCHANGED <<queue, submitted>> /\ UNCHANGED history
          /\ UNCHANGED proc
      BY <1>4 DEF GoQuiet, RowsOK, ProcessingHasAccount
    <2> QED  BY <2>1, Unmoved
  <1>5. ASSUME NEW a \in Accounts, Reactivate(a)  PROVE Typed'
    <2>1. /\ UNCHANGED <<row, quiet>> /\ UNCHANGED <<queue, submitted>> /\ UNCHANGED proc
          /\ UNCHANGED <<delivered, repaid>>
          /\ SetStatus(a) \/ ResetAccount(a, FALSE) \/ ResetAccount(a, TRUE)
      BY <1>5 DEF Reactivate, SetAccountStatus
    <2>2. PoolOK' /\ HistoryOK'
      BY <2>1 DEF PoolOK, HistoryOK, SetStatus, ResetAccount
    <2> QED  BY <2>1, <2>2, Unmoved
  <1>6. ASSUME NEW p \in Procs, Work(p) \/ Crash(p)  PROVE Typed'
    BY <1>6, GenerateTyped, StatusCheckTyped, DeadTaskTyped, RecoverTyped, AdminTyped, CrashTyped
       DEF Work
  <1>7. CASE UNCHANGED vars
    BY <1>7, Unmoved DEF vars
  <1> QED
    BY <1>1, <1>2, <1>3, <1>4, <1>5, <1>6, <1>7 DEF Next, Begin

\* In every reachable state all of this holds.
LEMMA TypesHold == Spec => []Typed
  <1>1. Init => Typed
    <2> SUFFICES ASSUME Init  PROVE Typed
      OBVIOUS
    <2>1. proc = [p \in Procs |-> Idle]  BY DEF Init
    <2>2. ProcsOK
      <3>1. "idle" \in OfficePCs /\ "idle" \in WorkerPCs /\ "idle" \in TickerPCs
            /\ "idle" \in AdminPCs
        BY DEF OfficePCs, WorkerPCs, TickerPCs, AdminPCs, Recovering
      <3>2. GoroutineOK(Idle)  BY IdleIs DEF GoroutineOK, Starting, Polled, Recovering
      <3>3. \A p \in Procs : "idle" \in OwnPCs(p)  BY <3>1 DEF OwnPCs
      <3> QED  BY <2>1, <3>2, <3>3, IdleIs DEF ProcsOK
    <2>3. Fresh \in Row /\ ~Running(Fresh)  BY DEF Fresh, Row, Running
    <2>4. RowsOK  BY <2>3 DEF Init, RowsOK, ProcessingHasAccount
    <2> QED
      BY <2>2, <2>4 DEF Init, Typed, PoolOK, QueueOK, TaskStates, HistoryOK
  <1>2. Typed /\ [Next]_vars => Typed'
    BY TypesStep
  <1> QED
    BY <1>1, <1>2, PTL DEF Spec

\* Every variable stays in its domain, and a busy goroutine has its order.
THEOREM TypeCorrect == Spec => []TypeOK
  <1>1. Typed => TypeOK
    <2> SUFFICES ASSUME Typed  PROVE TypeOK
      OBVIOUS
    <2>1. \A p \in Procs : proc[p].pc # "idle" => proc[p].order \in Orders
      BY DEF Typed, ProcsOK, GoroutineOK
    <2> QED
      BY <2>1 DEF Typed, ProcsOK, RowsOK, PoolOK, QueueOK, HistoryOK, TaskStates, TypeOK
  <1> QED
    BY <1>1, TypesHold, PTL

\* An order in processing names its account, however many tickers and admins write
\* the copies they hold (order_usecase.go:801 dereferences it without a look).
THEOREM AccountIsNamed == Spec => []ProcessingHasAccount
  <1>1. Typed => ProcessingHasAccount
    BY DEF Typed, RowsOK
  <1> QED
    BY <1>1, TypesHold, PTL

-----------------------------------------------------------------------------
(* The steps, by what they do to an order and its tasks.                   *)

Kept == UNCHANGED <<row, quiet>>
Saves(p, c) == SaveOrder(proc[p].order, c)
OnTaskPCs == Starting \cup {"lock"}

\* A worker goes on with its task.
Goes(p) ==
  /\ proc'[p].order = proc[p].order /\ proc'[p].job = proc[p].job
  /\ UNCHANGED <<queue, submitted, delivered>>
  /\ \/ proc[p].pc = "lock" /\ proc'[p].pc = "start" /\ Kept
     \/ /\ proc[p].pc = "start" /\ proc'[p].pc = "brief"
        /\ Saves(p, proc[p].copy) /\ proc'[p].copy = proc[p].copy
     \/ /\ proc[p].pc \in Starting \ {"start"} /\ proc'[p].pc \in Starting \ {"start", "poll"}
        /\ Kept \/ Saves(p, proc[p].copy)
        /\ proc'[p].copy = proc[p].copy
     \/ /\ proc[p].pc = "saveJob" /\ proc'[p].pc = "poll"
        /\ Saves(p, proc[p].copy) /\ proc'[p].copy = proc[p].copy
     \/ /\ proc[p].pc \in Polled /\ proc'[p].pc \in Polled \ {"fetch"}
        /\ Kept \/ Saves(p, proc[p].copy)
        /\ proc'[p].copy = proc[p].copy
     \/ proc[p].pc \in Starting \cup Polled /\ proc'[p].pc = "dead" /\ Kept
     \/ proc[p].pc \in Polled /\ proc'[p].pc = "dead" /\ Saves(p, proc[p].copy)
     \/ /\ proc[p].pc = "rollback" /\ proc'[p].pc = "dead"
        /\ Saves(p, Requeued(proc[p].copy))
     \/ /\ proc[p].pc = "dead" /\ proc'[p].pc = "bury" /\ Kept
        /\ row[proc[p].order].generation \notin {"completed", "failed"}
        /\ proc'[p].copy = Failed(row[proc[p].order])
        /\ proc'[p].account = row[proc[p].order].assigned

\* It is through with it, one way or another.
Leaves(p) ==
  /\ proc[p].pc # "idle" /\ proc'[p] = Idle /\ UNCHANGED submitted
  /\ polls' \subseteq polls /\ \A t \in polls : t # Poll(p) => t \in polls'
  /\ Polling(p) => genTask' = genTask
  /\ ~Polling(p) => \/ proc[p].pc \in Polled /\ UNCHANGED queue
                    \/ /\ polls' = polls /\ genTask'[proc[p].order] # "active"
                       /\ \A o \in Orders : o # proc[p].order => genTask'[o] = genTask[o]
  /\ \/ Kept /\ UNCHANGED delivered
     \/ proc[p].pc \in Polled /\ Saves(p, proc[p].copy) /\ UNCHANGED delivered
     \/ proc[p].pc = "rollback" /\ Saves(p, Requeued(proc[p].copy)) /\ UNCHANGED delivered
     \/ /\ Poll(p) \notin polls'
        /\ \/ proc[p].pc = "complete" /\ Saves(p, Completed(proc[p].copy)) /\ Deliver(p)
           \/ proc[p].pc = "fail" /\ Saves(p, Failed(proc[p].copy)) /\ UNCHANGED delivered
           \/ proc[p].pc = "bury" /\ Saves(p, proc[p].copy) /\ UNCHANGED delivered

\* It has a job at Suno.
Submits(p) ==
  /\ proc[p].pc = "submit" /\ proc'[p].pc = "saveJob"
  /\ proc'[p].order = proc[p].order /\ proc'[p].copy = proc[p].copy
  /\ proc'[p].job = submitted[proc[p].order] + 1
  /\ submitted' = [submitted EXCEPT ![proc[p].order] = @ + 1]
  /\ UNCHANGED <<queue, delivered>> /\ Kept

\* It leaves the job to the polls.
Enqueues(p) ==
  /\ proc[p].pc = "poll" /\ proc'[p] = Idle
  /\ polls' = polls \cup {Poll(p)} /\ genTask' = [genTask EXCEPT ![proc[p].order] = "none"]
  /\ UNCHANGED <<submitted, delivered>> /\ Kept

WorkerStep(p) == Goes(p) \/ Leaves(p) \/ Submits(p) \/ Enqueues(p)

\* What the ticker and the admin do.
OfficeStep(p) ==
  /\ proc[p].pc # "idle"
  /\ UNCHANGED <<polls, submitted, delivered>>
  /\ \/ UNCHANGED genTask
     \/ Kept /\ EnqueueGenerationTask(proc[p].order) /\ proc'[p].pc = "idle"
  /\ \/ Kept /\ proc'[p].pc = "idle"
     \/ /\ Kept /\ proc[p].pc = "recover" /\ proc'[p].pc = "recoverSave"
        /\ proc'[p].order = proc[p].order /\ proc'[p].copy = proc[p].copy
     \/ Kept /\ proc[p].pc = "releaseSlot" /\ proc'[p].pc = "giveBack"
     \/ /\ proc[p].pc \in Recovering \cup {"regenerate"} /\ proc'[p].pc = "requeue"
        /\ Saves(p, Requeued(proc[p].copy))
     \/ /\ proc[p].pc = "refund" /\ proc'[p].pc \in {"idle", "releaseSlot"}
        /\ \E c \in Row : /\ c.payment = "refunded" /\ c.generation \in {"completed", "failed"}
                          /\ Saves(p, c)

\* A task that fails is left, or its last retry goes on.
LEMMA FailedTaskStep ==
  ASSUME Typed, NEW p \in Workers, TaskFails(p), proc[p].pc \in Starting \cup Polled,
         UNCHANGED <<submitted, delivered>>,
         \/ Kept
         \/ proc[p].pc \in Polled /\ Saves(p, proc[p].copy)
         \/ proc[p].pc = "rollback" /\ Saves(p, Requeued(proc[p].copy))
  PROVE  Only(p) /\ (Goes(p) \/ Leaves(p))
  <1>1. proc[p].pc # "idle" /\ proc[p].order \in Orders /\ p \in Procs
    BY KnownBy DEF Typed, Starting, Polled, Procs
  <1>2. /\ Only(p)
        /\ \/ proc'[p] = Idle /\ RetryTask(p)
           \/ proc'[p].pc = "dead" /\ SameButPC(p) /\ UNCHANGED queue
    BY <1>1, TaskFailsOK DEF Typed
  <1>3. CASE proc'[p] = Idle /\ RetryTask(p)
    <2>1. /\ polls' \subseteq polls
          /\ \A t \in polls : t # Poll(p) => t \in polls'
          /\ Polling(p) => genTask' = genTask
          /\ ~Polling(p) => /\ polls' = polls
                            /\ proc[p].order \in Orders => genTask'[proc[p].order] # "active"
                            /\ \A o \in Orders : o # proc[p].order => genTask'[o] = genTask[o]
      BY <1>1, <1>3, TaskOps DEF Typed
    <2> QED  BY <1>1, <1>2, <1>3, <2>1 DEF Leaves
  <1>4. CASE proc'[p].pc = "dead" /\ SameButPC(p) /\ UNCHANGED queue
    BY <1>2, <1>4 DEF Goes, SameButPC, queue
  <1> QED  BY <1>2, <1>3, <1>4

\* A handler that ends the task leaves it.
LEMMA EndedTaskStep ==
  ASSUME Typed, NEW p \in Procs, Return(p), proc[p].pc # "idle",
         FinishTask(p) \/ ArchiveTask(p) \/ RetryTask(p)
  PROVE  /\ Only(p) /\ proc'[p] = Idle
         /\ polls' \subseteq polls /\ \A t \in polls : t # Poll(p) => t \in polls'
         /\ Polling(p) => genTask' = genTask
         /\ ~Polling(p) => /\ polls' = polls /\ genTask'[proc[p].order] # "active"
                           /\ \A o \in Orders : o # proc[p].order => genTask'[o] = genTask[o]
         /\ FinishTask(p) \/ ArchiveTask(p) => Poll(p) \notin polls'
  <1>1. proc[p].order \in Orders  BY KnownBy DEF Typed
  <1>2. Only(p) /\ proc'[p] = Idle  BY ReturnOK DEF Typed
  <1>3. FinishTask(p) \/ ArchiveTask(p) => Poll(p) \notin polls'
    <2>1. \A t \in polls : t[2] > 0  BY DEF Typed, QueueOK
    <2>2. Poll(p)[2] = proc[p].job /\ proc[p].job \in Nat  BY KnownBy DEF Poll, Typed
    <2>3. Poll(p) \in polls => Polling(p)  BY <2>1, <2>2 DEF Polling
    <2> QED  BY <2>3 DEF FinishTask, ArchiveTask
  <1> QED  BY <1>1, <1>2, <1>3, TaskOps DEF Typed

\* The generation task moves in these steps.
LEMMA GenerateStep ==
  ASSUME Typed, NEW p \in Procs, HandleGenerateTask(p)
  PROVE  p \in Workers /\ Only(p) /\ WorkerStep(p)
  <1> USE DEF WorkerStep
  <1>1. ASSUME proc[p].pc \in OnTaskPCs
        PROVE  /\ p \in Workers /\ proc[p].pc # "idle" /\ proc[p].order \in Orders
               /\ proc[p].copy \in Row
    BY <1>1, WhoWorks, KnownBy DEF Starting, OnTaskPCs, WorkerPCs, Typed
  <1>2. ASSUME NEW a \in Accounts, LockAccount(p, a)
        PROVE  p \in Workers /\ Only(p) /\ WorkerStep(p)
    <2>1. proc[p].pc = "lock" /\ UNCHANGED <<row, quiet, queue, submitted, delivered>>
      BY <1>2 DEF LockAccount, At, history
    <2>2. p \in Workers  BY <1>1, <2>1 DEF OnTaskPCs
    <2>3. /\ Only(p) /\ proc'[p].pc = "start" /\ proc'[p].order = proc[p].order
          /\ proc'[p].job = proc[p].job
      BY <1>2, LockMoves DEF Typed
    <2> QED  BY <2>1, <2>2, <2>3 DEF Goes, Kept
  <1>3. ASSUME PoolBusy(p)  PROVE p \in Workers /\ Only(p) /\ WorkerStep(p)
    <2>1. /\ proc[p].pc = "lock" /\ Return(p) /\ Kept /\ UNCHANGED <<submitted, delivered>>
          /\ RetryTask(p) \/ ArchiveTask(p)
      BY <1>3 DEF PoolBusy, At, Kept, history
    <2>2. p \in Workers /\ proc[p].pc # "idle"  BY <1>1, <2>1 DEF OnTaskPCs
    <2> QED  BY <2>1, <2>2, EndedTaskStep DEF Leaves
  <1>4. ASSUME SaveStart(p) \/ SaveJob(p)  PROVE p \in Workers /\ Only(p) /\ WorkerStep(p)
    <2>1. /\ Saves(p, proc[p].copy) /\ UNCHANGED <<queue, submitted, delivered>>
          /\ \/ proc[p].pc = "start" /\ Goto(p, "brief")
             \/ proc[p].pc = "saveJob" /\ Goto(p, "poll")
      BY <1>4 DEF SaveStart, SaveJob, At, SaveBoth, Saves, history
    <2>2. p \in Workers /\ proc[p].pc # "idle"  BY <1>1, <2>1 DEF OnTaskPCs, Starting
    <2>3. "brief" \in WorkerPCs /\ "poll" \in WorkerPCs  BY DEF WorkerPCs
    <2>4. /\ Only(p) /\ SameButPC(p)
          /\ \/ proc[p].pc = "start" /\ proc'[p].pc = "brief"
             \/ proc[p].pc = "saveJob" /\ proc'[p].pc = "poll"
      BY <2>1, <2>2, <2>3, GotoOK DEF Starting, Typed
    <2> QED  BY <2>1, <2>2, <2>4 DEF Goes, SameButPC
  <1>5. ASSUME SaveStartFails(p) \/ SaveJobFails(p) \/ RollbackFails(p)
        PROVE  p \in Workers /\ Only(p) /\ WorkerStep(p)
    <2>1. /\ proc[p].pc \in {"start", "saveJob", "rollback"} /\ TaskFails(p)
          /\ Kept /\ UNCHANGED <<submitted, delivered>>
      BY <1>5 DEF SaveStartFails, SaveJobFails, RollbackFails, At, Kept, history
    <2>2. p \in Workers  BY <1>1, <2>1 DEF OnTaskPCs, Starting
    <2> QED  BY <2>1, <2>2, FailedTaskStep DEF Starting
  <1>6. ASSUME BriefEmpty(p) \/ SubmitFails(p) \/ EnqueuePollFails(p) \/ SaveProgress(p)
        PROVE  p \in Workers /\ Only(p) /\ WorkerStep(p)
    <2>1. /\ proc[p].pc \in {"brief", "submit", "poll"}
          /\ Goto(p, "rollback") \/ Goto(p, "submit")
          /\ Kept \/ Saves(p, proc[p].copy)
          /\ UNCHANGED <<queue, submitted, delivered>>
      BY <1>6 DEF BriefEmpty, SubmitFails, EnqueuePollFails, SaveProgress, Heartbeat, At, Kept,
                  history, Saves
    <2>2. p \in Workers /\ proc[p].pc # "idle"  BY <1>1, <2>1 DEF OnTaskPCs, Starting
    <2>3. "rollback" \in WorkerPCs /\ "submit" \in WorkerPCs  BY DEF WorkerPCs
    <2>4. Only(p) /\ SameButPC(p) /\ proc'[p].pc \in {"rollback", "submit"}
      BY <2>1, <2>2, <2>3, GotoOK DEF Starting, Typed
    <2> QED  BY <2>1, <2>2, <2>4 DEF Goes, SameButPC, Starting
  <1>7. ASSUME Submit(p)  PROVE p \in Workers /\ Only(p) /\ WorkerStep(p)
    <2>1. proc[p].pc = "submit"  BY <1>7 DEF Submit, At
    <2>2. p \in Workers /\ proc[p].order \in Orders  BY <1>1, <2>1 DEF OnTaskPCs, Starting
    <2>3. /\ Only(p) /\ proc'[p].pc = "saveJob" /\ proc'[p].order = proc[p].order
          /\ proc'[p].copy = proc[p].copy /\ proc'[p].job = submitted[proc[p].order] + 1
      BY <1>7, <2>2, SubmitMoves DEF Typed
    <2> QED  BY <1>7, <2>1, <2>2, <2>3 DEF Submits, Submit, Kept, history
  <1>8. ASSUME SubmitExpired(p)  PROVE p \in Workers /\ Only(p) /\ WorkerStep(p)
    <2>1. proc[p].pc = "submit" /\ Kept /\ UNCHANGED <<queue, submitted, delivered>>
      BY <1>8 DEF SubmitExpired, At, Kept, history
    <2>2. p \in Workers  BY <1>1, <2>1 DEF OnTaskPCs, Starting
    <2>3. /\ Only(p) /\ proc'[p].pc = "rollback" /\ proc'[p].order = proc[p].order
          /\ proc'[p].copy = proc[p].copy /\ proc'[p].job = proc[p].job
      BY <1>8, SubmitExpiredMoves DEF Typed
    <2> QED  BY <2>1, <2>2, <2>3 DEF Goes, Starting
  <1>9. ASSUME EnqueuePoll(p)  PROVE p \in Workers /\ Only(p) /\ WorkerStep(p)
    <2>1. /\ proc[p].pc = "poll" /\ Return(p) /\ polls' = polls \cup {Poll(p)}
          /\ genTask' = [genTask EXCEPT ![proc[p].order] = "none"]
          /\ Kept /\ UNCHANGED <<submitted, delivered>>
      BY <1>9 DEF EnqueuePoll, At, Kept, history
    <2>2. p \in Workers  BY <1>1, <2>1 DEF OnTaskPCs, Starting
    <2>3. Only(p) /\ proc'[p] = Idle  BY <2>1, ReturnOK DEF Typed
    <2> QED  BY <2>1, <2>2, <2>3 DEF Enqueues
  <1>10. ASSUME Rollback(p)  PROVE p \in Workers /\ Only(p) /\ WorkerStep(p)
    <2>1. /\ proc[p].pc = "rollback" /\ TaskFails(p) /\ UNCHANGED <<submitted, delivered>>
          /\ Saves(p, Requeued(proc[p].copy))
      BY <1>10 DEF Rollback, At, SaveBoth, Saves, history
    <2>2. p \in Workers  BY <1>1, <2>1 DEF OnTaskPCs, Starting
    <2> QED  BY <2>1, <2>2, FailedTaskStep DEF Starting
  <1> QED
    BY <1>2, <1>3, <1>4, <1>5, <1>6, <1>7, <1>8, <1>9, <1>10 DEF HandleGenerateTask

\* So do the polls and the last retries.
LEMMA PollStep ==
  ASSUME Typed, NEW p \in Procs, HandleStatusCheckTask(p) \/ HandleDeadTask(p)
  PROVE  p \in Workers /\ Only(p) /\ WorkerStep(p)
  <1> USE DEF WorkerStep
  <1>1. ASSUME proc[p].pc \in Polled \cup {"dead", "bury"}
        PROVE  /\ p \in Workers /\ proc[p].pc # "idle" /\ proc[p].order \in Orders
               /\ proc[p].copy \in Row
    BY <1>1, WhoWorks, KnownBy DEF Polled, WorkerPCs, Typed
  <1>2. ASSUME FetchRunning(p)  PROVE p \in Workers /\ Only(p) /\ WorkerStep(p)
    <2>1. /\ proc[p].pc = "fetch"
          /\ Kept \/ Saves(p, proc[p].copy)
          /\ UNCHANGED <<queue, submitted, delivered>> /\ (Return(p) \/ Goto(p, "stale"))
      BY <1>2 DEF FetchRunning, At, Heartbeat, Kept, history, Saves
    <2>2. p \in Workers /\ proc[p].pc \in Polled /\ proc[p].pc # "idle" /\ "stale" \in WorkerPCs
      BY <1>1, <2>1 DEF Polled, WorkerPCs
    <2>3. CASE Return(p)
      <3>1. Only(p) /\ proc'[p] = Idle  BY <2>3, ReturnOK DEF Typed
      <3> QED  BY <2>1, <2>2, <3>1 DEF Leaves, queue
    <2>4. CASE Goto(p, "stale")
      <3>1. Only(p) /\ SameButPC(p) /\ proc'[p].pc = "stale"
        BY <2>1, <2>2, <2>4, GotoOK DEF Typed
      <3> QED  BY <2>1, <2>2, <3>1 DEF Goes, SameButPC, Polled
    <2> QED  BY <2>1, <2>3, <2>4
  <1>3. ASSUME FetchError(p) \/ SaveResultFails(p) \/ UploadFails(p)
        PROVE  p \in Workers /\ Only(p) /\ WorkerStep(p)
    <2>1. /\ proc[p].pc \in {"fetch", "upload", "complete", "fail"} /\ TaskFails(p)
          /\ UNCHANGED <<submitted, delivered>>
          /\ Kept \/ Saves(p, proc[p].copy)
      BY <1>3 DEF FetchError, SaveResultFails, UploadFails, At, Heartbeat, Kept, history, Saves
    <2>2. p \in Workers  BY <1>1, <2>1 DEF Polled
    <2> QED  BY <2>1, <2>2, FailedTaskStep DEF Polled
  <1>4. ASSUME NEW c \in {"upload", "fail"}, FetchTerminal(p, c)
        PROVE  p \in Workers /\ Only(p) /\ WorkerStep(p)
    <2>1. /\ proc[p].pc = "fetch" /\ Become(p, Loaded(p, c, proc[p].copy.assigned))
          /\ Kept /\ UNCHANGED <<queue, submitted, delivered>>
      BY <1>4 DEF FetchTerminal, At, Kept, history
    <2>2. p \in Workers /\ proc[p].pc \in Polled /\ c \in PCs
      BY <1>1, <2>1 DEF Polled, PCs, WorkerPCs
    <2>3. proc[p].copy.assigned \in Accounts  BY <2>1, <2>2, KnownBy DEF Typed
    <2>4. /\ Only(p) /\ proc'[p].pc = c /\ proc'[p].order = proc[p].order
          /\ proc'[p].copy = proc[p].copy /\ proc'[p].job = proc[p].job
      BY <2>1, <2>2, <2>3, LoadedMoves DEF Typed
    <2> QED  BY <2>1, <2>2, <2>4 DEF Goes, Polled
  <1>5. ASSUME Upload(p)  PROVE p \in Workers /\ Only(p) /\ WorkerStep(p)
    <2>1. /\ proc[p].pc = "upload"
          /\ Kept \/ Saves(p, proc[p].copy)
          /\ UNCHANGED <<queue, submitted, delivered>> /\ Goto(p, "complete")
      BY <1>5 DEF Upload, At, Heartbeat, Kept, history, Saves
    <2>2. p \in Workers /\ proc[p].pc \in Polled /\ proc[p].pc # "idle" /\ "complete" \in WorkerPCs
      BY <1>1, <2>1 DEF Polled, WorkerPCs
    <2>3. Only(p) /\ SameButPC(p) /\ proc'[p].pc = "complete"
      BY <2>1, <2>2, GotoOK DEF Typed
    <2> QED  BY <2>1, <2>2, <2>3 DEF Goes, SameButPC, Polled
  <1>6. ASSUME Complete(p) \/ Fail(p)  PROVE p \in Workers /\ Only(p) /\ WorkerStep(p)
    <2>1. /\ Return(p) /\ FinishTask(p) /\ UNCHANGED submitted
          /\ \/ proc[p].pc = "complete" /\ Saves(p, Completed(proc[p].copy)) /\ Deliver(p)
             \/ proc[p].pc = "fail" /\ Saves(p, Failed(proc[p].copy)) /\ UNCHANGED delivered
      BY <1>6 DEF Complete, Fail, At, SaveBoth, Saves, history
    <2>2. p \in Workers /\ proc[p].pc # "idle"  BY <1>1, <2>1 DEF Polled
    <2> QED  BY <2>1, <2>2, EndedTaskStep DEF Leaves
  <1>7. ASSUME RetryStalePoll(p)  PROVE p \in Workers /\ Only(p) /\ WorkerStep(p)
    <2>1. /\ proc[p].pc = "stale" /\ Kept /\ UNCHANGED <<submitted, delivered>>
          /\ \/ FinishTask(p) /\ Return(p)
             \/ Return(p) /\ UNCHANGED queue
             \/ Goto(p, "dead") /\ UNCHANGED queue
      BY <1>7 DEF RetryStalePoll, At, Kept, history
    <2>2. p \in Workers /\ proc[p].pc \in Polled /\ proc[p].pc # "idle" /\ "dead" \in WorkerPCs
      BY <1>1, <2>1 DEF Polled, WorkerPCs
    <2>3. CASE FinishTask(p) /\ Return(p)
      BY <2>1, <2>2, <2>3, EndedTaskStep DEF Leaves
    <2>4. CASE Return(p) /\ UNCHANGED queue
      <3>1. Only(p) /\ proc'[p] = Idle  BY <2>4, ReturnOK DEF Typed
      <3> QED  BY <2>1, <2>2, <2>4, <3>1 DEF Leaves, queue
    <2>5. CASE Goto(p, "dead") /\ UNCHANGED queue
      <3>1. Only(p) /\ SameButPC(p) /\ proc'[p].pc = "dead"
        BY <2>1, <2>2, <2>5, GotoOK DEF Typed
      <3> QED  BY <2>1, <2>2, <2>5, <3>1 DEF Goes, SameButPC, queue
    <2> QED  BY <2>1, <2>3, <2>4, <2>5
  <1>8. ASSUME FailGeneration(p)  PROVE p \in Workers /\ Only(p) /\ WorkerStep(p)
    <2>1. proc[p].pc = "dead" /\ Kept /\ UNCHANGED <<submitted, delivered>>
      BY <1>8 DEF FailGeneration, At, Kept, history
    <2>2. p \in Workers /\ proc[p].pc # "idle" /\ proc[p].order \in Orders  BY <1>1, <2>1
    <2>3. CASE row[proc[p].order].generation \in {"completed", "failed"}
      <3>1. ArchiveTask(p) /\ Return(p)  BY <1>8, <2>3 DEF FailGeneration
      <3> QED  BY <2>1, <2>2, <3>1, EndedTaskStep DEF Leaves
    <2>4. CASE row[proc[p].order].generation \notin {"completed", "failed"}
      <3>1. /\ Only(p) /\ proc'[p].pc = "bury" /\ proc'[p].order = proc[p].order
            /\ proc'[p].copy = Failed(row[proc[p].order]) /\ proc'[p].job = proc[p].job
            /\ proc'[p].account = row[proc[p].order].assigned /\ UNCHANGED queue
        BY <1>8, <2>2, <2>4, FailMoves DEF Typed
      <3> QED  BY <2>1, <2>2, <2>4, <3>1 DEF Goes, queue
    <2> QED  BY <2>3, <2>4
  <1>9. ASSUME Bury(p)  PROVE p \in Workers /\ Only(p) /\ WorkerStep(p)
    <2>1. /\ proc[p].pc = "bury" /\ ArchiveTask(p) /\ Return(p)
          /\ UNCHANGED <<submitted, delivered>>
          /\ Kept \/ Saves(p, proc[p].copy)
      BY <1>9 DEF Bury, At, SaveBoth, Saves, history, Kept
    <2>2. p \in Workers /\ proc[p].pc # "idle"  BY <1>1, <2>1
    <2> QED  BY <2>1, <2>2, EndedTaskStep DEF Leaves
  <1> QED
    BY <1>2, <1>3, <1>4, <1>5, <1>6, <1>7, <1>8, <1>9
       DEF HandleStatusCheckTask, HandleDeadTask

\* The ticker and the admin move in these.
LEMMA OfficeMoves ==
  ASSUME Typed, NEW p \in Procs, RecoverStuckOrders(p) \/ RefundOrder(p) \/ Regenerate(p)
  PROVE  p \notin Workers /\ Only(p) /\ OfficeStep(p)
  <1>1. ASSUME proc[p].pc \in OfficePCs \ {"idle"}
        PROVE  p \in Crons \cup Admins /\ p \notin Workers
    <2>1. p \notin Workers  BY <1>1, WhoWorks DEF Typed, ProcsOK, OfficePCs, WorkerPCs
    <2> QED  BY <2>1 DEF Procs
  <1>2. ASSUME LoadStuck(p) \/ LoadReleased(p)
        PROVE  p \notin Workers /\ Only(p) /\ OfficeStep(p)
    <2>1. PICK c \in PCs :
            /\ Become(p, Loaded(p, c, proc[p].copy.assigned))
            /\ \/ proc[p].pc = "recover" /\ c = "recoverSave"
               \/ proc[p].pc = "releaseSlot" /\ c = "giveBack"
            /\ Kept /\ UNCHANGED <<genTask, polls, submitted, delivered>>
      BY <1>2 DEF LoadStuck, LoadReleased, At, Kept, history, PCs, OfficePCs, queue
    <2>2. p \notin Workers  BY <1>1, <2>1 DEF OfficePCs
    <2>3. /\ Only(p) /\ proc'[p].pc = c /\ proc'[p].order = proc[p].order
          /\ proc'[p].copy = proc[p].copy
      BY <2>1, OfficeLoadOK DEF Typed
    <2> QED  BY <2>1, <2>2, <2>3 DEF OfficeStep
  <1>3. ASSUME RecoverOrderOnly(p) \/ Recover(p) \/ Regenerate(p)
        PROVE  p \notin Workers /\ Only(p) /\ OfficeStep(p)
    <2>1. /\ proc[p].pc \in Recovering \cup {"regenerate"} /\ Goto(p, "requeue")
          /\ Saves(p, Requeued(proc[p].copy)) /\ UNCHANGED <<genTask, polls, submitted, delivered>>
      BY <1>3 DEF RecoverOrderOnly, Recover, Regenerate, At, Recovering, SaveBoth, Saves,
                  queue, history
    <2>2. p \in Crons \cup Admins /\ p \notin Workers /\ proc[p].pc # "idle"
      BY <1>1, <2>1 DEF OfficePCs, Recovering
    <2>3. Only(p) /\ proc'[p].pc = "requeue"  BY <2>1, <2>2, OfficeGotoOK DEF Typed
    <2> QED  BY <2>1, <2>2, <2>3 DEF OfficeStep
  <1>4. ASSUME Requeue(p) \/ ReleaseSlot(p)  PROVE p \notin Workers /\ Only(p) /\ OfficeStep(p)
    <2>1. /\ proc[p].pc \in {"requeue", "giveBack"} /\ Return(p) /\ Kept
          /\ UNCHANGED genTask \/ EnqueueGenerationTask(proc[p].order)
          /\ UNCHANGED <<polls, submitted, delivered>>
      BY <1>4 DEF Requeue, ReleaseSlot, At, Kept, history, queue
    <2>2. p \notin Workers  BY <1>1, <2>1 DEF OfficePCs
    <2>3. Only(p) /\ proc'[p].pc = "idle"  BY <2>1, ReturnOK DEF Typed
    <2> QED  BY <2>1, <2>2, <2>3 DEF OfficeStep
  <1>5. ASSUME Refund(p)  PROVE p \notin Workers /\ Only(p) /\ OfficeStep(p)
    <2> DEFINE m == MarkRefunded(proc[p].copy)
               r == CancelGenerationForRefund(m)
    <2>1. /\ proc[p].pc = "refund" /\ Saves(p, r)
          /\ UNCHANGED <<genTask, polls, submitted, delivered>>
          /\ \/ Goto(p, "releaseSlot") /\ m.assigned # NoAccount
             \/ Return(p)
      BY <1>5 DEF Refund, At, Saves, queue, history
    <2>2. proc[p].copy \in Row /\ p \in Admins /\ p \in Crons \cup Admins /\ p \notin Workers
      BY <1>1, <2>1, KnownBy, WhoWorks DEF Typed, OfficePCs
    <2>3. m.assigned = proc[p].copy.assigned /\ m.assigned \in Accounts \cup {NoAccount}
      BY <2>2, CopiesAre DEF Row
    <2>4. r \in Row /\ r.payment = "refunded" /\ r.generation \in {"completed", "failed"}
      BY <2>2, RefundedCopyIs
    <2> HIDE DEF r, m
    <2>5. Only(p) /\ proc'[p].pc \in {"idle", "releaseSlot"}
      BY <2>1, <2>2, <2>3, ReturnOK, OfficeGotoOK DEF Typed
    <2> QED  BY <2>1, <2>2, <2>4, <2>5 DEF OfficeStep
  <1> QED
    BY <1>2, <1>3, <1>4, <1>5 DEF RecoverStuckOrders, RefundOrder

\* A worker takes a task, or finds there is nothing to do for it.
TakesTask(p, o) ==
  /\ Only(p) /\ proc[p].pc = "idle" /\ proc'[p].pc = "lock" /\ proc'[p].order = o
  /\ proc'[p].job = 0 /\ genTask[o] # "active" /\ row[o].generation = "queued"
  /\ genTask' = [genTask EXCEPT ![o] = "active"] /\ Kept
  /\ UNCHANGED <<polls, submitted, delivered>>
TakesPoll(p, t) ==
  /\ Only(p) /\ proc[p].pc = "idle" /\ proc'[p].pc = "fetch" /\ proc'[p].order = t[1]
  /\ proc'[p].copy = row[t[1]] /\ proc'[p].job = t[2]
  /\ ~Taken(t) /\ Running(row[t[1]]) /\ UNCHANGED <<queue, submitted, delivered>> /\ Kept
DropsTask(o) ==
  /\ genTask[o] # "active" /\ genTask' = [genTask EXCEPT ![o] = "none"]
  /\ UNCHANGED <<polls, submitted, proc, delivered>> /\ Kept
DropsPoll(t) ==
  /\ ~Taken(t) /\ ~Running(row[t[1]]) /\ polls' = polls \ {t}
  /\ UNCHANGED <<genTask, submitted, proc, delivered>> /\ Kept

\* The ticker or the admin takes up an order.
TakesUp(p, o) ==
  /\ Only(p) /\ proc[p].pc = "idle" /\ proc'[p].order = o /\ proc'[p].copy = row[o]
  /\ UNCHANGED <<queue, submitted, delivered>> /\ Kept
  /\ \/ proc'[p].pc \in {"requeue", "refund"}
     \/ p \in Crons /\ proc'[p].pc = "recover" /\ Running(row[o]) /\ o \in quiet
     \/ /\ p \in Admins /\ proc'[p].pc = "regenerate"
        /\ row[o].payment = "paid" /\ row[o].generation = "failed"

\* No goroutine moves and no task.
Rests == UNCHANGED <<queue, submitted, proc, delivered>>

\* Every step is one of these.
LEMMA StepKinds ==
  ASSUME Typed, [Next]_vars
  PROVE  \/ \E p \in Workers : Only(p) /\ WorkerStep(p)
         \/ \E p \in Procs \ Workers : Only(p) /\ OfficeStep(p)
         \/ \E p \in Workers, o \in Orders : TakesTask(p, o)
         \/ \E p \in Workers, t \in polls : TakesPoll(p, t)
         \/ \E o \in Orders : DropsTask(o)
         \/ \E t \in polls : DropsPoll(t)
         \/ \E p \in Procs \ Workers, o \in Orders : TakesUp(p, o)
         \/ \E o \in Orders : GoQuiet(o) /\ Rests /\ UNCHANGED row
         \/ Rests /\ Kept
  <1> DEFINE Kinds ==
         \/ \E p \in Workers : Only(p) /\ WorkerStep(p)
         \/ \E p \in Procs \ Workers : Only(p) /\ OfficeStep(p)
         \/ \E p \in Workers, o \in Orders : TakesTask(p, o)
         \/ \E p \in Workers, t \in polls : TakesPoll(p, t)
         \/ \E o \in Orders : DropsTask(o)
         \/ \E t \in polls : DropsPoll(t)
         \/ \E p \in Procs \ Workers, o \in Orders : TakesUp(p, o)
         \/ \E o \in Orders : GoQuiet(o) /\ Rests /\ UNCHANGED row
         \/ Rests /\ Kept
  <1>1. ASSUME NEW p \in Procs, NEW o \in Orders, TakeGenerate(p, o)  PROVE Kinds
    <2>1. /\ p \in Workers /\ proc[p].pc = "idle" /\ genTask[o] # "active" /\ Kept
          /\ UNCHANGED <<polls, submitted, delivered>> /\ "lock" \in PCs
      BY <1>1 DEF TakeGenerate, Kept, history, Enter, At, PCs, WorkerPCs
    <2>2. CASE row[o].generation = "queued"
      <3>1. Enter(p, o, "lock") /\ genTask' = [genTask EXCEPT ![o] = "active"]
        BY <1>1, <2>2 DEF TakeGenerate
      <3>2. Only(p) /\ proc'[p].pc = "lock" /\ proc'[p].order = o /\ proc'[p].job = 0
        BY <2>1, <3>1, EnterOK DEF Typed
      <3>3. TakesTask(p, o)  BY <2>1, <2>2, <3>1, <3>2 DEF TakesTask
      <3> QED  BY <2>1, <3>3
    <2>3. CASE row[o].generation # "queued"
      <3>1. DropsTask(o)  BY <1>1, <2>1, <2>3 DEF TakeGenerate, DropsTask, history
      <3> QED  BY <3>1
    <2> QED  BY <2>2, <2>3
  <1>2. ASSUME NEW p \in Procs, NEW t \in polls, TakePoll(p, t)  PROVE Kinds
    <2>1. /\ p \in Workers /\ ~Taken(t) /\ Kept /\ UNCHANGED <<genTask, submitted, delivered>>
      BY <1>2 DEF TakePoll, Kept, history
    <2>2. CASE Running(row[t[1]])
      <3>1. /\ Only(p) /\ proc[p].pc = "idle" /\ proc'[p].pc = "fetch" /\ proc'[p].order = t[1]
            /\ proc'[p].copy = row[t[1]] /\ proc'[p].job = t[2] /\ polls' = polls
        BY <1>2, <2>2, EnterPollMoves DEF Typed
      <3>2. TakesPoll(p, t)  BY <2>1, <2>2, <3>1 DEF TakesPoll, queue
      <3> QED  BY <2>1, <3>2
    <2>3. CASE ~Running(row[t[1]])
      <3>1. DropsPoll(t)  BY <1>2, <2>1, <2>3 DEF TakePoll, DropsPoll
      <3> QED  BY <3>1
    <2> QED  BY <2>2, <2>3
  <1>3. ASSUME NEW p \in Procs, NEW o \in Orders,
               \/ StartRecover(p, o) \/ RecoverQueued(p, o)
               \/ StartRefund(p, o) \/ StartRegenerate(p, o)
        PROVE  Kinds
    <2>1. PICK c \in {"recover", "requeue", "refund", "regenerate"} :
            /\ Kept /\ UNCHANGED <<queue, submitted, delivered>> /\ Enter(p, o, c)
            /\ \/ p \in Crons /\ c = "recover" /\ Running(row[o]) /\ o \in quiet
               \/ p \in Crons /\ c = "requeue"
               \/ p \in Admins /\ c = "refund"
               \/ /\ p \in Admins /\ c = "regenerate"
                  /\ row[o].payment = "paid" /\ row[o].generation = "failed"
      BY <1>3 DEF StartRecover, RecoverQueued, StartRefund, StartRegenerate, Kept, history
    <2>2. c \in PCs /\ p \notin Workers  BY <2>1, RolesAssumption DEF PCs, OfficePCs
    <2>3. /\ Only(p) /\ proc[p].pc = "idle" /\ proc'[p].pc = c /\ proc'[p].order = o
          /\ proc'[p].copy = row[o]
      BY <2>1, <2>2, EnterOK DEF Typed
    <2>4. TakesUp(p, o)  BY <2>1, <2>3 DEF TakesUp
    <2> QED  BY <2>2, <2>4
  <1>4. ASSUME NEW o \in Orders, GoQuiet(o)  PROVE Kinds
    BY <1>4 DEF GoQuiet, Rests, history
  <1>5. ASSUME NEW a \in Accounts, Reactivate(a)  PROVE Kinds
    BY <1>5 DEF Reactivate, Rests, Kept
  <1>6. ASSUME NEW p \in Procs, Work(p)  PROVE Kinds
    BY <1>6, GenerateStep, PollStep, OfficeMoves DEF Work
  <1>7. ASSUME NEW p \in Procs, Crash(p)  PROVE Kinds
    <2>1. Return(p) /\ proc[p].pc # "idle" /\ UNCHANGED <<submitted, delivered>> /\ Kept
      BY <1>7 DEF Crash, Kept, history
    <2>2. Only(p) /\ proc'[p] = Idle /\ proc'[p].pc = "idle"  BY <2>1, ReturnOK DEF Typed
    <2>3. CASE p \in Workers
      <3>1. RetryTask(p)  BY <1>7, <2>3 DEF Crash
      <3>2. WorkerStep(p)  BY <2>1, <3>1, EndedTaskStep DEF Leaves, WorkerStep
      <3> QED  BY <2>2, <2>3, <3>2
    <2>4. CASE p \notin Workers
      <3>1. OfficeStep(p)  BY <1>7, <2>1, <2>2, <2>4 DEF Crash, OfficeStep, queue
      <3> QED  BY <2>2, <2>4, <3>1
    <2> QED  BY <2>3, <2>4
  <1>8. ASSUME UNCHANGED vars  PROVE Kinds
    BY <1>8 DEF vars, Rests, Kept, history
  <1> HIDE DEF Kinds
  <1>9. Kinds
    BY <1>1, <1>2, <1>3, <1>4, <1>5, <1>6, <1>7, <1>8 DEF Next, Begin
  <1> QED
    BY <1>9 DEF Kinds

-----------------------------------------------------------------------------
(* A task is in the hands of one worker.                                   *)

Busy(p) == p \in Workers /\ proc[p].pc # "idle"
OnTask(p) == Busy(p) /\ ~Polling(p)

\* A busy worker has an active generation task or a poll, and no other worker has it.
Hands ==
  /\ \A t \in polls : t[2] <= submitted[t[1]]
  /\ \A p \in Workers : Busy(p) => proc[p].job <= submitted[proc[p].order]
  /\ \A p \in Workers : proc[p].pc \in OnTaskPCs => ~Polling(p)
  /\ \A p \in Workers : proc[p].pc \in Polled => Polling(p)
  /\ \A p \in Workers : OnTask(p) => genTask[proc[p].order] = "active"
  /\ \A p, q \in Workers :
       (Busy(p) /\ Busy(q) /\ p # q /\ proc[p].order = proc[q].order) =>
         \/ Polling(p) /\ ~Polling(q)
         \/ ~Polling(p) /\ Polling(q)
         \/ Polling(p) /\ Polling(q) /\ proc[p].job # proc[q].job

\* A worker that leaves its task or its job leaves the polls of the others.
LEMMA OthersKeep ==
  ASSUME Typed, Hands, NEW p \in Workers, Only(p), WorkerStep(p)
  PROVE  \A q \in Workers \ {p} :
           /\ proc'[q] = proc[q] /\ Busy(q)' = Busy(q) /\ OnTask(q)' = OnTask(q)
           /\ Busy(q) => Polling(q)' = Polling(q)
  <1> SUFFICES ASSUME NEW q \in Workers \ {p}
               PROVE  /\ proc'[q] = proc[q] /\ Busy(q)' = Busy(q) /\ OnTask(q)' = OnTask(q)
                      /\ Busy(q) => Polling(q)' = Polling(q)
    OBVIOUS
  <1>1. proc'[q] = proc[q]  BY DEF Only, Procs
  <1>2. Busy(q)' = Busy(q) /\ Poll(q)' = Poll(q)  BY <1>1 DEF Busy, Poll
  <1>3. ASSUME Busy(q)  PROVE Polling(q)' = Polling(q)
    <2>1. CASE polls' = polls  BY <1>1, <1>2, <2>1 DEF Polling
    <2>2. CASE Leaves(p)
      <3>1. Busy(p) /\ \A t \in polls : t # Poll(p) => t \in polls'  BY <2>2 DEF Leaves, Busy
      <3>2. polls' \subseteq polls  BY <2>2 DEF Leaves
      <3>3. CASE Poll(q) # Poll(p)  BY <1>1, <1>2, <3>1, <3>2, <3>3 DEF Polling
      <3>4. CASE Poll(q) = Poll(p)
        <4>1. proc[p].order = proc[q].order /\ proc[p].job = proc[q].job  BY <3>4 DEF Poll
        <4>2. ~Polling(q)
          <5>1. Polling(q) => Polling(p)  BY <3>4, <4>1 DEF Polling
          <5> QED  BY <1>3, <3>1, <4>1, <5>1 DEF Hands
        <4> QED  BY <1>1, <1>2, <3>2, <4>2 DEF Polling
      <3> QED  BY <3>3, <3>4
    <2>3. CASE Enqueues(p)
      <3>1. Busy(p) /\ proc[p].pc \in OnTaskPCs /\ polls' = polls \cup {Poll(p)}
        BY <2>3 DEF Enqueues, Busy, OnTaskPCs, Starting
      <3>2. ~Polling(p) /\ proc[p].job > 0
        BY <2>3, <3>1 DEF Hands, Enqueues, Typed, ProcsOK, GoroutineOK, Procs
      <3>3. Poll(q) # Poll(p)
        <4> SUFFICES ASSUME Poll(q) = Poll(p)  PROVE FALSE
          OBVIOUS
        <4>1. proc[q].order = proc[p].order /\ proc[q].job = proc[p].job  BY DEF Poll
        <4>2. Polling(q)  BY <1>3, <3>1, <3>2, <4>1 DEF Hands
        <4> QED  BY <3>2, <4>2 DEF Polling
      <3> QED  BY <1>1, <1>2, <3>1, <3>3 DEF Polling
    <2>4. polls' = polls \/ Leaves(p) \/ Enqueues(p)
      BY DEF WorkerStep, Goes, Submits, queue
    <2> QED  BY <2>1, <2>2, <2>3, <2>4
  <1> QED  BY <1>1, <1>2, <1>3 DEF OnTask, Busy

\* A worker that goes on keeps its hands where they were, and nobody else's task.
LEMMA GoesHands ==
  ASSUME Typed, Hands, NEW p \in Workers, Only(p), Goes(p)
  PROVE  Hands'
  <1>1. p \in Procs /\ \A q \in Workers : q \in Procs  BY DEF Procs
  <1>2. polls' = polls /\ genTask' = genTask /\ submitted' = submitted
    BY DEF Goes, queue
  <1>3. \A q \in Workers : /\ proc'[q].order = proc[q].order /\ proc'[q].job = proc[q].job
                           /\ Polling(q)' = Polling(q)
    BY <1>1, <1>2 DEF Goes, Only, Polling, Poll
  <1>4. /\ proc[p].pc # "idle" /\ proc'[p].pc # "idle"
        /\ proc'[p].pc \in OnTaskPCs => proc[p].pc \in OnTaskPCs
        /\ proc'[p].pc \in Polled => proc[p].pc \in Polled
    BY DEF Goes, Starting, OnTaskPCs, Polled
  <1>5. \A q \in Workers : /\ Busy(q)' = Busy(q) /\ OnTask(q)' = OnTask(q)
                           /\ proc'[q].pc \in OnTaskPCs => proc[q].pc \in OnTaskPCs
                           /\ proc'[q].pc \in Polled => proc[q].pc \in Polled
    BY <1>1, <1>3, <1>4 DEF Only, Busy, OnTask
  <1> QED  BY <1>2, <1>3, <1>5 DEF Hands

\* A worker that leaves its task leaves it to the queue, or to the polls.
LEMMA LeavesHands ==
  ASSUME Typed, Hands, NEW p \in Workers, Only(p), Leaves(p)
  PROVE  Hands'
  <1>1. p \in Procs /\ \A q \in Workers : q \in Procs  BY DEF Procs
  <1>2. /\ proc'[p].pc = "idle" /\ Busy(p) /\ submitted' = submitted /\ polls' \subseteq polls
        /\ \A t \in polls : t # Poll(p) => t \in polls'
    BY IdleIs DEF Leaves, Busy
  <1>3. \A q \in Workers \ {p} : proc'[q] = proc[q]  BY <1>1 DEF Only
  <1>4. \A q \in Workers \ {p} : Busy(q) => Polling(q)' = Polling(q)
    BY OthersKeep DEF WorkerStep
  <1>5. \A q \in Workers \ {p} : Busy(q)' = Busy(q)  BY <1>3 DEF Busy
  <1>6. \A q \in Workers \ {p} : OnTask(q)' => OnTask(q) /\ genTask'[proc[q].order] = "active"
    <2> SUFFICES ASSUME NEW q \in Workers \ {p}, OnTask(q)'
                 PROVE  OnTask(q) /\ genTask'[proc[q].order] = "active"
      OBVIOUS
    <2>1. OnTask(q) /\ proc[q].order \in Orders
      BY <1>1, <1>4, <1>5, KnownBy DEF OnTask, Busy, Typed
    <2>2. genTask[proc[q].order] = "active"  BY <2>1 DEF Hands
    <2>3. CASE Polling(p)  BY <2>2, <2>3, <2>1 DEF Leaves
    <2>4. CASE ~Polling(p)
      <3>1. proc[p].order # proc[q].order  BY <1>2, <2>1, <2>4 DEF Hands, OnTask
      <3> QED  BY <2>1, <2>2, <2>4, <3>1 DEF Leaves, queue
    <2> QED  BY <2>1, <2>3, <2>4
  <1>7. "idle" \notin OnTaskPCs /\ "idle" \notin Polled /\ ~Busy(p)' /\ ~OnTask(p)'
    BY <1>2 DEF OnTaskPCs, Starting, Polled, Busy, OnTask
  <1>8. /\ \A t \in polls' : t[2] <= submitted'[t[1]]
        /\ \A q \in Workers : Busy(q)' => proc'[q].job <= submitted'[proc'[q].order]
    BY <1>2, <1>3, <1>5, <1>7 DEF Hands
  <1>9. \A q \in Workers : proc'[q].pc \in OnTaskPCs => ~Polling(q)'
    <2> SUFFICES ASSUME NEW q \in Workers, proc'[q].pc \in OnTaskPCs  PROVE ~Polling(q)'
      OBVIOUS
    <2>1. q # p /\ proc'[q] = proc[q]  BY <1>2, <1>3, <1>7
    <2>2. Busy(q) /\ ~Polling(q)  BY <2>1, <1>7 DEF Hands, Busy
    <2> QED  BY <2>1, <2>2, <1>4
  <1>10. \A q \in Workers : proc'[q].pc \in Polled => Polling(q)'
    <2> SUFFICES ASSUME NEW q \in Workers, proc'[q].pc \in Polled  PROVE Polling(q)'
      OBVIOUS
    <2>1. q # p /\ proc'[q] = proc[q]  BY <1>2, <1>3, <1>7
    <2>2. Busy(q) /\ Polling(q)  BY <2>1, <1>7 DEF Hands, Busy
    <2> QED  BY <2>1, <2>2, <1>4
  <1>11. \A q \in Workers : OnTask(q)' => genTask'[proc'[q].order] = "active"
    BY <1>3, <1>6, <1>7
  <1>12. \A q, r \in Workers :
       (Busy(q)' /\ Busy(r)' /\ q # r /\ proc'[q].order = proc'[r].order) =>
         \/ Polling(q)' /\ ~Polling(r)'
         \/ ~Polling(q)' /\ Polling(r)'
         \/ Polling(q)' /\ Polling(r)' /\ proc'[q].job # proc'[r].job
    <2> SUFFICES ASSUME NEW q \in Workers, NEW r \in Workers,
                        Busy(q)', Busy(r)', q # r, proc'[q].order = proc'[r].order
                 PROVE  \/ Polling(q)' /\ ~Polling(r)'
                        \/ ~Polling(q)' /\ Polling(r)'
                        \/ Polling(q)' /\ Polling(r)' /\ proc'[q].job # proc'[r].job
      OBVIOUS
    <2>1. q # p /\ r # p  BY <1>7
    <2>2. /\ Busy(q) /\ Busy(r) /\ proc'[q] = proc[q] /\ proc'[r] = proc[r]
      BY <2>1, <1>3, <1>5
    <2>3. Polling(q)' = Polling(q) /\ Polling(r)' = Polling(r)  BY <2>1, <2>2, <1>4
    <2> QED  BY <2>2, <2>3 DEF Hands
  <1> QED  BY <1>8, <1>9, <1>10, <1>11, <1>12 DEF Hands

\* A new job is in no poll yet.
LEMMA SubmitsHands ==
  ASSUME Typed, Hands, NEW p \in Workers, Only(p), Submits(p)
  PROVE  Hands'
  <1>1. p \in Procs /\ \A q \in Workers : q \in Procs  BY DEF Procs
  <1>2. proc[p].order \in Orders /\ proc[p].pc \in OnTaskPCs /\ Busy(p)
    BY <1>1, KnownBy DEF Typed, Submits, OnTaskPCs, Starting, Busy
  <1>3. /\ submitted \in [Orders -> Nat] /\ polls' = polls /\ genTask' = genTask
        /\ submitted' = [submitted EXCEPT ![proc[p].order] = @ + 1]
    BY DEF Typed, QueueOK, Submits, queue
  <1>4. polls \subseteq Orders \X (Nat \ {0})  BY DEF Typed, QueueOK
  <1>5. \A t \in polls' : t[2] <= submitted'[t[1]]
    <2> SUFFICES ASSUME NEW t \in polls  PROVE t[2] <= submitted'[t[1]]
      BY <1>3
    <2>1. t[1] \in Orders /\ t[2] \in Nat /\ t[2] <= submitted[t[1]]  BY <1>4 DEF Hands
    <2>2. submitted'[t[1]] \in Nat /\ submitted[t[1]] <= submitted'[t[1]] /\ submitted[t[1]] \in Nat
      BY <1>2, <1>3, <2>1
    <2> QED  BY <2>1, <2>2
  <1>6. ~Polling(p) /\ ~Polling(p)'
    <2>1. ~Polling(p)  BY <1>2 DEF Hands
    <2>2. Poll(p)' = <<proc[p].order, submitted[proc[p].order] + 1>>
      BY DEF Poll, Submits
    <2>3. \A t \in polls : t[1] = proc[p].order => t[2] <= submitted[proc[p].order]
      BY DEF Hands
    <2>4. Poll(p)' \notin polls
      <3> SUFFICES ASSUME Poll(p)' \in polls  PROVE FALSE
        OBVIOUS
      <3>1. submitted[proc[p].order] + 1 <= submitted[proc[p].order]
        BY <2>2, <2>3
      <3> QED  BY <3>1, <1>2, <1>3
    <2> QED  BY <2>1, <2>4, <1>3 DEF Polling
  <1>7. \A q \in Workers : /\ proc'[q].order = proc[q].order /\ Polling(q)' = Polling(q)
                           /\ Busy(q)' = Busy(q) /\ OnTask(q)' = OnTask(q)
    <2> SUFFICES ASSUME NEW q \in Workers
                 PROVE  /\ proc'[q].order = proc[q].order /\ Polling(q)' = Polling(q)
                        /\ Busy(q)' = Busy(q) /\ OnTask(q)' = OnTask(q)
      OBVIOUS
    <2>1. CASE q = p
      <3>1. proc'[p].order = proc[p].order /\ proc'[p].pc # "idle"  BY DEF Submits
      <3>2. Busy(p)' /\ OnTask(p) /\ OnTask(p)'  BY <1>2, <1>6, <3>1 DEF Busy, OnTask
      <3>3. Polling(p)' = Polling(p)  BY <1>6 DEF Polling
      <3>4. Busy(p)' = Busy(p) /\ OnTask(p)' = OnTask(p)  BY <1>2, <3>2 DEF Busy, OnTask
      <3> QED  BY <2>1, <3>1, <3>3, <3>4
    <2>2. CASE q # p
      <3>1. proc'[q] = proc[q]  BY <1>1, <2>2 DEF Only
      <3>2. Polling(q)' = Polling(q)  BY <3>1, <1>3 DEF Polling, Poll
      <3> QED  BY <3>1, <3>2 DEF Busy, OnTask
    <2> QED  BY <2>1, <2>2
  <1>8. \A q \in Workers : /\ proc'[q].pc \in OnTaskPCs => proc[q].pc \in OnTaskPCs
                           /\ proc'[q].pc \in Polled => proc[q].pc \in Polled
    BY <1>1, <1>2 DEF Only, Submits, Polled
  <1>9. \A q, r \in Workers :
       (Busy(q)' /\ Busy(r)' /\ q # r /\ proc'[q].order = proc'[r].order) =>
         \/ Polling(q)' /\ ~Polling(r)'
         \/ ~Polling(q)' /\ Polling(r)'
         \/ Polling(q)' /\ Polling(r)' /\ proc'[q].job # proc'[r].job
    <2>1. \A q \in Workers : Polling(q)' => proc'[q].job = proc[q].job
      BY <1>1, <1>6 DEF Only
    <2> QED  BY <1>7, <2>1 DEF Hands
  <1>10. \A q \in Workers : Busy(q)' => proc'[q].job <= submitted'[proc'[q].order]
    <2> SUFFICES ASSUME NEW q \in Workers, Busy(q)'
                 PROVE  proc'[q].job <= submitted'[proc'[q].order]
      OBVIOUS
    <2>1. CASE q = p
      <3>1. proc'[p].job = submitted'[proc'[p].order] /\ submitted'[proc'[p].order] \in Nat
        BY <1>2, <1>3 DEF Submits
      <3> QED  BY <2>1, <3>1
    <2>2. CASE q # p
      <3> DEFINE o == proc[q].order
      <3>1. proc'[q] = proc[q] /\ Busy(q)  BY <1>1, <1>7, <2>2 DEF Only
      <3>2. o \in Orders /\ proc[q].job \in Nat  BY <1>1, <3>1, KnownBy DEF Busy, Typed
      <3>3. proc[q].job <= submitted[o]  BY <3>1 DEF Hands
      <3> HIDE DEF o
      <3>4. submitted[o] \in Nat /\ submitted'[o] \in Nat /\ submitted[o] <= submitted'[o]
        BY <1>2, <1>3, <3>2
      <3>5. proc[q].job <= submitted'[o]  BY <3>2, <3>3, <3>4
      <3> QED  BY <3>1, <3>5 DEF o
    <2> QED  BY <2>1, <2>2
  <1> QED  BY <1>3, <1>5, <1>7, <1>8, <1>9, <1>10 DEF Hands

\* Nobody polls a job before its poll is in the queue.
LEMMA EnqueuesHands ==
  ASSUME Typed, Hands, NEW p \in Workers, Only(p), Enqueues(p)
  PROVE  Hands'
  <1>1. p \in Procs /\ \A q \in Workers : q \in Procs  BY DEF Procs
  <1>2. /\ proc[p].order \in Orders /\ proc[p].pc \in OnTaskPCs /\ Busy(p) /\ ~Polling(p)
        /\ OnTask(p) /\ proc[p].job > 0
    BY <1>1, KnownBy DEF Typed, Enqueues, OnTaskPCs, Starting, Busy, Hands, OnTask, ProcsOK,
                        GoroutineOK
  <1>3. /\ proc'[p].pc = "idle" /\ submitted' = submitted /\ polls' = polls \cup {Poll(p)}
        /\ genTask' = [genTask EXCEPT ![proc[p].order] = "none"]
        /\ genTask \in [Orders -> TaskStates]
    BY IdleIs DEF Enqueues, Typed, QueueOK
  <1>4. \A q \in Workers \ {p} : proc'[q] = proc[q] /\ Busy(q)' = Busy(q)
    BY <1>1 DEF Only, Busy
  <1>5. "idle" \notin OnTaskPCs /\ "idle" \notin Polled /\ ~Busy(p)' /\ ~OnTask(p)'
    BY <1>3 DEF OnTaskPCs, Starting, Polled, Busy, OnTask
  <1>6. \A q \in Workers \ {p} : Busy(q) => Polling(q)' = Polling(q)
    BY OthersKeep DEF WorkerStep
  <1>7. \A q \in Workers \ {p} : OnTask(q)' => OnTask(q) /\ genTask'[proc[q].order] = "active"
    <2> SUFFICES ASSUME NEW q \in Workers \ {p}, OnTask(q)'
                 PROVE  OnTask(q) /\ genTask'[proc[q].order] = "active"
      OBVIOUS
    <2>1. OnTask(q) /\ proc[q].order \in Orders
      BY <1>1, <1>4, <1>6, KnownBy DEF OnTask, Busy, Typed
    <2>2. genTask[proc[q].order] = "active" /\ proc[q].order # proc[p].order
      BY <1>2, <2>1 DEF Hands, OnTask
    <2> QED  BY <1>3, <2>1, <2>2
  <1>8. /\ \A t \in polls' : t[2] <= submitted'[t[1]]
        /\ \A q \in Workers : Busy(q)' => proc'[q].job <= submitted'[proc'[q].order]
    <2>1. Poll(p)[1] = proc[p].order /\ Poll(p)[2] = proc[p].job  BY DEF Poll
    <2>2. proc[p].job <= submitted[proc[p].order]  BY <1>2 DEF Hands
    <2> QED  BY <1>3, <1>4, <1>5, <2>1, <2>2 DEF Hands
  <1>9. \A q \in Workers : /\ proc'[q].pc \in OnTaskPCs => ~Polling(q)'
                           /\ proc'[q].pc \in Polled => Polling(q)'
    <2> SUFFICES ASSUME NEW q \in Workers, proc'[q].pc \in OnTaskPCs \cup Polled
                 PROVE  /\ proc'[q].pc \in OnTaskPCs => ~Polling(q)'
                        /\ proc'[q].pc \in Polled => Polling(q)'
      OBVIOUS
    <2>1. q # p /\ proc'[q] = proc[q]  BY <1>3, <1>4, <1>5
    <2>2. Busy(q)  BY <2>1, <1>5 DEF Busy
    <2> QED  BY <2>1, <2>2, <1>6 DEF Hands
  <1>10. \A q, r \in Workers :
       (Busy(q)' /\ Busy(r)' /\ q # r /\ proc'[q].order = proc'[r].order) =>
         \/ Polling(q)' /\ ~Polling(r)'
         \/ ~Polling(q)' /\ Polling(r)'
         \/ Polling(q)' /\ Polling(r)' /\ proc'[q].job # proc'[r].job
    <2> SUFFICES ASSUME NEW q \in Workers, NEW r \in Workers,
                        Busy(q)', Busy(r)', q # r, proc'[q].order = proc'[r].order
                 PROVE  \/ Polling(q)' /\ ~Polling(r)'
                        \/ ~Polling(q)' /\ Polling(r)'
                        \/ Polling(q)' /\ Polling(r)' /\ proc'[q].job # proc'[r].job
      OBVIOUS
    <2>1. q # p /\ r # p  BY <1>5
    <2>2. /\ Busy(q) /\ Busy(r) /\ proc'[q] = proc[q] /\ proc'[r] = proc[r]
      BY <2>1, <1>4
    <2>3. Polling(q)' = Polling(q) /\ Polling(r)' = Polling(r)  BY <2>1, <2>2, <1>6
    <2> QED  BY <2>2, <2>3 DEF Hands
  <1> QED
    BY <1>4, <1>5, <1>7, <1>8, <1>9, <1>10 DEF Hands

\* Who is not a worker disturbs no hands: an active task stays active, a taken poll stays.
LEMMA OthersHands ==
  ASSUME Hands, \A q \in Workers : proc'[q] = proc[q], UNCHANGED submitted,
         polls' \subseteq polls, \A t \in polls : Taken(t) => t \in polls',
         \A q \in Workers : OnTask(q) => genTask'[proc[q].order] = "active"
  PROVE  Hands'
  <1>1. \A q \in Workers : Polling(q)' = Polling(q)
    BY DEF Polling, Poll, Taken
  <1>2. \A q \in Workers : Busy(q)' = Busy(q) /\ OnTask(q)' = OnTask(q)
    BY <1>1 DEF Busy, OnTask
  <1>3. /\ \A t \in polls' : t[2] <= submitted'[t[1]]
        /\ \A q \in Workers : Busy(q)' => proc'[q].job <= submitted'[proc'[q].order]
    BY <1>2 DEF Hands
  <1>4. /\ \A q \in Workers : proc'[q].pc \in OnTaskPCs => ~Polling(q)'
        /\ \A q \in Workers : proc'[q].pc \in Polled => Polling(q)'
    BY <1>1 DEF Hands
  <1>5. \A q, r \in Workers :
       (Busy(q)' /\ Busy(r)' /\ q # r /\ proc'[q].order = proc'[r].order) =>
         \/ Polling(q)' /\ ~Polling(r)'
         \/ ~Polling(q)' /\ Polling(r)'
         \/ Polling(q)' /\ Polling(r)' /\ proc'[q].job # proc'[r].job
    BY <1>1, <1>2 DEF Hands
  <1> QED  BY <1>2, <1>3, <1>4, <1>5 DEF Hands

\* A worker takes a task that nobody has: it was not active.
LEMMA TakesTaskHands ==
  ASSUME Typed, Hands, NEW p \in Workers, NEW o \in Orders, TakesTask(p, o)
  PROVE  Hands'
  <1>1. p \in Procs /\ \A q \in Workers : q \in Procs  BY DEF Procs
  <1>2. /\ proc[p].pc = "idle" /\ proc'[p].pc = "lock" /\ proc'[p].order = o /\ proc'[p].job = 0
        /\ polls' = polls /\ submitted' = submitted
        /\ genTask[o] # "active" /\ genTask' = [genTask EXCEPT ![o] = "active"]
        /\ genTask \in [Orders -> TaskStates] /\ submitted[o] \in Nat
    BY DEF TakesTask, Typed, QueueOK
  <1>3. \A q \in Workers \ {p} : proc'[q] = proc[q]  BY <1>1 DEF TakesTask, Only
  <1>4. ~Busy(p) /\ Busy(p)' /\ ~Polling(p)' /\ OnTask(p)'
    BY <1>2 DEF Busy, Polling, OnTask
  <1>5. \A q \in Workers \ {p} : /\ Polling(q)' = Polling(q) /\ Busy(q)' = Busy(q)
                                 /\ OnTask(q)' = OnTask(q)
    BY <1>2, <1>3 DEF Polling, Poll, Busy, OnTask
  <1>6. \A q \in Workers \ {p} : OnTask(q) => proc[q].order # o  BY <1>2 DEF Hands
  <1>7. /\ \A t \in polls' : t[2] <= submitted'[t[1]]
        /\ \A q \in Workers : Busy(q)' => proc'[q].job <= submitted'[proc'[q].order]
    BY <1>2, <1>3, <1>5 DEF Hands
  <1>8. /\ \A q \in Workers : proc'[q].pc \in OnTaskPCs => ~Polling(q)'
        /\ \A q \in Workers : proc'[q].pc \in Polled => Polling(q)'
    BY <1>2, <1>3, <1>4, <1>5 DEF Hands, Polled
  <1>9. \A q \in Workers : OnTask(q)' => genTask'[proc'[q].order] = "active"
    <2> SUFFICES ASSUME NEW q \in Workers, OnTask(q)'
                 PROVE  genTask'[proc'[q].order] = "active"
      OBVIOUS
    <2>1. CASE q = p  BY <1>2, <2>1
    <2>2. CASE q # p
      <3>1. OnTask(q) /\ proc'[q] = proc[q] /\ proc[q].order \in Orders
        BY <1>1, <1>3, <1>5, <2>2, KnownBy DEF OnTask, Busy, Typed
      <3> QED  BY <1>2, <3>1 DEF Hands
    <2> QED  BY <2>1, <2>2
  <1>10. \A q \in Workers \ {p} : Busy(q)' /\ proc'[q].order = o => Polling(q)'
    BY <1>3, <1>5, <1>6 DEF OnTask
  <1>11. \A q, r \in Workers :
       (Busy(q)' /\ Busy(r)' /\ q # r /\ proc'[q].order = proc'[r].order) =>
         \/ Polling(q)' /\ ~Polling(r)'
         \/ ~Polling(q)' /\ Polling(r)'
         \/ Polling(q)' /\ Polling(r)' /\ proc'[q].job # proc'[r].job
    <2> SUFFICES ASSUME NEW q \in Workers, NEW r \in Workers,
                        Busy(q)', Busy(r)', q # r, proc'[q].order = proc'[r].order
                 PROVE  \/ Polling(q)' /\ ~Polling(r)'
                        \/ ~Polling(q)' /\ Polling(r)'
                        \/ Polling(q)' /\ Polling(r)' /\ proc'[q].job # proc'[r].job
      OBVIOUS
    <2>1. CASE q = p  BY <1>2, <1>4, <1>10, <2>1
    <2>2. CASE r = p  BY <1>2, <1>4, <1>10, <2>2
    <2>3. CASE q # p /\ r # p  BY <1>3, <1>5, <2>3 DEF Hands
    <2> QED  BY <2>1, <2>2, <2>3
  <1> QED  BY <1>7, <1>8, <1>9, <1>11 DEF Hands

\* A worker takes a poll that nobody has.
LEMMA TakesPollHands ==
  ASSUME Typed, Hands, NEW p \in Workers, NEW t \in polls, TakesPoll(p, t)
  PROVE  Hands'
  <1>1. p \in Procs /\ \A q \in Workers : q \in Procs  BY DEF Procs
  <1>2. /\ proc[p].pc = "idle" /\ proc'[p].pc = "fetch" /\ proc'[p].order = t[1]
        /\ proc'[p].job = t[2] /\ ~Taken(t)
        /\ polls' = polls /\ submitted' = submitted /\ genTask' = genTask
    BY DEF TakesPoll, queue
  <1>3. \A q \in Workers \ {p} : proc'[q] = proc[q]  BY <1>1 DEF TakesPoll, Only
  <1>4. t \in Orders \X (Nat \ {0}) /\ t = <<t[1], t[2]>> /\ t[2] > 0
    BY DEF Typed, QueueOK
  <1>5. Busy(p)' /\ Polling(p)' /\ ~OnTask(p)'
    BY <1>2, <1>4 DEF Busy, Polling, Poll, OnTask
  <1>6. \A q \in Workers \ {p} : /\ Polling(q)' = Polling(q) /\ Busy(q)' = Busy(q)
                                 /\ OnTask(q)' = OnTask(q)
    BY <1>2, <1>3 DEF Polling, Poll, Busy, OnTask
  <1>7. /\ \A u \in polls' : u[2] <= submitted'[u[1]]
        /\ \A q \in Workers : Busy(q)' => proc'[q].job <= submitted'[proc'[q].order]
    BY <1>2, <1>3, <1>6 DEF Hands
  <1>8. /\ \A q \in Workers : proc'[q].pc \in OnTaskPCs => ~Polling(q)'
        /\ \A q \in Workers : proc'[q].pc \in Polled => Polling(q)'
    <2>1. "fetch" \notin OnTaskPCs  BY DEF OnTaskPCs, Starting
    <2> QED  BY <1>2, <1>3, <1>5, <1>6, <2>1 DEF Hands
  <1>9. \A q \in Workers : OnTask(q)' => genTask'[proc'[q].order] = "active"
    BY <1>2, <1>3, <1>5, <1>6 DEF Hands
  <1>10. \A q \in Workers \ {p} : proc'[q].order # t[1] \/ proc'[q].job # t[2]
    BY <1>2, <1>3, <1>4 DEF Taken, Poll
  <1>11. \A q, r \in Workers :
       (Busy(q)' /\ Busy(r)' /\ q # r /\ proc'[q].order = proc'[r].order) =>
         \/ Polling(q)' /\ ~Polling(r)'
         \/ ~Polling(q)' /\ Polling(r)'
         \/ Polling(q)' /\ Polling(r)' /\ proc'[q].job # proc'[r].job
    <2> SUFFICES ASSUME NEW q \in Workers, NEW r \in Workers,
                        Busy(q)', Busy(r)', q # r, proc'[q].order = proc'[r].order
                 PROVE  \/ Polling(q)' /\ ~Polling(r)'
                        \/ ~Polling(q)' /\ Polling(r)'
                        \/ Polling(q)' /\ Polling(r)' /\ proc'[q].job # proc'[r].job
      OBVIOUS
    <2>1. CASE q = p  BY <1>2, <1>5, <1>10, <2>1
    <2>2. CASE r = p  BY <1>2, <1>5, <1>10, <2>2
    <2>3. CASE q # p /\ r # p  BY <1>3, <1>6, <2>3 DEF Hands
    <2> QED  BY <2>1, <2>2, <2>3
  <1> QED  BY <1>7, <1>8, <1>9, <1>11 DEF Hands

\* No step puts a task into two hands.
LEMMA HandsStep ==
  ASSUME Typed, Hands, [Next]_vars
  PROVE  Hands'
  <1>1. ASSUME NEW p \in Workers, Only(p), WorkerStep(p)  PROVE Hands'
    BY <1>1, GoesHands, LeavesHands, SubmitsHands, EnqueuesHands DEF WorkerStep
  <1>2. ASSUME NEW p \in Procs \ Workers, Only(p)  PROVE \A q \in Workers : proc'[q] = proc[q]
    BY <1>2 DEF Only, Procs
  <1>3. ASSUME NEW p \in Procs \ Workers, Only(p), OfficeStep(p)  PROVE Hands'
    <2>1. UNCHANGED <<polls, submitted>> /\ genTask \in [Orders -> TaskStates]
      BY <1>3 DEF OfficeStep, Typed, QueueOK
    <2>2. \A q \in Workers : OnTask(q) => genTask'[proc[q].order] = "active"
      <3> SUFFICES ASSUME NEW q \in Workers, OnTask(q)  PROVE genTask'[proc[q].order] = "active"
        OBVIOUS
      <3>1. genTask[proc[q].order] = "active"  BY DEF Hands
      <3>2. q \in Procs  BY DEF Procs
      <3>3. proc[q].order \in Orders  BY <3>2, KnownBy DEF OnTask, Busy, Typed
      <3> QED  BY <1>3, <2>1, <3>1, <3>3 DEF OfficeStep, EnqueueGenerationTask
    <2> QED  BY <1>2, <1>3, <2>1, <2>2, OthersHands
  <1>4. ASSUME NEW p \in Procs \ Workers, NEW o \in Orders, TakesUp(p, o)  PROVE Hands'
    <2>1. Only(p) /\ UNCHANGED <<polls, genTask, submitted>>  BY <1>4 DEF TakesUp, queue
    <2> QED  BY <1>2, <2>1, OthersHands DEF Hands
  <1>5. ASSUME NEW o \in Orders, DropsTask(o)  PROVE Hands'
    <2>1. \A q \in Workers : OnTask(q) => genTask'[proc[q].order] = "active"
      <3> SUFFICES ASSUME NEW q \in Workers, OnTask(q)  PROVE genTask'[proc[q].order] = "active"
        OBVIOUS
      <3>1. genTask[proc[q].order] = "active"  BY DEF Hands
      <3>2. q \in Procs  BY DEF Procs
      <3>3. proc[q].order \in Orders  BY <3>2, KnownBy DEF OnTask, Busy, Typed
      <3> QED  BY <1>5, <3>1, <3>3 DEF DropsTask, Typed, QueueOK
    <2> QED  BY <1>5, <2>1, OthersHands DEF DropsTask
  <1>6. ASSUME NEW t \in polls, DropsPoll(t)  PROVE Hands'
    BY <1>6, OthersHands DEF DropsPoll, Hands
  <1>7. ASSUME Rests  PROVE Hands'
    BY <1>7, OthersHands DEF Rests, queue, Hands
  <1> QED
    BY <1>1, <1>3, <1>4, <1>5, <1>6, <1>7, StepKinds, TakesTaskHands, TakesPollHands

\* The hands of the workers in every reachable state.
LEMMA HandsHold == Spec => [](Typed /\ Hands)
  <1>1. Init => Hands
    <2> SUFFICES ASSUME Init  PROVE Hands
      OBVIOUS
    <2>1. \A p \in Workers : proc[p] = Idle  BY DEF Init, Procs
    <2>2. "idle" \notin OnTaskPCs /\ "idle" \notin Polled  BY DEF OnTaskPCs, Starting, Polled
    <2> QED  BY <2>1, <2>2, IdleIs DEF Init, Hands, Busy, OnTask
  <1>2. Typed /\ Hands /\ [Next]_vars => Hands'  BY HandsStep
  <1> QED  BY <1>1, <1>2, TypesHold, PTL DEF Spec

-----------------------------------------------------------------------------
(* One generation of an order at a time.                                   *)

\* One pod runs the ticker and the API: the deployment the code is written for.
SoleTicker == \A c, d \in Crons : c = d
SoleAdmin == \A a, b \in Admins : a = b

PolledOrder(o) == \E t \in polls : t[1] = o
AtWork(o) == \E p \in Workers : OnTask(p) /\ proc[p].order = o
Underway(o) == PolledOrder(o) \/ AtWork(o)
Launching(o) == \E p \in Workers : At(p, "poll") /\ proc[p].order = o
Recovered(o) == \E c \in Crons : proc[c].pc \in Recovering /\ proc[c].order = o
Regenerated(o) == \E a \in Admins : At(a, "regenerate") /\ proc[a].order = o
FailedPaid(o) == row[o].generation = "failed" /\ row[o].payment = "paid"

\* An order is polled once and worked on by nobody then; who is about to put it back
\* into the queue knows that nothing is under way for it.
AloneOn(o) ==
  /\ AtWork(o) => ~PolledOrder(o)
  /\ \A t, u \in polls : (t[1] = o /\ u[1] = o) => t = u
  /\ row[o].generation = "queued" => ~PolledOrder(o) /\ ~Launching(o) /\ ~Recovered(o)
  /\ (o \in quiet /\ Running(row[o])) => ~Underway(o)
  /\ Recovered(o) => ~Underway(o)
  /\ Regenerated(o) => FailedPaid(o)
  /\ FailedPaid(o) => ~Underway(o) /\ ~Recovered(o)

Alone == \A o \in Orders : AloneOn(o)

\* An order on which nothing new begins stays alone.
LEMMA NothingNew ==
  ASSUME NEW o, AloneOn(o), row'[o] = row[o], o \in quiet' => o \in quiet,
         \A t \in polls' : t[1] = o => t \in polls,
         AtWork(o)' => AtWork(o), Launching(o)' => Launching(o),
         Recovered(o)' => Recovered(o), Regenerated(o)' => Regenerated(o)
  PROVE  AloneOn(o)'
  <1>1. PolledOrder(o)' => PolledOrder(o)  BY DEF PolledOrder
  <1>2. /\ FailedPaid(o)' = FailedPaid(o) /\ Running(row[o])' = Running(row[o])
        /\ Underway(o)' => Underway(o)
    BY <1>1 DEF FailedPaid, Running, Underway
  <1>3. \A t, u \in polls' : (t[1] = o /\ u[1] = o) => t = u  BY DEF AloneOn
  <1> QED  BY <1>1, <1>2, <1>3 DEF AloneOn

\* Nobody else is about to touch the order of a busy worker.
LEMMA BusyIsUnderway ==
  ASSUME Typed, Alone, NEW p \in Workers, Busy(p)
  PROVE  LET o == proc[p].order IN
         /\ o \in Orders /\ AloneOn(o) /\ Underway(o)
         /\ ~Recovered(o) /\ ~Regenerated(o) /\ ~FailedPaid(o)
         /\ ~(o \in quiet /\ Running(row[o]))
         /\ Polling(p) => PolledOrder(o) /\ ~AtWork(o)
         /\ ~Polling(p) => AtWork(o) /\ ~PolledOrder(o)
  <1>1. proc[p].order \in Orders  BY KnownBy DEF Typed, Busy, Procs
  <1>2. Polling(p) => PolledOrder(proc[p].order)  BY DEF Polling, Poll, PolledOrder
  <1>3. ~Polling(p) => AtWork(proc[p].order)  BY DEF AtWork, OnTask
  <1> QED  BY <1>1, <1>2, <1>3 DEF Alone, AloneOn, Underway

\* A worker leaves every other order as it is.
LEMMA ElsewhereAlone ==
  ASSUME Typed, Hands, Alone, NEW p \in Workers, Only(p), WorkerStep(p),
         NEW x \in Orders, x # proc[p].order
  PROVE  AloneOn(x)'
  <1>1. p \in Procs /\ proc[p].pc # "idle"
    BY DEF Procs, WorkerStep, Goes, Leaves, Submits, Enqueues, Starting, Polled
  <1>2. proc[p].order \in Orders /\ NoOrder \notin Orders
    BY <1>1, KnownBy, AbsentAssumption DEF Typed
  <1>3. proc'[p].order = proc[p].order \/ proc'[p] = Idle
    BY DEF WorkerStep, Goes, Leaves, Submits, Enqueues
  <1>4. proc'[p].order # x  BY <1>2, <1>3, IdleIs
  <1>5. \A q \in Workers \ {p} : proc'[q] = proc[q] /\ OnTask(q)' = OnTask(q)
    BY OthersKeep
  <1>6. \A q \in Procs \ Workers : proc'[q] = proc[q]  BY DEF Only
  <1>7. row'[x] = row[x] /\ (x \in quiet' => x \in quiet)
    <2>1. Kept \/ \E c : Saves(p, c)  BY DEF WorkerStep, Goes, Leaves, Submits, Enqueues
    <2>2. row \in [Orders -> Row]  BY DEF Typed, RowsOK
    <2> QED  BY <1>2, <2>1, <2>2 DEF Kept, Saves, SaveOrder
  <1>8. \A t \in polls' : t[1] = x => t \in polls
    BY DEF WorkerStep, Goes, Leaves, Submits, Enqueues, queue, Poll
  <1>9. AtWork(x)' => AtWork(x)  BY <1>4, <1>5 DEF AtWork
  <1>10. Launching(x)' => Launching(x)  BY <1>4, <1>5 DEF Launching, At
  <1>11. /\ Recovered(x)' => Recovered(x)
         /\ Regenerated(x)' => Regenerated(x)
    BY <1>6, RolesAssumption DEF Recovered, Regenerated, At, Procs
  <1> QED
    BY <1>7, <1>8, <1>9, <1>10, <1>11, NothingNew DEF Alone

\* What is left to show of the order of the worker itself.
LEMMA AtHomeAlone ==
  ASSUME Typed, Hands, Alone, NEW p \in Workers, Only(p), WorkerStep(p), NEW o,
         o = proc[p].order,
         AtWork(o)' => ~PolledOrder(o)',
         \A t, u \in polls' : (t[1] = o /\ u[1] = o) => t = u,
         row'[o].generation = "queued" => ~PolledOrder(o)' /\ ~Launching(o)',
         (o \in quiet' /\ Running(row'[o])) => ~Underway(o)',
         FailedPaid(o)' => ~Underway(o)'
  PROVE  Alone'
  <1>1. Busy(p)  BY DEF Busy, WorkerStep, Goes, Leaves, Submits, Enqueues, Starting, Polled
  <1>2. ~Recovered(o) /\ ~Regenerated(o)  BY <1>1, BusyIsUnderway
  <1>3. \A q \in Procs \ Workers : proc'[q] = proc[q]  BY DEF Only
  <1>4. ~Recovered(o)' /\ ~Regenerated(o)'
    BY <1>2, <1>3, RolesAssumption DEF Recovered, Regenerated, At, Procs
  <1>5. AloneOn(o)'  BY <1>4 DEF AloneOn
  <1> QED  BY <1>5, ElsewhereAlone DEF Alone

\* A worker that goes on saves its copy, which is in processing, or gives the order back
\* to the queue before it is polled.
LEMMA GoesAlone ==
  ASSUME Typed, Hands, Alone, NEW p \in Workers, Only(p), Goes(p)
  PROVE  Alone'
  <1>0. PICK o : o = proc[p].order  OBVIOUS
  <1>1. p \in Procs /\ Busy(p)  BY DEF Procs, Busy, Goes, Starting, Polled
  <1>2. /\ o \in Orders /\ AloneOn(o) /\ ~FailedPaid(o) /\ ~(o \in quiet /\ Running(row[o]))
        /\ ~Polling(p) => ~PolledOrder(o)
    BY <1>0, <1>1, BusyIsUnderway
  <1>3. /\ polls' = polls /\ proc'[p].order = o /\ proc'[p].job = proc[p].job
        /\ proc'[p].pc # "idle"
    BY <1>0 DEF Goes, queue, Starting, Polled
  <1>4. OnTask(p)' = OnTask(p)
    BY <1>0, <1>1, <1>3 DEF OnTask, Busy, Polling, Poll
  <1>5. \A q \in Workers \ {p} : proc'[q] = proc[q] /\ OnTask(q)' = OnTask(q)
    BY OthersKeep DEF WorkerStep
  <1>6. (PolledOrder(o)' <=> PolledOrder(o)) /\ (AtWork(o)' <=> AtWork(o))
    BY <1>0, <1>3, <1>4, <1>5 DEF PolledOrder, AtWork
  <1>7. proc[p].copy \in Row /\ row \in [Orders -> Row]
    BY <1>1, KnownBy DEF Typed, RowsOK, Busy
  <1>8. CASE Kept /\ proc'[p].pc # "poll"
    <2>1. row' = row /\ quiet' = quiet  BY <1>8 DEF Kept
    <2>2. Launching(o)' => Launching(o)  BY <1>0, <1>5, <1>8 DEF Launching, At
    <2>3. FailedPaid(o)' = FailedPaid(o)  BY <2>1 DEF FailedPaid
    <2> QED
      BY <1>0, <1>2, <1>3, <1>6, <2>1, <2>2, <2>3, AtHomeAlone DEF AloneOn, Underway, WorkerStep
  <1>9. CASE Saves(p, proc[p].copy) /\ proc[p].pc \in Starting \cup Polled
    <2>1. Running(proc[p].copy)
      BY <1>1, <1>9 DEF Typed, ProcsOK, GoroutineOK
    <2>2. row'[o] = proc[p].copy /\ o \notin quiet'
      BY <1>0, <1>2, <1>7, <1>9 DEF Saves, SaveOrder
    <2>3. row'[o].generation = "processing"  BY <2>1, <2>2 DEF Running
    <2>4. ~FailedPaid(o)'  BY <2>3 DEF FailedPaid
    <2> QED
      BY <1>0, <1>2, <1>3, <1>6, <2>2, <2>3, <2>4, AtHomeAlone DEF AloneOn, WorkerStep
  <1>10. CASE Saves(p, Requeued(proc[p].copy)) /\ proc[p].pc = "rollback" /\ proc'[p].pc = "dead"
    <2>1. ~Polling(p)  BY <1>10 DEF Hands, OnTaskPCs, Starting
    <2>2. Requeued(proc[p].copy).generation = "queued"  BY <1>7, CopiesAre
    <2>3. row'[o] = Requeued(proc[p].copy) /\ o \notin quiet'
      BY <1>0, <1>2, <1>7, <1>10 DEF Saves, SaveOrder
    <2>4. ~FailedPaid(o)' /\ ~PolledOrder(o)'
      BY <1>2, <1>6, <2>1, <2>2, <2>3 DEF FailedPaid
    <2>5. ~Launching(o)'
      <3> SUFFICES ASSUME NEW q \in Workers, At(q, "poll")', proc'[q].order = o  PROVE FALSE
        BY DEF Launching
      <3>1. q # p /\ proc'[q] = proc[q]  BY <1>5, <1>10 DEF At
      <3>2. Busy(q) /\ ~Polling(q)
        BY <3>1 DEF At, Busy, Hands, OnTaskPCs, Starting
      <3> QED  BY <1>0, <1>1, <2>1, <3>1, <3>2 DEF Hands
    <2> QED
      BY <1>0, <1>2, <1>3, <1>6, <2>3, <2>4, <2>5, AtHomeAlone DEF AloneOn, WorkerStep
  <1> QED
    BY <1>8, <1>9, <1>10 DEF Goes, Starting, Polled

\* A worker that leaves its task takes the last poll of a failed order along.
LEMMA LeavesAlone ==
  ASSUME Typed, Hands, Alone, NEW p \in Workers, Only(p), Leaves(p)
  PROVE  Alone'
  <1>0. PICK o : o = proc[p].order  OBVIOUS
  <1>1. p \in Procs /\ Busy(p) /\ WorkerStep(p)  BY DEF Procs, Busy, Leaves, WorkerStep
  <1>2. /\ o \in Orders /\ AloneOn(o) /\ ~FailedPaid(o) /\ ~(o \in quiet /\ Running(row[o]))
        /\ Polling(p) => ~AtWork(o)
        /\ ~Polling(p) => ~PolledOrder(o)
    BY <1>0, <1>1, BusyIsUnderway
  <1>3. /\ polls' \subseteq polls /\ proc'[p].pc = "idle"
        /\ proc[p].copy \in Row /\ row \in [Orders -> Row]
    BY <1>1, KnownBy, IdleIs DEF Leaves, Typed, RowsOK, Busy
  <1>4. ~Busy(p)' /\ ~OnTask(p)'  BY <1>3 DEF Busy, OnTask
  <1>5. \A q \in Workers \ {p} : proc'[q] = proc[q] /\ OnTask(q)' = OnTask(q)
    BY <1>1, OthersKeep
  <1>6. /\ PolledOrder(o)' => PolledOrder(o)
        /\ AtWork(o)' => AtWork(o)
        /\ Launching(o)' => Launching(o)
    BY <1>3, <1>4, <1>5 DEF PolledOrder, AtWork, Launching, At
  <1>7. AtWork(o)' => ~PolledOrder(o)'  BY <1>2, <1>6 DEF AloneOn
  <1>8. \A t, u \in polls' : (t[1] = o /\ u[1] = o) => t = u  BY <1>2, <1>3 DEF AloneOn
  <1>9. CASE Kept
    <2>1. row' = row /\ quiet' = quiet  BY <1>9 DEF Kept
    <2>2. FailedPaid(o)' = FailedPaid(o)  BY <2>1 DEF FailedPaid
    <2> QED
      BY <1>0, <1>1, <1>2, <1>6, <1>7, <1>8, <2>1, <2>2, AtHomeAlone DEF AloneOn
  <1>10. CASE proc[p].pc \in Polled /\ Saves(p, proc[p].copy)
    <2>1. Running(proc[p].copy)  BY <1>1, <1>10 DEF Typed, ProcsOK, GoroutineOK
    <2>2. row'[o] = proc[p].copy /\ o \notin quiet'
      BY <1>0, <1>2, <1>3, <1>10 DEF Saves, SaveOrder
    <2>3. row'[o].generation = "processing" /\ ~FailedPaid(o)'
      BY <2>1, <2>2 DEF Running, FailedPaid
    <2> QED
      BY <1>0, <1>1, <1>7, <1>8, <2>2, <2>3, AtHomeAlone
  <1>11. CASE proc[p].pc = "rollback" /\ Saves(p, Requeued(proc[p].copy))
    <2>1. ~Polling(p)  BY <1>11 DEF Hands, OnTaskPCs, Starting
    <2>2. Requeued(proc[p].copy).generation = "queued"  BY <1>3, CopiesAre
    <2>3. row'[o] = Requeued(proc[p].copy) /\ o \notin quiet'
      BY <1>0, <1>2, <1>3, <1>11 DEF Saves, SaveOrder
    <2>4. ~FailedPaid(o)' /\ ~PolledOrder(o)'
      BY <1>2, <1>6, <2>1, <2>2, <2>3 DEF FailedPaid
    <2>5. ~Launching(o)'
      <3> SUFFICES ASSUME NEW q \in Workers, At(q, "poll")', proc'[q].order = o  PROVE FALSE
        BY DEF Launching
      <3>1. q # p /\ proc'[q] = proc[q]  BY <1>3, <1>5 DEF At
      <3>2. Busy(q) /\ ~Polling(q)
        BY <3>1 DEF At, Busy, Hands, OnTaskPCs, Starting
      <3> QED  BY <1>0, <1>1, <2>1, <3>1, <3>2 DEF Hands
    <2> QED
      BY <1>0, <1>1, <1>7, <1>8, <2>3, <2>4, <2>5, AtHomeAlone
  <1>12. ASSUME NEW c \in Row, c.generation \in {"completed", "failed"}, Saves(p, c),
                Poll(p) \notin polls'
         PROVE  Alone'
    <2>1. row'[o] = c /\ o \notin quiet'
      BY <1>0, <1>2, <1>3, <1>12 DEF Saves, SaveOrder
    <2>2. ~PolledOrder(o)'
      <3>1. CASE Polling(p)
        <4>1. Poll(p) \in polls /\ Poll(p)[1] = o  BY <1>0, <3>1 DEF Polling, Poll
        <4> QED  BY <1>2, <1>3, <1>12, <4>1 DEF PolledOrder, AloneOn
      <3>2. CASE ~Polling(p)  BY <1>2, <1>6, <3>2
      <3> QED  BY <3>1, <3>2
    <2>3. ~AtWork(o)'
      <3>1. CASE Polling(p)  BY <1>2, <1>6, <3>1
      <3>2. CASE ~Polling(p)
        <4> SUFFICES ASSUME NEW q \in Workers, OnTask(q)', proc'[q].order = o  PROVE FALSE
          BY DEF AtWork
        <4>1. q # p /\ proc'[q] = proc[q] /\ OnTask(q)  BY <1>4, <1>5
        <4> QED  BY <1>0, <1>1, <3>2, <4>1 DEF Hands, OnTask
      <3> QED  BY <3>1, <3>2
    <2>4. row'[o].generation # "queued" /\ ~Underway(o)'
      BY <1>12, <2>1, <2>2, <2>3 DEF Underway
    <2> QED
      BY <1>0, <1>1, <1>7, <1>8, <2>4, AtHomeAlone
  <1>13. /\ Completed(proc[p].copy) \in Row /\ Completed(proc[p].copy).generation = "completed"
         /\ Failed(proc[p].copy) \in Row /\ Failed(proc[p].copy).generation = "failed"
         /\ proc[p].pc = "bury" => proc[p].copy.generation = "failed"
    BY <1>1, <1>3, CopiesAre, KnownBy DEF Busy, Typed
  <1> QED
    BY <1>3, <1>9, <1>10, <1>11, <1>12, <1>13 DEF Leaves

\* A job that was submitted changes nothing of this.
LEMMA SubmitsAlone ==
  ASSUME Typed, Hands, Alone, NEW p \in Workers, Only(p), Submits(p)
  PROVE  Alone'
  <1>0. PICK o : o = proc[p].order  OBVIOUS
  <1>1. /\ p \in Procs /\ Busy(p) /\ WorkerStep(p) /\ proc'[p].pc = "saveJob"
        /\ proc[p].pc \in OnTaskPCs
    BY DEF Procs, Busy, Submits, WorkerStep, OnTaskPCs, Starting
  <1>2. ~Polling(p)  BY <1>1 DEF Hands
  <1>3. o \in Orders /\ AloneOn(o) /\ ~FailedPaid(o) /\ AtWork(o) /\ ~PolledOrder(o)
        /\ ~(o \in quiet /\ Running(row[o]))
    BY <1>0, <1>1, <1>2, BusyIsUnderway
  <1>4. polls' = polls /\ row' = row /\ quiet' = quiet  BY DEF Submits, queue, Kept
  <1>5. ~PolledOrder(o)'  BY <1>3, <1>4 DEF PolledOrder
  <1>6. \A q \in Workers \ {p} : proc'[q] = proc[q]  BY <1>1, OthersKeep
  <1>7. Launching(o)' => Launching(o)  BY <1>1, <1>6 DEF Launching, At
  <1>8. FailedPaid(o)' = FailedPaid(o)  BY <1>4 DEF FailedPaid
  <1> QED
    BY <1>0, <1>1, <1>3, <1>4, <1>5, <1>7, <1>8, AtHomeAlone DEF AloneOn

\* The poll of an order takes the place of its only generation task.
LEMMA EnqueuesAlone ==
  ASSUME Typed, Hands, Alone, NEW p \in Workers, Only(p), Enqueues(p)
  PROVE  Alone'
  <1>0. PICK o : o = proc[p].order  OBVIOUS
  <1>1. /\ p \in Procs /\ Busy(p) /\ WorkerStep(p) /\ proc'[p].pc = "idle"
        /\ proc[p].pc \in OnTaskPCs
    BY IdleIs DEF Procs, Busy, Enqueues, WorkerStep, OnTaskPCs, Starting
  <1>2. ~Polling(p)  BY <1>1 DEF Hands
  <1>3. o \in Orders /\ AloneOn(o) /\ ~FailedPaid(o) /\ AtWork(o) /\ ~PolledOrder(o)
        /\ ~(o \in quiet /\ Running(row[o]))
    BY <1>0, <1>1, <1>2, BusyIsUnderway
  <1>4. polls' = polls \cup {Poll(p)} /\ row' = row /\ quiet' = quiet  BY DEF Enqueues, Kept
  <1>5. Launching(o)  BY <1>0 DEF Launching, At, Enqueues
  <1>6. row'[o].generation # "queued"  BY <1>3, <1>4, <1>5 DEF AloneOn
  <1>7. \A t, u \in polls' : (t[1] = o /\ u[1] = o) => t = u
    BY <1>3, <1>4 DEF PolledOrder
  <1>8. ~AtWork(o)'
    <2> SUFFICES ASSUME NEW q \in Workers, OnTask(q)', proc'[q].order = o  PROVE FALSE
      BY DEF AtWork
    <2>1. q # p  BY <1>1 DEF OnTask, Busy
    <2>2. proc'[q] = proc[q] /\ OnTask(q)  BY <1>1, <2>1, OthersKeep
    <2> QED  BY <1>0, <1>1, <1>2, <2>1, <2>2 DEF Hands, OnTask
  <1>9. ~FailedPaid(o)' /\ ~(o \in quiet' /\ Running(row'[o]))
    BY <1>3, <1>4 DEF FailedPaid
  <1> QED
    BY <1>0, <1>1, <1>6, <1>7, <1>8, <1>9, AtHomeAlone

\* The ticker and the admin put back only what nobody works on.
LEMMA OfficeAlone ==
  ASSUME SoleTicker, SoleAdmin, Typed, Hands, Alone,
         NEW p \in Procs \ Workers, Only(p), OfficeStep(p)
  PROVE  Alone'
  <1>1. \A q \in Workers : proc'[q] = proc[q]  BY DEF Only, Procs
  <1>2. polls' = polls  BY DEF OfficeStep
  <1>3. \A x : /\ PolledOrder(x)' = PolledOrder(x) /\ AtWork(x)' = AtWork(x)
               /\ Launching(x)' = Launching(x) /\ Underway(x)' = Underway(x)
    <2>1. \A q \in Workers : OnTask(q)' = OnTask(q) /\ At(q, "poll")' = At(q, "poll")
      BY <1>1, <1>2 DEF OnTask, Busy, Polling, Poll, At
    <2> QED  BY <1>1, <1>2, <2>1 DEF PolledOrder, AtWork, Launching, Underway
  <1>4. PICK o \in Orders : o = proc[p].order  BY KnownBy DEF Typed, OfficeStep
  <1>5. AloneOn(o)  BY DEF Alone
  <1>6. \A q \in Procs \ {p} : proc'[q] = proc[q]  BY DEF Only
  <1>7. row \in [Orders -> Row] /\ proc[p].copy \in Row
    BY KnownBy DEF Typed, RowsOK, OfficeStep
  <1>8. CASE Kept /\ proc'[p].pc \in {"idle", "giveBack"}
    <2> SUFFICES ASSUME NEW x \in Orders  PROVE AloneOn(x)'
      BY DEF Alone
    <2>1. row'[x] = row[x] /\ quiet' = quiet  BY <1>8 DEF Kept
    <2>2. Recovered(x)' => Recovered(x)
      BY <1>6, <1>8 DEF Recovered, Recovering, Procs
    <2>3. Regenerated(x)' => Regenerated(x)
      BY <1>6, <1>8 DEF Regenerated, At, Procs
    <2> QED  BY <1>2, <1>3, <2>1, <2>2, <2>3, NothingNew DEF Alone
  <1>9. CASE /\ Kept /\ proc[p].pc = "recover" /\ proc'[p].pc = "recoverSave"
             /\ proc'[p].order = proc[p].order
    <2> SUFFICES ASSUME NEW x \in Orders  PROVE AloneOn(x)'
      BY DEF Alone
    <2>1. row'[x] = row[x] /\ quiet' = quiet  BY <1>9 DEF Kept
    <2>2. Recovered(x)' => Recovered(x)
      BY <1>6, <1>9 DEF Recovered, Recovering, Procs
    <2>3. Regenerated(x)' => Regenerated(x)
      BY <1>6, <1>9 DEF Regenerated, At, Procs
    <2> QED  BY <1>2, <1>3, <2>1, <2>2, <2>3, NothingNew DEF Alone
  <1>10. ASSUME NEW c \in Row, Saves(p, c), proc'[p].pc \in {"idle", "releaseSlot", "requeue"}
         PROVE  /\ \A x \in Orders \ {o} : AloneOn(x)'
                /\ row'[o] = c /\ o \notin quiet'
                /\ Recovered(o)' => Recovered(o)
                /\ Regenerated(o)' => Regenerated(o)
    <2>1. /\ row'[o] = c /\ o \notin quiet' /\ quiet' \subseteq quiet
          /\ \A x \in Orders \ {o} : row'[x] = row[x]
      BY <1>4, <1>7, <1>10 DEF Saves, SaveOrder
    <2>2. \A x : /\ Recovered(x)' => Recovered(x)
                 /\ Regenerated(x)' => Regenerated(x)
      BY <1>6, <1>10 DEF Recovered, Recovering, Regenerated, At, Procs
    <2>3. ASSUME NEW x \in Orders \ {o}  PROVE AloneOn(x)'
      BY <1>2, <1>3, <2>1, <2>2, <2>3, NothingNew DEF Alone
    <2> QED  BY <2>1, <2>2, <2>3
  <1>11. CASE /\ proc[p].pc \in Recovering \cup {"regenerate"} /\ proc'[p].pc = "requeue"
              /\ Saves(p, Requeued(proc[p].copy))
    <2>1. Requeued(proc[p].copy) \in Row /\ Requeued(proc[p].copy).generation = "queued"
      BY <1>7, CopiesAre
    <2>2. /\ \A x \in Orders \ {o} : AloneOn(x)'
          /\ row'[o].generation = "queued" /\ o \notin quiet'
          /\ Recovered(o)' => Recovered(o)
          /\ Regenerated(o)' => Regenerated(o)
      BY <1>10, <1>11, <2>1
    <2>3. \/ p \in Crons /\ proc[p].pc \in Recovering
          \/ p \in Admins /\ proc[p].pc = "regenerate"
      BY <1>11, WhoWorks DEF Typed
    <2>4. ~Underway(o)
      BY <1>4, <1>5, <2>3 DEF AloneOn, Recovered, Regenerated, At
    <2>5. ~Recovered(o)' /\ ~Regenerated(o)'
      <3>1. CASE p \in Crons /\ proc[p].pc \in Recovering
        <4>1. ~Recovered(o)'  BY <1>11, <3>1 DEF Recovered, Recovering, SoleTicker
        <4>2. Recovered(o)  BY <1>4, <3>1 DEF Recovered
        <4> QED  BY <1>5, <2>2, <4>1, <4>2 DEF AloneOn
      <3>2. CASE p \in Admins /\ proc[p].pc = "regenerate"
        <4>1. ~Regenerated(o)'  BY <1>11, <3>2 DEF Regenerated, At, SoleAdmin
        <4>2. Regenerated(o)  BY <1>4, <3>2 DEF Regenerated, At
        <4> QED  BY <1>5, <2>2, <4>1, <4>2 DEF AloneOn
      <3> QED  BY <2>3, <3>1, <3>2
    <2>6. ~Launching(o)
      <3> SUFFICES ASSUME NEW q \in Workers, At(q, "poll"), proc[q].order = o  PROVE FALSE
        BY DEF Launching
      <3>1. OnTask(q)  BY DEF At, OnTask, Busy, Hands, OnTaskPCs, Starting
      <3> QED  BY <2>4, <3>1 DEF Underway, AtWork
    <2>7. AloneOn(o)'
      BY <1>3, <2>2, <2>4, <2>5, <2>6, <1>2 DEF AloneOn, Underway, FailedPaid, PolledOrder
    <2> QED  BY <2>2, <2>7 DEF Alone
  <1>12. ASSUME NEW c \in Row, c.payment = "refunded", c.generation \in {"completed", "failed"},
                Saves(p, c), proc[p].pc = "refund", proc'[p].pc \in {"idle", "releaseSlot"}
         PROVE  Alone'
    <2>1. /\ \A x \in Orders \ {o} : AloneOn(x)'
          /\ row'[o] = c /\ o \notin quiet'
          /\ Recovered(o)' => Recovered(o)
          /\ Regenerated(o)' => Regenerated(o)
      BY <1>10, <1>12
    <2>2. p \in Admins  BY <1>12, WhoWorks DEF Typed
    <2>3. ~Regenerated(o)
      BY <1>12, <2>2 DEF Regenerated, At, SoleAdmin
    <2>4. ~FailedPaid(o)' /\ row'[o].generation # "queued"
      BY <1>12, <2>1 DEF FailedPaid
    <2>5. AloneOn(o)'
      BY <1>2, <1>3, <1>5, <2>1, <2>3, <2>4 DEF AloneOn
    <2> QED  BY <2>1, <2>5 DEF Alone
  <1> QED
    BY <1>8, <1>9, <1>11, <1>12 DEF OfficeStep

\* A worker takes up a queued order, on which nothing is under way but perhaps its task.
LEMMA TakesTaskAlone ==
  ASSUME Typed, Hands, Alone, NEW p \in Workers, NEW o \in Orders, TakesTask(p, o)
  PROVE  Alone'
  <1>1. /\ proc'[p].pc = "lock" /\ proc'[p].order = o /\ polls' = polls /\ row' = row
        /\ quiet' = quiet /\ row[o].generation = "queued"
    BY DEF TakesTask, Kept
  <1>2. \A q \in Procs \ {p} : proc'[q] = proc[q]  BY DEF TakesTask, Only
  <1>3. \A q \in Workers \ {p} : proc'[q] = proc[q] /\ OnTask(q)' = OnTask(q)
    BY <1>1, <1>2 DEF OnTask, Busy, Polling, Poll, Procs
  <1>4. \A x : /\ Launching(x)' => Launching(x)
               /\ Recovered(x)' => Recovered(x)
               /\ Regenerated(x)' => Regenerated(x)
    BY <1>1, <1>2, <1>3, RolesAssumption
       DEF Launching, Recovered, Recovering, Regenerated, At, Procs
  <1>5. ASSUME NEW x \in Orders \ {o}  PROVE AloneOn(x)'
    <2>1. AtWork(x)' => AtWork(x)  BY <1>1, <1>3, <1>5 DEF AtWork
    <2> QED  BY <1>1, <1>4, <2>1, NothingNew DEF Alone
  <1>6. AloneOn(o)'
    <2>1. AloneOn(o) /\ ~PolledOrder(o) /\ ~Launching(o) /\ ~Recovered(o)
      BY <1>1 DEF Alone, AloneOn
    <2>2. ~FailedPaid(o) /\ ~Regenerated(o)  BY <1>1, <2>1 DEF FailedPaid, AloneOn
    <2>3. ~PolledOrder(o)' /\ ~FailedPaid(o)' /\ ~Running(row'[o])
      BY <1>1, <2>1, <2>2 DEF PolledOrder, FailedPaid, Running
    <2> QED  BY <1>1, <1>4, <2>1, <2>2, <2>3 DEF AloneOn
  <1> QED  BY <1>5, <1>6 DEF Alone

\* A poll in somebody's hands is as much under way as one in the queue.
LEMMA TakesPollAlone ==
  ASSUME Typed, Hands, Alone, NEW p \in Workers, NEW t \in polls, TakesPoll(p, t)
  PROVE  Alone'
  <1>1. /\ proc'[p].pc = "fetch" /\ proc'[p].order = t[1] /\ proc'[p].job = t[2]
        /\ polls' = polls /\ row' = row /\ quiet' = quiet
    BY DEF TakesPoll, queue, Kept
  <1>2. \A q \in Procs \ {p} : proc'[q] = proc[q]  BY DEF TakesPoll, Only
  <1>3. t = <<t[1], t[2]>> /\ t[2] > 0  BY DEF Typed, QueueOK
  <1>4. ~OnTask(p)'  BY <1>1, <1>3 DEF OnTask, Polling, Poll
  <1>5. \A q \in Workers \ {p} : proc'[q] = proc[q] /\ OnTask(q)' = OnTask(q)
    BY <1>1, <1>2 DEF OnTask, Busy, Polling, Poll, Procs
  <1>6. \A x : /\ AtWork(x)' => AtWork(x)
               /\ Launching(x)' => Launching(x)
               /\ Recovered(x)' => Recovered(x)
               /\ Regenerated(x)' => Regenerated(x)
    BY <1>1, <1>2, <1>4, <1>5, RolesAssumption
       DEF AtWork, Launching, Recovered, Recovering, Regenerated, At, Procs
  <1> QED  BY <1>1, <1>6, NothingNew DEF Alone

\* The ticker takes up what is quiet, the admin what has failed.
LEMMA TakesUpAlone ==
  ASSUME Typed, Hands, Alone, NEW p \in Procs \ Workers, NEW o \in Orders, TakesUp(p, o)
  PROVE  Alone'
  <1>1. proc'[p].order = o /\ polls' = polls /\ row' = row /\ quiet' = quiet
    BY DEF TakesUp, queue, Kept
  <1>2. \A q \in Procs \ {p} : proc'[q] = proc[q]  BY DEF TakesUp, Only
  <1>3. \A q \in Workers : proc'[q] = proc[q] /\ OnTask(q)' = OnTask(q)
    BY <1>1, <1>2 DEF OnTask, Busy, Polling, Poll, Procs
  <1>4. \A x : /\ PolledOrder(x)' = PolledOrder(x) /\ AtWork(x)' = AtWork(x)
               /\ Launching(x)' = Launching(x) /\ Underway(x)' = Underway(x)
               /\ FailedPaid(x)' = FailedPaid(x)
    BY <1>1, <1>3 DEF PolledOrder, AtWork, Launching, At, Underway, FailedPaid
  <1>5. ASSUME NEW x \in Orders \ {o}  PROVE AloneOn(x)'
    <2>1. Recovered(x)' => Recovered(x)  BY <1>1, <1>2, <1>5 DEF Recovered, Procs
    <2>2. Regenerated(x)' => Regenerated(x)  BY <1>1, <1>2, <1>5 DEF Regenerated, At, Procs
    <2> QED  BY <1>1, <1>4, <2>1, <2>2, NothingNew DEF Alone
  <1>6. AloneOn(o)  BY DEF Alone
  <1>7. AloneOn(o)'
    <2>1. CASE proc'[p].pc \in {"requeue", "refund"}
      <3>1. Recovered(o)' => Recovered(o)
        BY <1>2, <2>1 DEF Recovered, Recovering, Procs
      <3>2. Regenerated(o)' => Regenerated(o)
        BY <1>2, <2>1 DEF Regenerated, At, Procs
      <3> QED  BY <1>1, <1>4, <1>6, <3>1, <3>2, NothingNew
    <2>2. CASE proc'[p].pc = "recover" /\ Running(row[o]) /\ o \in quiet
      <3>1. ~Underway(o) /\ ~FailedPaid(o) /\ row[o].generation # "queued"
        BY <1>6, <2>2 DEF AloneOn, Running, FailedPaid
      <3>2. Regenerated(o)' => Regenerated(o)
        BY <1>2, <2>2 DEF Regenerated, At, Procs
      <3> QED  BY <1>1, <1>4, <1>6, <3>1, <3>2 DEF AloneOn
    <2>3. CASE proc'[p].pc = "regenerate" /\ FailedPaid(o)
      <3>1. Recovered(o)' => Recovered(o)
        BY <1>2, <2>3 DEF Recovered, Recovering, Procs
      <3> QED  BY <1>1, <1>4, <1>6, <2>3, <3>1 DEF AloneOn
    <2> QED  BY <2>1, <2>2, <2>3 DEF TakesUp, FailedPaid
  <1> QED  BY <1>5, <1>7 DEF Alone

\* Thirty minutes without an Update mean that nobody is at the order.
LEMMA QuietAlone ==
  ASSUME HeartbeatHolds, Typed, Alone, NEW o \in Orders, GoQuiet(o), Rests, UNCHANGED row
  PROVE  Alone'
  <1>1. polls' = polls /\ proc' = proc /\ row' = row /\ quiet' = quiet \cup {o}
    BY DEF GoQuiet, Rests, queue
  <1>2. \A x : /\ PolledOrder(x)' = PolledOrder(x) /\ AtWork(x)' = AtWork(x)
               /\ Launching(x)' = Launching(x) /\ Underway(x)' = Underway(x)
               /\ Recovered(x)' = Recovered(x) /\ Regenerated(x)' = Regenerated(x)
               /\ FailedPaid(x)' = FailedPaid(x)
    BY <1>1 DEF PolledOrder, AtWork, OnTask, Busy, Polling, Poll, Launching, At, Underway,
                Recovered, Regenerated, FailedPaid
  <1>3. ~PolledOrder(o)  BY DEF GoQuiet, PolledOrder
  <1>4. ~AtWork(o)  BY DEF GoQuiet, AtWork, Procs
  <1> QED  BY <1>1, <1>2, <1>3, <1>4 DEF Alone, AloneOn, Underway

\* Every step leaves the orders alone.
LEMMA AloneStep ==
  ASSUME HeartbeatHolds, SoleTicker, SoleAdmin, Typed, Hands, Alone, [Next]_vars
  PROVE  Alone'
  <1>1. ASSUME NEW p \in Workers, Only(p), WorkerStep(p)  PROVE Alone'
    BY <1>1, GoesAlone, LeavesAlone, SubmitsAlone, EnqueuesAlone DEF WorkerStep
  <1>2. ASSUME proc' = proc, Kept, polls' = polls \/ \E t : ~Taken(t) /\ polls' = polls \ {t}
        PROVE  Alone'
    <2> SUFFICES ASSUME NEW o \in Orders  PROVE AloneOn(o)'
      BY DEF Alone
    <2>1. /\ Launching(o)' => Launching(o)
          /\ Recovered(o)' => Recovered(o)
          /\ Regenerated(o)' => Regenerated(o)
      BY <1>2 DEF Launching, Recovered, Regenerated, At
    <2>2. \A q \in Workers : Polling(q)' = Polling(q)  BY <1>2 DEF Polling, Poll, Taken
    <2>3. AtWork(o)' => AtWork(o)  BY <1>2, <2>2 DEF AtWork, OnTask, Busy
    <2> QED  BY <1>2, <2>1, <2>3, NothingNew DEF Alone, Kept
  <1>3. ASSUME NEW o \in Orders, DropsTask(o)  PROVE Alone'
    BY <1>2, <1>3 DEF DropsTask
  <1>4. ASSUME NEW t \in polls, DropsPoll(t)  PROVE Alone'
    BY <1>2, <1>4 DEF DropsPoll
  <1>5. ASSUME Rests, Kept  PROVE Alone'
    BY <1>2, <1>5 DEF Rests, queue
  <1>6. ASSUME NEW p \in Procs \ Workers, Only(p), OfficeStep(p)  PROVE Alone'
    BY <1>6, OfficeAlone
  <1>7. ASSUME NEW o \in Orders, GoQuiet(o), Rests, UNCHANGED row  PROVE Alone'
    BY <1>7, QuietAlone
  <1> QED
    BY <1>1, <1>3, <1>4, <1>5, <1>6, <1>7, StepKinds, TakesTaskAlone, TakesPollAlone,
       TakesUpAlone

\* Every reachable state of a deployment with one ticker and one admin.
LEMMA AloneHolds ==
  ASSUME HeartbeatHolds, SoleTicker, SoleAdmin
  PROVE  Spec => [](Typed /\ Hands /\ Alone)
  <1>1. Init => Alone
    <2> SUFFICES ASSUME Init  PROVE Alone
      OBVIOUS
    <2>1. \A p \in Procs : proc[p] = Idle  BY DEF Init
    <2>2. polls = {} /\ quiet = {} /\ \A o \in Orders : row[o].generation = "queued"
      BY DEF Init, Fresh
    <2> QED
      BY <2>1, <2>2, IdleIs
         DEF Alone, AloneOn, AtWork, OnTask, Busy, PolledOrder, Underway, Launching, Recovered,
             Recovering, Regenerated, At, FailedPaid, Procs
  <1>2. Typed /\ Hands /\ Alone /\ [Next]_vars => Alone'  BY AloneStep
  <1> QED  BY <1>1, <1>2, HandsHold, PTL DEF Spec

\* A set whose members are all the same has at most one.
LEMMA AtMostOne ==
  ASSUME NEW S, \A x, y \in S : x = y
  PROVE  Cardinality(S) \in {0, 1} /\ (S = {} => Cardinality(S) = 0)
  <1>1. CASE S = {}  BY <1>1, FS_EmptySet
  <1>2. CASE S # {}
    <2>1. PICK x : x \in S  BY <1>2
    <2>2. S = {x}  BY <2>1
    <2> QED  BY <2>2, FS_Singleton
  <1> QED  BY <1>1, <1>2

\* With one recovery ticker, one admin at a time and a heartbeat that holds, the code works
\* on one generation of an order at a time: there is one poll of it or one worker in
\* ProcessGenerationTask that submits it, never two of them.
THEOREM OneGenerationAtATime ==
  ASSUME HeartbeatHolds, SoleTicker, SoleAdmin
  PROVE  Spec => []OneGeneration
  <1>1. Typed /\ Hands /\ Alone => OneGeneration
    <2> SUFFICES ASSUME Typed, Hands, Alone, NEW o \in Orders
                 PROVE  Cardinality({t \in polls : t[1] = o}) + Cardinality(Generating(o)) <= 1
      BY DEF OneGeneration
    <2> DEFINE T == {t \in polls : t[1] = o}
    <2>1. \A p \in Generating(o) : p \in Workers /\ proc[p].order = o /\ OnTask(p)
      BY DEF Generating, OnTask, Busy, Hands, OnTaskPCs, Starting
    <2>2. \A p, q \in Generating(o) : p = q  BY <2>1 DEF Hands, OnTask
    <2>3. \A t, u \in T : t = u  BY DEF Alone, AloneOn
    <2>4. Generating(o) # {} => T = {}
      BY <2>1 DEF Alone, AloneOn, AtWork, PolledOrder
    <2> HIDE DEF T
    <2>5. /\ Cardinality(Generating(o)) \in {0, 1} /\ Cardinality(T) \in {0, 1}
          /\ Generating(o) = {} => Cardinality(Generating(o)) = 0
          /\ T = {} => Cardinality(T) = 0
      BY <2>2, <2>3, AtMostOne
    <2>6. Cardinality(T) + Cardinality(Generating(o)) <= 1  BY <2>4, <2>5
    <2> QED  BY <2>6 DEF T
  <1> QED  BY <1>1, AloneHolds, PTL

-----------------------------------------------------------------------------
(* The song of an order, once.                                             *)

\* While no admin interferes, whoever works on an order sees it in its copy.
AsCopied == (Starting \ {"start"}) \cup Polled
Undone(r) == r.generation \in {"queued", "processing"}

Sees(g, r) ==
  /\ g.pc \in {"lock", "start"} => r.generation = "queued"
  /\ g.pc \in AsCopied \cup Recovering => r = g.copy
  /\ g.pc = "dead" => Undone(r)
  /\ g.pc = "bury" => Undone(r) /\ g.copy = Failed(r) /\ g.account = r.assigned

DeliveredOn(o) ==
  delivered[o] \in {0, 1} /\ (delivered[o] = 1 <=> row[o].generation = "completed")

ServedOn(o) ==
  /\ row[o].generation = "queued" => row[o].assigned = NoAccount
  /\ PolledOrder(o) => Running(row[o])
  /\ \A q \in Procs : proc[q].order = o => Sees(proc[q], row[o])
  /\ DeliveredOn(o)

Served == \A o \in Orders : ServedOn(o)

\* The worker of an order is the only one.
LEMMA SoleWorker ==
  ASSUME Typed, Hands, Alone, NEW p \in Workers, NEW q \in Workers, Busy(p), Busy(q),
         proc[p].order = proc[q].order
  PROVE  p = q
  <1> SUFFICES ASSUME p # q  PROVE FALSE
    OBVIOUS
  <1>1. /\ Polling(p) => PolledOrder(proc[p].order) /\ ~AtWork(proc[p].order)
        /\ ~Polling(p) => AtWork(proc[p].order) /\ ~PolledOrder(proc[p].order)
        /\ Polling(q) => PolledOrder(proc[p].order) /\ ~AtWork(proc[p].order)
        /\ ~Polling(q) => AtWork(proc[p].order) /\ ~PolledOrder(proc[p].order)
        /\ proc[p].order \in Orders
    BY BusyIsUnderway
  <1>2. Polling(p) /\ Polling(q) /\ proc[p].job # proc[q].job  BY <1>1 DEF Hands
  <1>3. Poll(p) \in polls /\ Poll(q) \in polls  BY <1>2 DEF Polling
  <1>4. Poll(p) = Poll(q)  BY <1>1, <1>3 DEF Alone, AloneOn, Poll
  <1> QED  BY <1>2, <1>4 DEF Poll

\* An idle goroutine sees nothing it could be wrong about, nor one that only enqueues.
LEMMA SeesNothing ==
  ASSUME NEW g, NEW r, g.pc \in {"idle", "requeue"}
  PROVE  Sees(g, r)
  BY DEF Sees, AsCopied, Starting, Polled, Recovering

\* An order on which nothing is done stays served.
LEMMA NothingDone ==
  ASSUME NEW o \in Orders, ServedOn(o), row'[o] = row[o], delivered'[o] = delivered[o],
         PolledOrder(o)' => PolledOrder(o),
         \A q \in Procs : proc'[q].order = o => proc'[q] = proc[q] \/ Sees(proc'[q], row[o])
  PROVE  ServedOn(o)'
  <1>1. \A q \in Procs : proc'[q].order = o => Sees(proc'[q], row'[o])  BY DEF ServedOn
  <1>2. Running(row'[o]) = Running(row[o])  BY DEF Running
  <1> QED  BY <1>1, <1>2 DEF ServedOn, DeliveredOn

\* What is left to show when a worker takes a step on its order.
LEMMA ServedAtHome ==
  ASSUME Admins = {}, Typed, Hands, Alone, Served, NEW p \in Workers, Only(p), WorkerStep(p),
         NEW o, o = proc[p].order,
         row'[o].generation = "queued" => row'[o].assigned = NoAccount,
         PolledOrder(o)' => Running(row'[o]),
         Sees(proc'[p], row'[o]),
         DeliveredOn(o)'
  PROVE  Served'
  <1>1. Busy(p) /\ p \in Procs
    BY DEF Procs, Busy, WorkerStep, Goes, Leaves, Submits, Enqueues, Starting, Polled
  <1>2. o \in Orders /\ ~Recovered(o)  BY <1>1, BusyIsUnderway
  <1>3. \A q \in Procs \ {p} : proc'[q] = proc[q]  BY DEF Only
  <1>4. ASSUME NEW x \in Orders \ {o}  PROVE ServedOn(x)'
    <2>1. Kept \/ \E c : Saves(p, c)  BY DEF WorkerStep, Goes, Leaves, Submits, Enqueues
    <2>2. row \in [Orders -> Row] /\ delivered \in [Orders -> Nat] /\ NoOrder \notin Orders
      BY AbsentAssumption DEF Typed, RowsOK, HistoryOK
    <2>3. row'[x] = row[x]  BY <1>2, <2>1, <2>2 DEF Kept, Saves, SaveOrder
    <2>4. delivered'[x] = delivered[x]
      BY <1>2, <2>2 DEF WorkerStep, Goes, Leaves, Submits, Enqueues, Deliver
    <2>5. PolledOrder(x)' => PolledOrder(x)
      BY DEF WorkerStep, Goes, Leaves, Submits, Enqueues, queue, Poll, PolledOrder
    <2>6. proc'[p].order # x
      BY <2>2, IdleIs DEF WorkerStep, Goes, Leaves, Submits, Enqueues
    <2> QED  BY <1>3, <2>3, <2>4, <2>5, <2>6, NothingDone DEF Served
  <1>5. ServedOn(o)'
    <2>1. ASSUME NEW q \in Procs, proc'[q].order = o  PROVE Sees(proc'[q], row'[o])
      <3>1. CASE q = p  BY <3>1
      <3>2. CASE q # p /\ q \in Workers
        <4>1. proc'[q] = proc[q] /\ proc[q].pc = "idle"
          BY <1>1, <1>3, <2>1, <3>2, SoleWorker DEF Busy
        <4> QED  BY <4>1, SeesNothing
      <3>3. CASE q # p /\ q \notin Workers
        <4>1. q \in Crons /\ proc'[q] = proc[q]  BY <1>3, <3>3 DEF Procs
        <4>2. proc[q].pc \notin Recovering  BY <1>2, <2>1, <4>1 DEF Recovered
        <4>3. proc[q].pc \in {"idle", "requeue"}
          BY <4>1, <4>2, WhoWorks DEF Typed, ProcsOK, TickerPCs
        <4> QED  BY <4>1, <4>3, SeesNothing
      <3> QED  BY <3>1, <3>2, <3>3
    <2> QED  BY <2>1 DEF ServedOn
  <1> QED  BY <1>4, <1>5 DEF Served

\* A worker that goes on sees what it has saved.
LEMMA GoesServed ==
  ASSUME Admins = {}, Typed, Hands, Alone, Served, NEW p \in Workers, Only(p), Goes(p)
  PROVE  Served'
  <1>0. PICK o : o = proc[p].order  OBVIOUS
  <1>1. Busy(p) /\ p \in Procs /\ WorkerStep(p)
    BY DEF Procs, Busy, Goes, Starting, Polled, WorkerStep
  <1>2. o \in Orders /\ (~Polling(p) => ~PolledOrder(o))  BY <1>0, <1>1, BusyIsUnderway
  <1>3. ServedOn(o) /\ Sees(proc[p], row[o])  BY <1>0, <1>1, <1>2 DEF Served, ServedOn
  <1>4. /\ polls' = polls /\ delivered' = delivered
        /\ proc[p].copy \in Row /\ row \in [Orders -> Row]
        /\ proc[p].pc \in Starting \cup Polled => proc[p].copy.generation = "processing"
    BY <1>1, KnownBy DEF Goes, queue, Typed, RowsOK, Busy, Running
  <1>5. PolledOrder(o)' = PolledOrder(o)  BY <1>4 DEF PolledOrder
  <1>6. CASE Kept /\ ~(Saves(p, proc[p].copy) /\ proc[p].pc \in Starting \cup Polled)
    <2>1. row' = row  BY <1>6 DEF Kept
    <2>2. DeliveredOn(o)'  BY <1>3, <1>4, <2>1 DEF ServedOn, DeliveredOn
    <2>3. Sees(proc'[p], row'[o])
      <3>1. CASE proc[p].pc = "lock" /\ proc'[p].pc = "start"
        BY <1>3, <2>1, <3>1 DEF Sees, AsCopied, Starting, Polled, Recovering
      <3>2. CASE /\ proc[p].pc \in AsCopied /\ proc'[p].pc \in AsCopied
                 /\ proc'[p].copy = proc[p].copy
        BY <1>3, <2>1, <3>2 DEF Sees, AsCopied, Starting, Polled, Recovering
      <3>3. CASE proc[p].pc \in Starting \cup Polled /\ proc'[p].pc = "dead"
        <4>1. Undone(row[o])
          BY <1>3, <1>4, <3>3 DEF Sees, AsCopied, Undone
        <4> QED  BY <2>1, <3>3, <4>1 DEF Sees, AsCopied, Starting, Polled, Recovering
      <3>4. CASE /\ proc[p].pc = "dead" /\ proc'[p].pc = "bury"
                 /\ proc'[p].copy = Failed(row[o]) /\ proc'[p].account = row[o].assigned
        BY <1>3, <2>1, <3>4 DEF Sees, AsCopied, Starting, Polled, Recovering
      <3>5. \/ proc[p].pc = "lock" /\ proc'[p].pc = "start"
            \/ /\ proc[p].pc \in AsCopied /\ proc'[p].pc \in AsCopied
               /\ proc'[p].copy = proc[p].copy
            \/ proc[p].pc \in Starting \cup Polled /\ proc'[p].pc = "dead"
            \/ /\ proc[p].pc = "dead" /\ proc'[p].pc = "bury"
               /\ proc'[p].copy = Failed(row[o]) /\ proc'[p].account = row[o].assigned
        BY <1>0, <1>6 DEF Goes, AsCopied, Starting, Polled
      <3> QED  BY <3>1, <3>2, <3>3, <3>4, <3>5
    <2>4. Running(row'[o]) = Running(row[o])  BY <2>1
    <2> QED
      BY <1>0, <1>1, <1>3, <1>5, <2>1, <2>2, <2>3, <2>4, ServedAtHome DEF ServedOn
  <1>7. CASE Saves(p, proc[p].copy) /\ proc[p].pc \in Starting \cup Polled
    <2>1. row'[o] = proc[p].copy  BY <1>0, <1>2, <1>4, <1>7 DEF Saves, SaveOrder
    <2>2. row[o].generation \in {"queued", "processing"}
      BY <1>3, <1>4, <1>7 DEF Sees, AsCopied
    <2>3. DeliveredOn(o)'
      BY <1>3, <1>4, <1>7, <2>1, <2>2 DEF ServedOn, DeliveredOn
    <2>4. Sees(proc'[p], row'[o])
      <3>1. \/ proc'[p].pc \in AsCopied /\ proc'[p].copy = proc[p].copy
            \/ proc'[p].pc = "dead"
        BY <1>7 DEF Goes, AsCopied, Starting, Polled
      <3> QED  BY <1>4, <1>7, <2>1, <3>1
                 DEF Sees, AsCopied, Starting, Polled, Recovering, Undone
    <2>5. Running(row'[o]) /\ row'[o].generation # "queued"  BY <1>4, <1>7, <2>1 DEF Running
    <2> QED  BY <1>0, <1>1, <2>3, <2>4, <2>5, ServedAtHome
  <1>8. CASE proc[p].pc = "rollback" /\ proc'[p].pc = "dead" /\ Saves(p, Requeued(proc[p].copy))
    <2>1. ~Polling(p)  BY <1>8 DEF Hands, OnTaskPCs, Starting
    <2>2. /\ Requeued(proc[p].copy).generation = "queued"
          /\ Requeued(proc[p].copy).assigned = NoAccount
      BY <1>4, CopiesAre
    <2>3. row'[o] = Requeued(proc[p].copy)  BY <1>0, <1>2, <1>4, <1>8 DEF Saves, SaveOrder
    <2>4. row[o].generation = "processing"
      BY <1>3, <1>4, <1>8 DEF Sees, AsCopied, Starting
    <2>5. DeliveredOn(o)'  BY <1>3, <1>4, <2>2, <2>3, <2>4 DEF ServedOn, DeliveredOn
    <2>6. Sees(proc'[p], row'[o])
      BY <1>8, <2>2, <2>3 DEF Sees, AsCopied, Starting, Polled, Recovering, Undone
    <2> QED  BY <1>0, <1>1, <1>2, <1>5, <2>1, <2>2, <2>3, <2>5, <2>6, ServedAtHome
  <1> QED  BY <1>6, <1>7, <1>8 DEF Goes, Starting, Polled

\* A worker that leaves has saved the outcome with the last poll gone, or nothing.
LEMMA LeavesServed ==
  ASSUME Admins = {}, Typed, Hands, Alone, Served, NEW p \in Workers, Only(p), Leaves(p)
  PROVE  Served'
  <1>0. PICK o : o = proc[p].order  OBVIOUS
  <1>1. Busy(p) /\ p \in Procs /\ WorkerStep(p)  BY DEF Procs, Busy, Leaves, WorkerStep
  <1>2. o \in Orders /\ (~Polling(p) => ~PolledOrder(o)) /\ AloneOn(o)
    BY <1>0, <1>1, BusyIsUnderway
  <1>3. ServedOn(o) /\ Sees(proc[p], row[o])  BY <1>0, <1>1, <1>2 DEF Served, ServedOn
  <1>4. /\ polls' \subseteq polls /\ proc'[p].pc = "idle"
        /\ proc[p].copy \in Row /\ row \in [Orders -> Row] /\ delivered \in [Orders -> Nat]
        /\ proc[p].pc \in Starting \cup Polled => proc[p].copy.generation = "processing"
        /\ proc[p].pc = "bury" => proc[p].copy.generation = "failed"
    BY <1>1, KnownBy, IdleIs DEF Leaves, Typed, RowsOK, HistoryOK, Busy, Running
  <1>5. PolledOrder(o)' => PolledOrder(o)  BY <1>4 DEF PolledOrder
  <1>6. Sees(proc'[p], row'[o])  BY <1>4, SeesNothing
  <1>7. CASE Kept /\ UNCHANGED delivered
    <2>1. row' = row /\ Running(row'[o]) = Running(row[o])  BY <1>7 DEF Kept
    <2>2. DeliveredOn(o)'  BY <1>3, <1>7, <2>1 DEF ServedOn, DeliveredOn
    <2> QED  BY <1>0, <1>1, <1>3, <1>5, <1>6, <2>1, <2>2, ServedAtHome DEF ServedOn
  <1>8. CASE proc[p].pc \in Polled /\ Saves(p, proc[p].copy) /\ UNCHANGED delivered
    <2>1. row'[o] = proc[p].copy  BY <1>0, <1>2, <1>4, <1>8 DEF Saves, SaveOrder
    <2>2. row[o] = proc[p].copy  BY <1>3, <1>8 DEF Sees, AsCopied
    <2>3. DeliveredOn(o)'  BY <1>3, <1>8, <2>1, <2>2 DEF ServedOn, DeliveredOn
    <2>4. Running(row'[o]) /\ row'[o].generation # "queued"  BY <1>4, <1>8, <2>1 DEF Running
    <2> QED  BY <1>0, <1>1, <1>6, <2>3, <2>4, ServedAtHome
  <1>9. CASE /\ proc[p].pc = "rollback" /\ Saves(p, Requeued(proc[p].copy))
             /\ UNCHANGED delivered
    <2>1. ~Polling(p)  BY <1>9 DEF Hands, OnTaskPCs, Starting
    <2>2. /\ Requeued(proc[p].copy).generation = "queued"
          /\ Requeued(proc[p].copy).assigned = NoAccount
      BY <1>4, CopiesAre
    <2>3. row'[o] = Requeued(proc[p].copy)  BY <1>0, <1>2, <1>4, <1>9 DEF Saves, SaveOrder
    <2>4. row[o].generation = "processing"  BY <1>3, <1>4, <1>9 DEF Sees, AsCopied, Starting
    <2>5. DeliveredOn(o)'  BY <1>3, <1>9, <2>2, <2>3, <2>4 DEF ServedOn, DeliveredOn
    <2> QED  BY <1>0, <1>1, <1>2, <1>5, <1>6, <2>1, <2>2, <2>3, <2>5, ServedAtHome
  <1>10. ASSUME Poll(p) \notin polls'  PROVE ~PolledOrder(o)'
    <2>1. CASE Polling(p)
      <3>1. Poll(p) \in polls /\ Poll(p)[1] = o  BY <1>0, <2>1 DEF Polling, Poll
      <3> QED  BY <1>2, <1>4, <1>10, <3>1 DEF PolledOrder, AloneOn
    <2>2. CASE ~Polling(p)  BY <1>2, <1>5, <2>2
    <2> QED  BY <2>1, <2>2
  <1>11. ASSUME NEW c \in Row, c.generation = "failed", Saves(p, c), UNCHANGED delivered,
                proc[p].pc \in {"fail", "bury"}, Poll(p) \notin polls'
         PROVE  Served'
    <2>1. row'[o] = c  BY <1>0, <1>2, <1>4, <1>11 DEF Saves, SaveOrder
    <2>2. row[o].generation \in {"queued", "processing"}
      BY <1>3, <1>4, <1>11 DEF Sees, AsCopied, Polled, Undone
    <2>3. DeliveredOn(o)'  BY <1>3, <1>11, <2>1, <2>2 DEF ServedOn, DeliveredOn
    <2> QED  BY <1>0, <1>1, <1>6, <1>10, <1>11, <2>1, <2>3, ServedAtHome
  <1>12. CASE /\ Poll(p) \notin polls' /\ proc[p].pc = "complete"
              /\ Saves(p, Completed(proc[p].copy)) /\ Deliver(p)
    <2>1. Completed(proc[p].copy).generation = "completed"  BY <1>4, CopiesAre
    <2>2. row'[o] = Completed(proc[p].copy)  BY <1>0, <1>2, <1>4, <1>12 DEF Saves, SaveOrder
    <2>3. row[o].generation = "processing"  BY <1>3, <1>4, <1>12 DEF Sees, AsCopied, Polled
    <2>4. delivered[o] = 0  BY <1>3, <2>3 DEF ServedOn, DeliveredOn
    <2>5. delivered'[o] = 1
      BY <1>0, <1>2, <1>4, <1>12, <2>4 DEF Deliver, Bump
    <2>6. DeliveredOn(o)'  BY <2>1, <2>2, <2>5 DEF DeliveredOn
    <2> QED  BY <1>0, <1>1, <1>6, <1>10, <1>12, <2>1, <2>2, <2>6, ServedAtHome
  <1>13. Failed(proc[p].copy) \in Row /\ Failed(proc[p].copy).generation = "failed"
    BY <1>4, CopiesAre
  <1> QED
    BY <1>4, <1>7, <1>8, <1>9, <1>11, <1>12, <1>13 DEF Leaves

\* A job that is submitted or polled is that of an order in processing.
LEMMA LaunchesServed ==
  ASSUME Admins = {}, Typed, Hands, Alone, Served, NEW p \in Workers, Only(p),
         Submits(p) \/ Enqueues(p)
  PROVE  Served'
  <1>0. PICK o : o = proc[p].order  OBVIOUS
  <1>1. Busy(p) /\ p \in Procs /\ WorkerStep(p)
    BY DEF Procs, Busy, Submits, Enqueues, WorkerStep
  <1>2. o \in Orders  BY <1>0, <1>1, BusyIsUnderway
  <1>3. ServedOn(o) /\ Sees(proc[p], row[o])  BY <1>0, <1>1, <1>2 DEF Served, ServedOn
  <1>4. row' = row /\ delivered' = delivered /\ proc[p].pc \in {"submit", "poll"}
    BY DEF Submits, Enqueues, Kept
  <1>5. row[o] = proc[p].copy /\ Running(proc[p].copy)
    BY <1>1, <1>3, <1>4, KnownBy DEF Sees, AsCopied, Starting, Typed, Busy
  <1>6. Running(row'[o]) /\ row'[o].generation # "queued"  BY <1>4, <1>5 DEF Running
  <1>7. DeliveredOn(o)'  BY <1>3, <1>4 DEF ServedOn, DeliveredOn
  <1>8. Sees(proc'[p], row'[o])
    <2>1. CASE Submits(p)
      BY <1>4, <1>5, <2>1 DEF Submits, Sees, AsCopied, Starting, Polled, Recovering
    <2>2. CASE Enqueues(p)  BY <2>2, SeesNothing, IdleIs DEF Enqueues
    <2> QED  BY <2>1, <2>2
  <1> QED  BY <1>0, <1>1, <1>6, <1>7, <1>8, ServedAtHome

\* The ticker puts back an order that nobody else has.
LEMMA OfficeServed ==
  ASSUME SoleTicker, Admins = {}, Typed, Hands, Alone, Served,
         NEW p \in Procs \ Workers, Only(p), OfficeStep(p)
  PROVE  Served'
  <1>0. PICK o \in Orders : o = proc[p].order  BY KnownBy DEF Typed, OfficeStep
  <1>1. p \in Crons /\ \A q \in Procs \ {p} : proc'[q] = proc[q]  BY DEF Procs, Only
  <1>2. polls' = polls /\ delivered' = delivered  BY DEF OfficeStep
  <1>3. \A x : PolledOrder(x)' => PolledOrder(x)  BY <1>2 DEF PolledOrder
  <1>4. proc[p].pc \in {"requeue", "recover", "recoverSave"}
    BY <1>1, WhoWorks DEF Typed, ProcsOK, TickerPCs, Recovering, OfficeStep
  <1>5. /\ row \in [Orders -> Row] /\ proc[p].copy \in Row
        /\ proc[p].pc \in Recovering => Running(proc[p].copy)
    BY KnownBy DEF Typed, RowsOK, OfficeStep
  <1>6. CASE Kept
    <2>1. row' = row  BY <1>6 DEF Kept
    <2>2. proc'[p].order = o => Sees(proc'[p], row[o])
      <3>1. CASE proc'[p].pc \in {"idle", "requeue"}  BY <3>1, SeesNothing
      <3>2. CASE proc[p].pc = "recover" /\ proc'[p].pc = "recoverSave"
                 /\ proc'[p].copy = proc[p].copy
        <4>1. row[o] = proc[p].copy
          BY <1>0, <3>2 DEF Served, ServedOn, Sees, Recovering
        <4> QED  BY <3>2, <4>1 DEF Sees, AsCopied, Starting, Polled, Recovering
      <3> QED  BY <1>4, <3>1, <3>2 DEF OfficeStep
    <2>3. proc'[p].order = o \/ proc'[p].pc \in {"idle", "requeue"}
      BY <1>0, <1>4 DEF OfficeStep
    <2>4. \A x \in Orders, q \in Procs :
            proc'[q].order = x => proc'[q] = proc[q] \/ Sees(proc'[q], row[x])
      BY <1>1, <2>2, <2>3, SeesNothing
    <2> QED  BY <1>2, <1>3, <2>1, <2>4, NothingDone DEF Served
  <1>7. CASE /\ proc[p].pc \in Recovering /\ proc'[p].pc = "requeue"
             /\ Saves(p, Requeued(proc[p].copy))
    <2>1. /\ Requeued(proc[p].copy).generation = "queued"
          /\ Requeued(proc[p].copy).assigned = NoAccount
      BY <1>5, CopiesAre
    <2>2. row'[o] = Requeued(proc[p].copy) /\ \A x \in Orders \ {o} : row'[x] = row[x]
      BY <1>0, <1>5, <1>7 DEF Saves, SaveOrder
    <2>3. row[o] = proc[p].copy /\ row[o].generation = "processing"
      BY <1>0, <1>5, <1>7 DEF Served, ServedOn, Sees, Running
    <2>4. Recovered(o)  BY <1>0, <1>1, <1>7 DEF Recovered
    <2>5. ~Underway(o)  BY <2>4 DEF Alone, AloneOn
    <2>6. ASSUME NEW x \in Orders \ {o}  PROVE ServedOn(x)'
      BY <1>1, <1>2, <1>3, <1>7, <2>2, SeesNothing, NothingDone DEF Served
    <2>7. ServedOn(o)'
      <3>1. ASSUME NEW q \in Procs, proc'[q].order = o  PROVE Sees(proc'[q], row'[o])
        <4>1. proc'[q].pc \in {"idle", "requeue"}
          <5>1. CASE q = p  BY <1>7, <5>1
          <5>2. CASE q # p
            <6>1. proc'[q] = proc[q] /\ q \in Workers  BY <1>1, <5>2 DEF SoleTicker, Procs
            <6>2. ~Busy(q)  BY <2>5, <3>1, <6>1, BusyIsUnderway
            <6> QED  BY <6>1, <6>2 DEF Busy
          <5> QED  BY <5>1, <5>2
        <4> QED  BY <4>1, SeesNothing
      <3>2. ~PolledOrder(o)'  BY <1>3, <2>5 DEF Underway
      <3>3. DeliveredOn(o)'
        BY <1>2, <2>1, <2>2, <2>3 DEF Served, ServedOn, DeliveredOn
      <3> QED  BY <2>1, <2>2, <3>1, <3>2, <3>3 DEF ServedOn
    <2> QED  BY <2>6, <2>7 DEF Served
  <1> QED  BY <1>4, <1>6, <1>7 DEF OfficeStep, Recovering

\* Every step serves.
LEMMA ServedStep ==
  ASSUME HeartbeatHolds, SoleTicker, Admins = {}, Typed, Hands, Alone, Served, [Next]_vars
  PROVE  Served'
  <1>1. ASSUME NEW p \in Workers, Only(p), WorkerStep(p)  PROVE Served'
    BY <1>1, GoesServed, LeavesServed, LaunchesServed DEF WorkerStep
  <1>2. ASSUME NEW p \in Procs \ Workers, Only(p), OfficeStep(p)  PROVE Served'
    BY <1>2, OfficeServed
  <1>3. ASSUME NEW p \in Workers, NEW o \in Orders, TakesTask(p, o)  PROVE Served'
    <2>1. /\ \A q \in Procs \ {p} : proc'[q] = proc[q]
          /\ polls' = polls /\ delivered' = delivered /\ row' = row
          /\ proc'[p].pc = "lock" /\ proc'[p].order = o /\ row[o].generation = "queued"
      BY <1>3 DEF TakesTask, Only, Kept
    <2>2. Sees(proc'[p], row[o])
      BY <2>1 DEF Sees, AsCopied, Starting, Polled, Recovering
    <2>3. \A x : PolledOrder(x)' => PolledOrder(x)  BY <2>1 DEF PolledOrder
    <2> QED  BY <2>1, <2>2, <2>3, NothingDone DEF Served
  <1>4. ASSUME NEW p \in Workers, NEW t \in polls, TakesPoll(p, t)  PROVE Served'
    <2>1. /\ \A q \in Procs \ {p} : proc'[q] = proc[q]
          /\ polls' = polls /\ delivered' = delivered /\ row' = row
          /\ proc'[p].pc = "fetch" /\ proc'[p].order = t[1] /\ proc'[p].copy = row[t[1]]
      BY <1>4 DEF TakesPoll, Only, Kept, queue
    <2>2. Sees(proc'[p], row[t[1]])
      BY <2>1 DEF Sees, AsCopied, Starting, Polled, Recovering
    <2>3. \A x : PolledOrder(x)' => PolledOrder(x)  BY <2>1 DEF PolledOrder
    <2> QED  BY <2>1, <2>2, <2>3, NothingDone DEF Served
  <1>5. ASSUME NEW p \in Procs \ Workers, NEW o \in Orders, TakesUp(p, o)  PROVE Served'
    <2>1. /\ \A q \in Procs \ {p} : proc'[q] = proc[q]
          /\ polls' = polls /\ delivered' = delivered /\ row' = row
          /\ proc'[p].order = o /\ proc'[p].copy = row[o]
          /\ proc'[p].pc \in {"requeue", "refund", "recover"}
      BY <1>5 DEF TakesUp, Only, Kept, queue
    <2>2. Sees(proc'[p], row[o])
      BY <2>1 DEF Sees, AsCopied, Starting, Polled, Recovering
    <2>3. \A x : PolledOrder(x)' => PolledOrder(x)  BY <2>1 DEF PolledOrder
    <2> QED  BY <2>1, <2>2, <2>3, NothingDone DEF Served
  <1>6. ASSUME proc' = proc, polls' \subseteq polls, UNCHANGED <<row, delivered>>
        PROVE  Served'
    <2>1. \A x : PolledOrder(x)' => PolledOrder(x)  BY <1>6 DEF PolledOrder
    <2> QED  BY <1>6, <2>1, NothingDone DEF Served
  <1>7. ASSUME \/ \E o \in Orders : DropsTask(o)
               \/ \E t \in polls : DropsPoll(t)
               \/ \E o \in Orders : GoQuiet(o) /\ Rests /\ UNCHANGED row
               \/ Rests /\ Kept
        PROVE  Served'
    BY <1>6, <1>7 DEF DropsTask, DropsPoll, Rests, Kept, queue
  <1> QED
    BY <1>1, <1>2, <1>3, <1>4, <1>5, <1>7, StepKinds

\* Every reachable state of a deployment with one ticker, while no admin interferes.
LEMMA ServedHolds ==
  ASSUME HeartbeatHolds, SoleTicker, Admins = {}
  PROVE  Spec => [](Typed /\ Hands /\ Alone /\ Served)
  <1>1. Init => Served
    <2> SUFFICES ASSUME Init  PROVE Served
      OBVIOUS
    <2>1. \A p \in Procs : Sees(proc[p], row[proc[p].order]) /\ proc[p].order = NoOrder
      BY SeesNothing, IdleIs DEF Init
    <2>2. /\ polls = {} /\ delivered = [o \in Orders |-> 0]
          /\ \A o \in Orders : row[o].generation = "queued" /\ row[o].assigned = NoAccount
      BY DEF Init, Fresh
    <2> QED
      BY <2>1, <2>2, AbsentAssumption DEF Served, ServedOn, DeliveredOn, PolledOrder
  <1>2. SoleAdmin  BY DEF SoleAdmin
  <1>3. Typed /\ Hands /\ Alone /\ Served /\ [Next]_vars => Served'  BY ServedStep
  <1>4. Spec => [](Typed /\ Hands /\ Alone)  BY <1>2, AloneHolds
  <1> QED  BY <1>1, <1>3, <1>4, PTL DEF Spec

\* The client gets the song once, and no stale copy pulls a delivered order back into the
\* queue: of the workers, crashes and retries, as long as one ticker runs and nobody
\* refunds or regenerates the order meanwhile.
THEOREM DeliveredOnceOnly ==
  ASSUME HeartbeatHolds, SoleTicker, Admins = {}
  PROVE  Spec => []DeliveredOnce
  <1>1. Served => DeliveredOnce  BY DEF Served, ServedOn, DeliveredOn, DeliveredOnce
  <1> QED  BY <1>1, ServedHolds, PTL

-----------------------------------------------------------------------------
(* The slots of the accounts.                                              *)

Booked(a) ==
  /\ IsFiniteSet(Holders(a)) /\ IsFiniteSet(Starters(a))
  /\ slots[a] = leaked[a] + Cardinality(Holders(a)) + Cardinality(Starters(a))
  /\ slots[a] <= MaxSlots
Books == \A a \in Accounts : Booked(a)

\* Who is about to give a slot back has found it taken.
Giving == Starting \cup {"upload", "complete", "fail", "recoverSave", "bury"}
Gives(g) == (g.pc \in Giving /\ g.account # NoAccount) => g.back = 1
AllGive == \A p \in Procs : Gives(proc[p])

\* What a step may do to the books.
Elsewhere(a) == \A b \in Accounts \ {a} :
  /\ slots'[b] = slots[b] /\ leaked'[b] = leaked[b]
  /\ Holders(b)' = Holders(b) /\ Starters(b)' = Starters(b)
Even == \A b \in Accounts :
  /\ slots'[b] = slots[b] /\ leaked'[b] = leaked[b]
  /\ Holders(b)' = Holders(b) /\ Starters(b)' = Starters(b)
TakesSlot(p, a) ==
  /\ Elsewhere(a) /\ slots[a] < MaxSlots /\ slots'[a] = slots[a] + 1 /\ leaked'[a] = leaked[a]
  /\ Holders(a)' = Holders(a) /\ p \notin Starters(a) /\ Starters(a)' = Starters(a) \cup {p}
StoresSlot(p, o, a) ==
  /\ Elsewhere(a) /\ slots'[a] = slots[a] /\ leaked'[a] = leaked[a]
  /\ o \notin Holders(a) /\ Holders(a)' = Holders(a) \cup {o}
  /\ p \in Starters(a) /\ Starters(a)' = Starters(a) \ {p}
ForgetsSlot(p, a) ==
  /\ Elsewhere(a) /\ slots'[a] = slots[a] /\ leaked'[a] = Bump(leaked[a], MaxSlots + 1)
  /\ Holders(a)' = Holders(a) /\ p \in Starters(a) /\ Starters(a)' = Starters(a) \ {p}
FreesSlot(o, a) ==
  /\ Elsewhere(a) /\ slots'[a] = Less(slots[a], 1) /\ leaked'[a] = leaked[a]
  /\ o \in Holders(a) /\ Holders(a)' = Holders(a) \ {o} /\ Starters(a)' = Starters(a)
LosesSlot(o, a) ==
  /\ Elsewhere(a) /\ slots'[a] = slots[a] /\ leaked'[a] = Bump(leaked[a], MaxSlots + 1)
  /\ o \in Holders(a) /\ Holders(a)' = Holders(a) \ {o} /\ Starters(a)' = Starters(a)

InBooks ==
  \/ Even
  \/ \E a \in Accounts : \/ \E p \in Workers : TakesSlot(p, a) \/ ForgetsSlot(p, a)
                         \/ \E o \in Orders : FreesSlot(o, a) \/ LosesSlot(o, a)
                         \/ \E p \in Workers, o \in Orders : StoresSlot(p, o, a)

\* A set with a new member is larger by one.
LEMMA SetWith ==
  ASSUME NEW S, IsFiniteSet(S), NEW x, x \notin S
  PROVE  /\ IsFiniteSet(S \cup {x}) /\ Cardinality(S) \in Nat
         /\ Cardinality(S \cup {x}) = Cardinality(S) + 1
  BY FS_AddElement, FS_CardinalityType

\* A set without one of its members is smaller by one, and was not empty.
LEMMA SetWithout ==
  ASSUME NEW S, IsFiniteSet(S), NEW x \in S
  PROVE  /\ IsFiniteSet(S \ {x}) /\ Cardinality(S) \in Nat /\ Cardinality(S) >= 1
         /\ Cardinality(S \ {x}) = Cardinality(S) - 1
  <1>1. /\ IsFiniteSet(S \ {x}) /\ Cardinality(S) \in Nat /\ Cardinality(S \ {x}) \in Nat
        /\ Cardinality(S \ {x}) = Cardinality(S) - 1
    BY FS_RemoveElement, FS_CardinalityType
  <1> QED  BY <1>1

\* An account with an order in processing has a slot taken, and more than have leaked.
LEMMA HolderHasSlot ==
  ASSUME Typed, Books, NEW a \in Accounts, Holders(a) # {} \/ Starters(a) # {}
  PROVE  slots[a] >= 1 /\ SlotToRelease(a) = 1 /\ leaked[a] < MaxSlots
  <1>1. /\ slots[a] \in Nat /\ leaked[a] \in Nat
        /\ Cardinality(Holders(a)) \in Nat /\ Cardinality(Starters(a)) \in Nat
        /\ slots[a] = leaked[a] + Cardinality(Holders(a)) + Cardinality(Starters(a))
        /\ slots[a] <= MaxSlots
    BY FS_CardinalityType DEF Books, Booked, Typed, PoolOK, HistoryOK
  <1>2. Cardinality(Holders(a)) >= 1 \/ Cardinality(Starters(a)) >= 1
    BY SetWithout DEF Books, Booked
  <1>3. slots[a] >= 1 /\ leaked[a] < MaxSlots
    BY <1>1, <1>2, NumbersAssumption
  <1> QED  BY <1>1, <1>3 DEF SlotToRelease

\* The books balance after each of these.
LEMMA BooksStep ==
  ASSUME Typed, Books, InBooks
  PROVE  Books'
  <1> DEFINE N(b) == /\ slots[b] \in Nat /\ leaked[b] \in Nat
                     /\ Cardinality(Holders(b)) \in Nat /\ Cardinality(Starters(b)) \in Nat
  <1>1. \A b \in Accounts : N(b)
    BY FS_CardinalityType DEF Books, Booked, Typed, PoolOK, HistoryOK
  <1>2. ASSUME NEW b \in Accounts, slots'[b] = slots[b], leaked'[b] = leaked[b],
               Holders(b)' = Holders(b), Starters(b)' = Starters(b)
        PROVE  Booked(b)'
    BY <1>2 DEF Books, Booked
  <1>3. CASE Even  BY <1>2, <1>3 DEF Even, Books
  <1>4. ASSUME NEW a \in Accounts, Elsewhere(a), Booked(a)'  PROVE Books'
    BY <1>2, <1>4 DEF Elsewhere, Books
  <1>5. ASSUME NEW a \in Accounts, NEW p, TakesSlot(p, a)  PROVE Books'
    <2>1. /\ IsFiniteSet(Starters(a)') /\ IsFiniteSet(Holders(a)')
          /\ Cardinality(Starters(a)') = Cardinality(Starters(a)) + 1
          /\ Cardinality(Holders(a)') = Cardinality(Holders(a))
      BY <1>5, SetWith DEF TakesSlot, Books, Booked
    <2>2. slots'[a] = leaked'[a] + Cardinality(Holders(a)') + Cardinality(Starters(a)')
      BY <1>1, <1>5, <2>1 DEF TakesSlot, Books, Booked
    <2>3. slots'[a] <= MaxSlots  BY <1>1, <1>5, NumbersAssumption DEF TakesSlot
    <2> QED  BY <1>4, <1>5, <2>1, <2>2, <2>3 DEF TakesSlot, Booked
  <1>6. ASSUME NEW a \in Accounts, NEW p, NEW o, StoresSlot(p, o, a)  PROVE Books'
    <2>1. /\ IsFiniteSet(Starters(a)') /\ IsFiniteSet(Holders(a)')
          /\ Cardinality(Starters(a)') = Cardinality(Starters(a)) - 1
          /\ Cardinality(Holders(a)') = Cardinality(Holders(a)) + 1
      BY <1>6, SetWith, SetWithout DEF StoresSlot, Books, Booked
    <2>2. slots'[a] = leaked'[a] + Cardinality(Holders(a)') + Cardinality(Starters(a)')
      BY <1>1, <1>6, <2>1 DEF StoresSlot, Books, Booked
    <2>3. slots'[a] <= MaxSlots  BY <1>6 DEF StoresSlot, Books, Booked
    <2> QED  BY <1>4, <1>6, <2>1, <2>2, <2>3 DEF StoresSlot, Booked
  <1>7. ASSUME NEW a \in Accounts, NEW p, ForgetsSlot(p, a)  PROVE Books'
    <2>1. /\ IsFiniteSet(Starters(a)') /\ IsFiniteSet(Holders(a)')
          /\ Cardinality(Starters(a)') = Cardinality(Starters(a)) - 1
          /\ Cardinality(Holders(a)') = Cardinality(Holders(a))
      BY <1>7, SetWithout DEF ForgetsSlot, Books, Booked
    <2>2. leaked[a] < MaxSlots  BY <1>7, HolderHasSlot DEF ForgetsSlot
    <2>3. leaked'[a] = leaked[a] + 1
      BY <1>1, <1>7, <2>2, NumbersAssumption DEF ForgetsSlot, Bump
    <2>4. slots'[a] = leaked'[a] + Cardinality(Holders(a)') + Cardinality(Starters(a)')
      BY <1>1, <1>7, <2>1, <2>3 DEF ForgetsSlot, Books, Booked
    <2>5. slots'[a] <= MaxSlots  BY <1>7 DEF ForgetsSlot, Books, Booked
    <2> QED  BY <1>4, <1>7, <2>1, <2>4, <2>5 DEF ForgetsSlot, Booked
  <1>8. ASSUME NEW a \in Accounts, NEW o, FreesSlot(o, a)  PROVE Books'
    <2>1. /\ IsFiniteSet(Starters(a)') /\ IsFiniteSet(Holders(a)')
          /\ Cardinality(Starters(a)') = Cardinality(Starters(a))
          /\ Cardinality(Holders(a)') = Cardinality(Holders(a)) - 1
      BY <1>8, SetWithout DEF FreesSlot, Books, Booked
    <2>2. slots[a] >= 1  BY <1>8, HolderHasSlot DEF FreesSlot
    <2>3. slots'[a] = slots[a] - 1  BY <1>1, <1>8, <2>2 DEF FreesSlot, Less
    <2>4. slots'[a] = leaked'[a] + Cardinality(Holders(a)') + Cardinality(Starters(a)')
      BY <1>1, <1>8, <2>1, <2>3 DEF FreesSlot, Books, Booked
    <2>5. slots'[a] <= MaxSlots
      BY <1>1, <2>3, NumbersAssumption DEF Books, Booked
    <2> QED  BY <1>4, <1>8, <2>1, <2>4, <2>5 DEF FreesSlot, Booked
  <1>9. ASSUME NEW a \in Accounts, NEW o, LosesSlot(o, a)  PROVE Books'
    <2>1. /\ IsFiniteSet(Starters(a)') /\ IsFiniteSet(Holders(a)')
          /\ Cardinality(Starters(a)') = Cardinality(Starters(a))
          /\ Cardinality(Holders(a)') = Cardinality(Holders(a)) - 1
      BY <1>9, SetWithout DEF LosesSlot, Books, Booked
    <2>2. leaked[a] < MaxSlots  BY <1>9, HolderHasSlot DEF LosesSlot
    <2>3. leaked'[a] = leaked[a] + 1
      BY <1>1, <1>9, <2>2, NumbersAssumption DEF LosesSlot, Bump
    <2>4. slots'[a] = leaked'[a] + Cardinality(Holders(a)') + Cardinality(Starters(a)')
      BY <1>1, <1>9, <2>1, <2>3 DEF LosesSlot, Books, Booked
    <2>5. slots'[a] <= MaxSlots  BY <1>9 DEF LosesSlot, Books, Booked
    <2> QED  BY <1>4, <1>9, <2>1, <2>4, <2>5 DEF LosesSlot, Booked
  <1> QED
    BY <1>3, <1>5, <1>6, <1>7, <1>8, <1>9 DEF InBooks

-----------------------------------------------------------------------------
(* The books, action by action.                                            *)

\* A goroutine that is busy sees its order.
LEMMA SeesItsOrder ==
  ASSUME Typed, Served, NEW p \in Procs, proc[p].pc # "idle"
  PROVE  /\ proc[p].order \in Orders /\ Sees(proc[p], row[proc[p].order])
         /\ ServedOn(proc[p].order)
         /\ row[proc[p].order].generation = "queued" => row[proc[p].order].assigned = NoAccount
         /\ Running(row[proc[p].order]) => row[proc[p].order].assigned \in Accounts
  <1>1. proc[p].order \in Orders  BY KnownBy DEF Typed
  <1> QED  BY <1>1 DEF Served, ServedOn, Typed, RowsOK, ProcessingHasAccount

\* A copy that is the row leaves the row as it is.
LEMMA SavedAsRead ==
  ASSUME Typed, Served, NEW p \in Procs, proc[p].pc \in AsCopied \cup Recovering,
         SaveOrder(proc[p].order, proc[p].copy) \/ UNCHANGED row
  PROVE  row' = row
  <1>1. proc[p].pc # "idle"  BY DEF AsCopied, Starting, Polled, Recovering
  <1>2. row[proc[p].order] = proc[p].copy  BY <1>1, SeesItsOrder DEF Sees
  <1>3. row \in [Orders -> Row]  BY DEF Typed, RowsOK
  <1> QED  BY <1>2, <1>3 DEF SaveOrder

\* A step that starts nothing keeps the starters.
LEMMA StartersKept ==
  ASSUME NEW p \in Procs, Only(p), proc[p].pc # "start", proc'[p].pc # "start"
  PROVE  \A b \in Accounts : Starters(b)' = Starters(b)
  <1>1. \A q \in Workers : /\ At(q, "start")' = At(q, "start")
                           /\ At(q, "start") => proc'[q] = proc[q]
    BY DEF Only, At, Procs
  <1> QED  BY <1>1 DEF Starters, At

\* A worker that starts, or is through with the start.
LEMMA StartersJoin ==
  ASSUME NEW p \in Workers, Only(p), proc[p].pc # "start", proc'[p].pc = "start",
         NEW a \in Accounts, proc'[p].account = a
  PROVE  /\ p \notin Starters(a) /\ Starters(a)' = Starters(a) \cup {p}
         /\ \A b \in Accounts \ {a} : Starters(b)' = Starters(b)
  <1>1. \A q \in Workers \ {p} : proc'[q] = proc[q]  BY DEF Only, Procs
  <1> QED  BY <1>1 DEF Starters, At

\* A worker that stores its start, or gives it up.
LEMMA StartersLeave ==
  ASSUME NEW p \in Workers, Only(p), proc[p].pc = "start", proc'[p].pc # "start",
         NEW a \in Accounts, proc[p].account = a
  PROVE  /\ p \in Starters(a) /\ Starters(a)' = Starters(a) \ {p}
         /\ \A b \in Accounts \ {a} : Starters(b)' = Starters(b)
  <1>1. \A q \in Workers \ {p} : proc'[q] = proc[q]  BY DEF Only, Procs
  <1> QED  BY <1>1 DEF Starters, At

\* An order that is saved outside processing frees its account.
LEMMA HoldersLeave ==
  ASSUME Typed, NEW o \in Orders, NEW c \in Row, SaveOrder(o, c), ~Running(c),
         Running(row[o]), NEW a \in Accounts, row[o].assigned = a
  PROVE  /\ o \in Holders(a) /\ Holders(a)' = Holders(a) \ {o}
         /\ \A b \in Accounts \ {a} : Holders(b)' = Holders(b)
  <1>1. row'[o] = c /\ \A x \in Orders \ {o} : row'[x] = row[x]
    BY DEF SaveOrder, Typed, RowsOK
  <1>2. ~Running(row'[o]) /\ \A x \in Orders \ {o} : Running(row'[x]) = Running(row[x])
    BY <1>1
  <1> QED  BY <1>1, <1>2 DEF Holders

\* One that is saved in processing holds its account.
LEMMA HoldersJoin ==
  ASSUME Typed, NEW o \in Orders, NEW c \in Row, SaveOrder(o, c), Running(c),
         ~Running(row[o]), NEW a \in Accounts, c.assigned = a
  PROVE  /\ o \notin Holders(a) /\ Holders(a)' = Holders(a) \cup {o}
         /\ \A b \in Accounts \ {a} : Holders(b)' = Holders(b)
  <1>1. row'[o] = c /\ \A x \in Orders \ {o} : row'[x] = row[x]
    BY DEF SaveOrder, Typed, RowsOK
  <1>2. Running(row'[o]) /\ \A x \in Orders \ {o} : Running(row'[x]) = Running(row[x])
    BY <1>1
  <1> QED  BY <1>1, <1>2 DEF Holders

\* One that is in processing neither before nor after holds nothing.
LEMMA HoldersApart ==
  ASSUME Typed, NEW o \in Orders, NEW c \in Row, SaveOrder(o, c), ~Running(c), ~Running(row[o])
  PROVE  \A b \in Accounts : Holders(b)' = Holders(b)
  <1>1. row'[o] = c /\ \A x \in Orders \ {o} : row'[x] = row[x]
    BY DEF SaveOrder, Typed, RowsOK
  <1>2. ~Running(row'[o]) /\ \A x \in Orders \ {o} : Running(row'[x]) = Running(row[x])
    BY <1>1
  <1> QED  BY <1>1, <1>2 DEF Holders

\* A step that moves no row, no slot and no starter leaves the books even.
LEMMA EvenStep ==
  ASSUME NEW p \in Procs, Only(p), proc[p].pc # "start", proc'[p].pc # "start",
         UNCHANGED <<row, slots, leaked>>
  PROVE  InBooks
  <1>1. \A b \in Accounts : Starters(b)' = Starters(b)  BY StartersKept
  <1>2. \A b \in Accounts : Holders(b)' = Holders(b)  BY DEF Holders
  <1> QED  BY <1>1, <1>2 DEF InBooks, Even

\* It is enough to look at the goroutine that moves.
LEMMA MoverGives ==
  ASSUME AllGive, NEW p \in Procs, Only(p), Gives(proc'[p])
  PROVE  AllGive'
  BY DEF AllGive, Only

\* Who keeps its account keeps what it gives; who gives nothing is free.
LEMMA KeepsGiving ==
  ASSUME AllGive, NEW p \in Procs, Only(p),
         \/ proc'[p].pc \notin Giving
         \/ /\ proc[p].pc \in Giving /\ proc'[p].account = proc[p].account
            /\ proc'[p].back = proc[p].back
  PROVE  AllGive'
  BY MoverGives DEF AllGive, Gives

\* An order and its account saved together: the slot of the order is free.
LEMMA SlotFreed ==
  ASSUME Typed, NEW p \in Procs, Only(p), proc[p].pc # "start", proc'[p].pc # "start",
         NEW o \in Orders, NEW c \in Row, NEW a \in Accounts, NEW s \in {"active", "banned"},
         SaveBoth(o, c, a, s, 1), ~Running(c), Running(row[o]), row[o].assigned = a,
         UNCHANGED leaked
  PROVE  InBooks
  <1>1. SaveOrder(o, c)  BY DEF SaveBoth
  <1>2. /\ o \in Holders(a) /\ Holders(a)' = Holders(a) \ {o}
        /\ \A b \in Accounts \ {a} : Holders(b)' = Holders(b)
    BY <1>1, HoldersLeave
  <1>3. \A b \in Accounts : Starters(b)' = Starters(b)  BY StartersKept
  <1>4. slots'[a] = Less(slots[a], 1) /\ \A b \in Accounts \ {a} : slots'[b] = slots[b]
    BY SaveBothIs, AbsentAssumption DEF Typed
  <1>5. FreesSlot(o, a)  BY <1>2, <1>3, <1>4 DEF FreesSlot, Elsewhere
  <1> QED  BY <1>5 DEF InBooks

\* The order saved without its account: the slot stays taken.
LEMMA SlotLost ==
  ASSUME Typed, NEW p \in Procs, Only(p), proc[p].pc # "start", proc'[p].pc # "start",
         NEW o \in Orders, NEW c \in Row, NEW a \in Accounts,
         SaveOrder(o, c), ~Running(c), Running(row[o]), row[o].assigned = a,
         Leak(a), UNCHANGED slots
  PROVE  InBooks
  <1>1. /\ o \in Holders(a) /\ Holders(a)' = Holders(a) \ {o}
        /\ \A b \in Accounts \ {a} : Holders(b)' = Holders(b)
    BY HoldersLeave
  <1>2. \A b \in Accounts : Starters(b)' = Starters(b)  BY StartersKept
  <1>3. /\ leaked'[a] = Bump(leaked[a], MaxSlots + 1)
        /\ \A b \in Accounts \ {a} : leaked'[b] = leaked[b]
    BY DEF Leak, Typed, HistoryOK
  <1>4. LosesSlot(o, a)  BY <1>1, <1>2, <1>3 DEF LosesSlot, Elsewhere
  <1> QED  BY <1>4 DEF InBooks

\* A start that is given up: the slot stays taken.
LEMMA SlotForgotten ==
  ASSUME Typed, NEW p \in Workers, Only(p), proc[p].pc = "start", proc'[p].pc # "start",
         Leak(proc[p].account), UNCHANGED <<row, slots>>
  PROVE  InBooks
  <1>0. PICK a \in Accounts : a = proc[p].account
    BY KnownBy DEF Typed, Procs, Starting
  <1>1. /\ p \in Starters(a) /\ Starters(a)' = Starters(a) \ {p}
        /\ \A b \in Accounts \ {a} : Starters(b)' = Starters(b)
    BY <1>0, StartersLeave
  <1>2. \A b \in Accounts : Holders(b)' = Holders(b)  BY DEF Holders
  <1>3. /\ leaked'[a] = Bump(leaked[a], MaxSlots + 1)
        /\ \A b \in Accounts \ {a} : leaked'[b] = leaked[b]
    BY <1>0 DEF Leak, Typed, HistoryOK
  <1>4. ForgetsSlot(p, a)  BY <1>1, <1>2, <1>3 DEF ForgetsSlot, Elsewhere
  <1> QED  BY <1>4 DEF InBooks

\* The generation task keeps the books.
LEMMA GenerateBooks ==
  ASSUME Admins = {}, Typed, Hands, Alone, Served, Books, AllGive, NEW p \in Procs,
         HandleGenerateTask(p)
  PROVE  InBooks /\ AllGive'
  <1>1. ASSUME proc[p].pc \in Starting \cup {"lock"}
        PROVE  p \in Workers /\ proc[p].pc # "idle"
    BY <1>1, WhoWorks DEF Starting, WorkerPCs, Typed
  <1>2. ASSUME NEW a \in Accounts, LockAccount(p, a)  PROVE InBooks /\ AllGive'
    <2>1. /\ proc[p].pc = "lock" /\ row' = row /\ leaked' = leaked
          /\ slots[a] < MaxSlots /\ slots' = [slots EXCEPT ![a] = @ + 1]
      BY <1>2 DEF LockAccount, At, AcquireSlot, IsAvailable, history
    <2>2. Only(p) /\ proc'[p].pc = "start" /\ proc'[p].account = a /\ proc'[p].back = 1
      BY <1>2, LockMoves DEF Typed
    <2>3. slots'[a] = slots[a] + 1 /\ \A b \in Accounts \ {a} : slots'[b] = slots[b]
      BY <2>1 DEF Typed, PoolOK
    <2>4. p \in Workers  BY <1>1, <2>1
    <2>5. /\ p \notin Starters(a) /\ Starters(a)' = Starters(a) \cup {p}
          /\ \A b \in Accounts \ {a} : Starters(b)' = Starters(b)
      BY <2>1, <2>2, <2>4, StartersJoin
    <2>6. \A b \in Accounts : Holders(b)' = Holders(b)  BY <2>1 DEF Holders
    <2>7. TakesSlot(p, a)  BY <2>1, <2>3, <2>5, <2>6 DEF TakesSlot, Elsewhere
    <2> QED  BY <2>2, <2>4, <2>7, MoverGives DEF InBooks, Gives
  <1>3. ASSUME PoolBusy(p) \/ EnqueuePoll(p)  PROVE InBooks /\ AllGive'
    <2>1. /\ proc[p].pc \in {"lock", "poll"} /\ Return(p)
          /\ UNCHANGED <<row, slots, leaked>>
      BY <1>3 DEF PoolBusy, EnqueuePoll, At, pool, history
    <2>2. Only(p) /\ proc'[p].pc = "idle"  BY <2>1, ReturnOK DEF Typed
    <2> QED  BY <2>1, <2>2, EvenStep, KeepsGiving DEF Giving, Starting
  <1>4. ASSUME SaveStart(p)  PROVE InBooks /\ AllGive'
    <2>1. /\ proc[p].pc = "start" /\ Goto(p, "brief") /\ leaked' = leaked
          /\ SaveBoth(proc[p].order, proc[p].copy, proc[p].account, proc[p].seen, 0)
      BY <1>4 DEF SaveStart, At, history
    <2>2. /\ p \in Workers /\ proc[p].copy \in Row /\ Running(proc[p].copy)
          /\ proc[p].account \in Accounts /\ proc[p].copy.assigned = proc[p].account
          /\ proc[p].seen \in {"active", "banned"}
      BY <1>1, <2>1, KnownBy DEF Typed, Starting
    <2>3. PICK o \in Orders, a \in Accounts : o = proc[p].order /\ a = proc[p].account
      BY <2>1, <2>2, SeesItsOrder
    <2>4. ~Running(row[o])  BY <2>1, <2>3, SeesItsOrder DEF Sees, Running
    <2>5. Only(p) /\ proc'[p].pc = "brief" /\ SameButPC(p)
      BY <2>1, <2>2, GotoMoves DEF Typed, ProcsOK, PCs, WorkerPCs
    <2>6. SaveOrder(o, proc[p].copy)  BY <2>1, <2>3 DEF SaveBoth
    <2>7. /\ o \notin Holders(a) /\ Holders(a)' = Holders(a) \cup {o}
          /\ \A b \in Accounts \ {a} : Holders(b)' = Holders(b)
      BY <2>2, <2>3, <2>4, <2>6, HoldersJoin
    <2>8. /\ p \in Starters(a) /\ Starters(a)' = Starters(a) \ {p}
          /\ \A b \in Accounts \ {a} : Starters(b)' = Starters(b)
      BY <2>1, <2>2, <2>3, <2>5, StartersLeave
    <2>9. slots'[a] = Less(slots[a], 0) /\ \A b \in Accounts \ {a} : slots'[b] = slots[b]
      BY <2>1, <2>2, <2>3, SaveBothIs, AbsentAssumption DEF Typed
    <2>10. slots'[a] = slots[a]  BY <2>9 DEF Less, Typed, PoolOK
    <2>11. StoresSlot(p, o, a)
      BY <2>1, <2>7, <2>8, <2>9, <2>10 DEF StoresSlot, Elsewhere
    <2> QED
      BY <2>1, <2>2, <2>5, <2>11, KeepsGiving DEF InBooks, SameButPC, Giving, Starting
  <1>5. ASSUME SaveStartFails(p)  PROVE InBooks /\ AllGive'
    <2>1. /\ proc[p].pc = "start" /\ TaskFails(p) /\ Leak(proc[p].account)
          /\ UNCHANGED <<row, slots>>
      BY <1>5 DEF SaveStartFails, At, pool
    <2>2. p \in Workers  BY <1>1, <2>1 DEF Starting
    <2>3. Only(p) /\ proc'[p].pc \in {"idle", "dead"}
      BY <2>1, <2>2, TaskFailsOK DEF Typed
    <2> QED  BY <2>1, <2>2, <2>3, SlotForgotten, KeepsGiving DEF Giving, Starting
  <1>6. ASSUME BriefEmpty(p) \/ SubmitFails(p) \/ EnqueuePollFails(p)  PROVE InBooks /\ AllGive'
    <2>1. /\ proc[p].pc \in {"brief", "submit", "poll"} /\ Goto(p, "rollback")
          /\ UNCHANGED <<row, slots, leaked>>
      BY <1>6 DEF BriefEmpty, SubmitFails, EnqueuePollFails, At, pool, history
    <2>2. Only(p) /\ proc'[p].pc = "rollback" /\ SameButPC(p)
      BY <2>1, GotoMoves DEF Typed, ProcsOK, PCs, WorkerPCs
    <2> QED  BY <2>1, <2>2, EvenStep, KeepsGiving DEF SameButPC, Giving, Starting
  <1>7. ASSUME SaveProgress(p)  PROVE InBooks /\ AllGive'
    <2>1. /\ proc[p].pc = "brief" /\ Goto(p, "submit") /\ UNCHANGED <<slots, leaked>>
          /\ SaveOrder(proc[p].order, proc[p].copy) \/ UNCHANGED row
      BY <1>7 DEF SaveProgress, Heartbeat, At, pool, history
    <2>2. Only(p) /\ proc'[p].pc = "submit" /\ SameButPC(p)
      BY <2>1, GotoMoves DEF Typed, ProcsOK, PCs, WorkerPCs
    <2>3. row' = row  BY <2>1, SavedAsRead DEF AsCopied, Starting
    <2> QED  BY <2>1, <2>2, <2>3, EvenStep, KeepsGiving DEF SameButPC, Giving, Starting
  <1>8. ASSUME Submit(p) \/ SubmitExpired(p)  PROVE InBooks /\ AllGive'
    <2>1. proc[p].pc = "submit" /\ UNCHANGED <<row, slots, leaked>>
      BY <1>8 DEF Submit, SubmitExpired, At, pool, history
    <2>2. proc[p].order \in Orders  BY <2>1, SeesItsOrder
    <2>3. /\ Only(p) /\ proc'[p].pc \in {"saveJob", "rollback"}
          /\ proc'[p].account = proc[p].account /\ proc'[p].back = proc[p].back
      BY <1>8, <2>2, SubmitMoves, SubmitExpiredMoves DEF Typed
    <2> QED  BY <2>1, <2>3, EvenStep, KeepsGiving DEF Giving, Starting
  <1>9. ASSUME SaveJob(p)  PROVE InBooks /\ AllGive'
    <2>1. /\ proc[p].pc = "saveJob" /\ Goto(p, "poll") /\ leaked' = leaked
          /\ SaveBoth(proc[p].order, proc[p].copy, proc[p].account, proc[p].seen, 0)
      BY <1>9 DEF SaveJob, At, history
    <2>2. Only(p) /\ proc'[p].pc = "poll" /\ SameButPC(p)
      BY <2>1, GotoMoves DEF Typed, ProcsOK, PCs, WorkerPCs
    <2>3. row' = row  BY <2>1, SavedAsRead DEF AsCopied, Starting, SaveBoth
    <2>4. /\ proc[p].order \in Orders /\ proc[p].copy \in Row /\ Running(proc[p].copy)
          /\ proc[p].account \in Accounts /\ proc[p].copy.assigned = proc[p].account
          /\ proc[p].seen \in {"active", "banned"}
      BY <2>1, KnownBy DEF Typed, Starting
    <2>5. \A b \in Accounts : slots'[b] = slots[b] \/ slots'[b] = Less(slots[b], 0)
      BY <2>1, <2>4, SaveBothIs DEF Typed
    <2>6. \A b \in Accounts : slots'[b] = slots[b]  BY <2>5 DEF Less, Typed, PoolOK
    <2>7. \A b \in Accounts : Starters(b)' = Starters(b)  BY <2>1, <2>2, StartersKept
    <2>8. \A b \in Accounts : Holders(b)' = Holders(b)  BY <2>3 DEF Holders
    <2>9. Even  BY <2>1, <2>6, <2>7, <2>8 DEF Even
    <2> QED  BY <2>1, <2>2, <2>9, KeepsGiving DEF InBooks, SameButPC, Giving, Starting
  <1>10. ASSUME SaveJobFails(p) \/ RollbackFails(p)  PROVE InBooks /\ AllGive'
    <2>1. /\ proc[p].pc \in {"saveJob", "rollback"} /\ TaskFails(p)
          /\ UNCHANGED <<row, slots, leaked>>
      BY <1>10 DEF SaveJobFails, RollbackFails, At, pool, history
    <2>2. p \in Workers  BY <1>1, <2>1 DEF Starting
    <2>3. Only(p) /\ proc'[p].pc \in {"idle", "dead"}
      BY <2>1, <2>2, TaskFailsOK DEF Typed
    <2> QED  BY <2>1, <2>3, EvenStep, KeepsGiving DEF Giving, Starting
  <1>11. ASSUME Rollback(p)  PROVE InBooks /\ AllGive'
    <2>1. /\ proc[p].pc = "rollback" /\ TaskFails(p) /\ leaked' = leaked
          /\ SaveBoth(proc[p].order, Requeued(proc[p].copy), proc[p].account, proc[p].seen,
                      proc[p].back)
      BY <1>11 DEF Rollback, At
    <2>2. p \in Workers  BY <1>1, <2>1 DEF Starting
    <2>3. Only(p) /\ proc'[p].pc \in {"idle", "dead"}
      BY <2>1, <2>2, TaskFailsOK DEF Typed
    <2>4. /\ proc[p].copy \in Row /\ Running(proc[p].copy)
          /\ proc[p].account \in Accounts /\ proc[p].copy.assigned = proc[p].account
          /\ proc[p].seen \in {"active", "banned"}
      BY <2>1, KnownBy DEF Typed, Starting
    <2>5. proc[p].back = 1
      BY <2>1, <2>4, AbsentAssumption DEF AllGive, Gives, Giving, Starting
    <2>6. proc[p].order \in Orders /\ row[proc[p].order] = proc[p].copy
      BY <2>1, SeesItsOrder DEF Sees, AsCopied, Starting
    <2>7. Requeued(proc[p].copy) \in Row /\ ~Running(Requeued(proc[p].copy))
      BY <2>4, CopiesAre DEF Running
    <2>8. InBooks  BY <2>1, <2>3, <2>4, <2>5, <2>6, <2>7, SlotFreed
    <2> QED  BY <2>3, <2>8, KeepsGiving DEF Giving, Starting
  <1> QED
    BY <1>2, <1>3, <1>4, <1>5, <1>6, <1>7, <1>8, <1>9, <1>10, <1>11 DEF HandleGenerateTask

\* So does the poll.
LEMMA StatusCheckBooks ==
  ASSUME Admins = {}, Typed, Hands, Alone, Served, Books, AllGive, NEW p \in Procs,
         HandleStatusCheckTask(p)
  PROVE  InBooks /\ AllGive'
  <1>1. ASSUME proc[p].pc \in Polled
        PROVE  /\ p \in Workers /\ proc[p].order \in Orders
               /\ proc[p].copy \in Row /\ Running(proc[p].copy)
               /\ proc[p].copy.assigned \in Accounts /\ row[proc[p].order] = proc[p].copy
    <2>1. p \in Workers /\ proc[p].pc # "idle"
      BY <1>1, WhoWorks DEF Polled, WorkerPCs, Typed
    <2> QED  BY <1>1, <2>1, KnownBy, SeesItsOrder DEF Typed, Sees, AsCopied
  <1>2. ASSUME FetchRunning(p) \/ Upload(p) \/ UploadFails(p)  PROVE InBooks /\ AllGive'
    <2>1. /\ proc[p].pc \in {"fetch", "upload"} /\ UNCHANGED <<slots, leaked>>
          /\ SaveOrder(proc[p].order, proc[p].copy) \/ UNCHANGED row
          /\ \/ Return(p) \/ Goto(p, "stale") \/ TaskFails(p)
             \/ proc[p].pc = "upload" /\ Goto(p, "complete")
      BY <1>2 DEF FetchRunning, Upload, UploadFails, Heartbeat, At, pool, history
    <2>2. p \in Workers /\ row' = row
      BY <1>1, <2>1, SavedAsRead DEF AsCopied, Polled
    <2>3. /\ Only(p)
          /\ \/ proc'[p].pc \in {"idle", "stale", "dead"}
             \/ proc[p].pc = "upload" /\ proc'[p].pc = "complete" /\ SameButPC(p)
      BY <2>1, <2>2, ReturnOK, GotoMoves, TaskFailsOK DEF Typed, ProcsOK, PCs, WorkerPCs
    <2> QED  BY <2>1, <2>2, <2>3, EvenStep, KeepsGiving DEF Giving, Starting, SameButPC
  <1>3. ASSUME FetchError(p) \/ SaveResultFails(p)  PROVE InBooks /\ AllGive'
    <2>1. /\ proc[p].pc \in {"fetch", "complete", "fail"} /\ TaskFails(p)
          /\ UNCHANGED <<row, slots, leaked>>
      BY <1>3 DEF FetchError, SaveResultFails, At, pool, history
    <2>2. p \in Workers  BY <1>1, <2>1 DEF Polled
    <2>3. Only(p) /\ proc'[p].pc \in {"idle", "dead"}
      BY <2>1, <2>2, TaskFailsOK DEF Typed
    <2> QED  BY <2>1, <2>3, EvenStep, KeepsGiving DEF Giving, Starting
  <1>4. ASSUME NEW pc \in {"upload", "fail"}, FetchTerminal(p, pc)  PROVE InBooks /\ AllGive'
    <2>1. /\ proc[p].pc = "fetch" /\ UNCHANGED <<row, slots, leaked>>
          /\ Become(p, Loaded(p, pc, proc[p].copy.assigned))
      BY <1>4 DEF FetchTerminal, At, pool, history
    <2>2. PICK o \in Orders, a \in Accounts :
            /\ o = proc[p].order /\ a = proc[p].copy.assigned
            /\ Running(row[o]) /\ row[o].assigned = a
      BY <1>1, <2>1 DEF Polled
    <2>3. pc \in PCs  BY DEF PCs, WorkerPCs
    <2>4. Only(p) /\ proc'[p].pc = pc /\ proc'[p].back = SlotToRelease(a)
      BY <2>1, <2>2, <2>3, LoadedMoves DEF Typed
    <2>5. o \in Holders(a)  BY <2>2 DEF Holders
    <2>6. SlotToRelease(a) = 1  BY <2>5, HolderHasSlot
    <2> QED  BY <2>1, <2>4, <2>6, EvenStep, MoverGives DEF Gives
  <1>5. ASSUME Complete(p) \/ Fail(p)  PROVE InBooks /\ AllGive'
    <2>1. PICK c : /\ proc[p].pc \in {"complete", "fail"} /\ Return(p) /\ leaked' = leaked
                   /\ c \in {Completed(proc[p].copy), Failed(proc[p].copy)}
                   /\ SaveBoth(proc[p].order, c, proc[p].account, proc[p].seen, proc[p].back)
      BY <1>5 DEF Complete, Fail, At, history
    <2>2. /\ p \in Workers /\ proc[p].order \in Orders /\ proc[p].copy \in Row
          /\ row[proc[p].order] = proc[p].copy /\ Running(proc[p].copy)
          /\ proc[p].account \in Accounts /\ proc[p].copy.assigned = proc[p].account
          /\ proc[p].seen \in {"active", "banned"}
      BY <1>1, <2>1, KnownBy DEF Polled, Typed
    <2>3. Only(p) /\ proc'[p].pc = "idle"  BY <2>1, ReturnOK DEF Typed
    <2>4. proc[p].back = 1
      BY <2>1, <2>2, AbsentAssumption DEF AllGive, Gives, Giving
    <2>5. c \in Row /\ ~Running(c)  BY <2>1, <2>2, CopiesAre DEF Running
    <2>6. InBooks  BY <2>1, <2>2, <2>3, <2>4, <2>5, SlotFreed
    <2> QED  BY <2>3, <2>6, KeepsGiving DEF Giving, Starting
  <1> QED
    BY <1>2, <1>3, <1>4, <1>5 DEF HandleStatusCheckTask

\* The last retry frees the slot of the order it buries, or it is lost.
LEMMA DeadTaskBooks ==
  ASSUME Admins = {}, Typed, Hands, Alone, Served, Books, AllGive, NEW p \in Procs,
         HandleDeadTask(p)
  PROVE  InBooks /\ AllGive'
  <1>1. ASSUME RetryStalePoll(p)  PROVE InBooks /\ AllGive'
    <2>1. /\ proc[p].pc = "stale" /\ (Return(p) \/ Goto(p, "dead"))
          /\ UNCHANGED <<row, slots, leaked>>
      BY <1>1 DEF RetryStalePoll, At, pool, history
    <2>2. Only(p) /\ proc'[p].pc \in {"idle", "dead"}
      BY <2>1, ReturnOK, GotoMoves DEF Typed, ProcsOK, PCs, WorkerPCs
    <2> QED  BY <2>1, <2>2, EvenStep, KeepsGiving DEF Giving, Starting
  <1>2. ASSUME FailGeneration(p)  PROVE InBooks /\ AllGive'
    <2>1. proc[p].pc = "dead" /\ UNCHANGED <<row, slots, leaked>>
      BY <1>2 DEF FailGeneration, At, pool, history
    <2>2. PICK o \in Orders, a \in Accounts \cup {NoAccount} :
            /\ o = proc[p].order /\ a = row[o].assigned
            /\ row[o].generation = "queued" => a = NoAccount
            /\ Running(row[o]) => a \in Accounts
      BY <2>1, SeesItsOrder DEF Typed, RowsOK, Row
    <2>3. CASE row[o].generation \in {"completed", "failed"}
      <3>1. Return(p)  BY <1>2, <2>2, <2>3 DEF FailGeneration
      <3>2. Only(p) /\ proc'[p].pc = "idle"  BY <3>1, ReturnOK DEF Typed
      <3> QED  BY <2>1, <3>2, EvenStep, KeepsGiving DEF Giving, Starting
    <2>4. CASE row[o].generation \notin {"completed", "failed"}
      <3>1. /\ Only(p) /\ proc'[p].pc = "bury" /\ proc'[p].account = a
            /\ a # NoAccount => proc'[p].back = SlotToRelease(a)
        BY <1>2, <2>2, <2>4, FailMoves DEF Typed
      <3>2. ASSUME a # NoAccount  PROVE SlotToRelease(a) = 1
        <4>1. row[o] \in Row  BY DEF Typed, RowsOK
        <4>2. Running(row[o]) /\ a \in Accounts
          BY <2>2, <2>4, <3>2, <4>1 DEF Row, Running
        <4>3. o \in Holders(a)  BY <2>2, <4>2 DEF Holders
        <4> QED  BY <4>2, <4>3, HolderHasSlot
      <3> QED  BY <2>1, <3>1, <3>2, EvenStep, MoverGives DEF Gives
    <2> QED  BY <2>3, <2>4
  <1>3. ASSUME Bury(p)  PROVE InBooks /\ AllGive'
    <2>1. proc[p].pc = "bury" /\ Return(p)  BY <1>3 DEF Bury, At
    <2>2. Only(p) /\ proc'[p].pc = "idle"  BY <2>1, ReturnOK DEF Typed
    <2>3. /\ proc[p].copy \in Row /\ ~Running(proc[p].copy)
          /\ proc[p].seen \in {"active", "banned"}
      BY <2>1, KnownBy DEF Typed, Running
    <2>4. PICK o \in Orders, a \in Accounts \cup {NoAccount} :
            /\ o = proc[p].order /\ a = proc[p].account /\ a = row[o].assigned
            /\ row[o].generation \in {"queued", "processing"}
            /\ row[o].generation = "queued" => a = NoAccount
            /\ Running(row[o]) => a \in Accounts
      BY <2>1, SeesItsOrder DEF Sees, Undone, Typed, RowsOK, Row
    <2>5. CASE UNCHANGED <<row, pool, leaked>>
      BY <2>1, <2>2, <2>5, EvenStep, KeepsGiving DEF Giving, Starting, pool
    <2>6. CASE Running(row[o])
      <3>1. a \in Accounts /\ a # NoAccount  BY <2>4, <2>6, AbsentAssumption
      <3>2. proc[p].back = 1  BY <2>1, <2>4, <3>1 DEF AllGive, Gives, Giving
      <3>3. ASSUME SaveBoth(o, proc[p].copy, a, proc[p].seen, 1), UNCHANGED leaked
            PROVE  InBooks
        BY <2>1, <2>2, <2>3, <2>4, <2>6, <3>1, <3>3, SlotFreed
      <3>4. ASSUME SaveOrder(o, proc[p].copy), Leak(a), UNCHANGED pool
            PROVE  InBooks
        BY <2>1, <2>2, <2>3, <2>4, <2>6, <3>1, <3>4, SlotLost DEF pool
      <3>5. \/ SaveBoth(o, proc[p].copy, a, proc[p].seen, 1) /\ UNCHANGED leaked
            \/ SaveOrder(o, proc[p].copy) /\ Leak(a) /\ UNCHANGED pool
            \/ UNCHANGED <<row, pool, leaked>>
        BY <1>3, <2>4, <3>2 DEF Bury
      <3> QED  BY <2>2, <2>5, <3>3, <3>4, <3>5, KeepsGiving DEF Giving, Starting
    <2>7. CASE ~Running(row[o])
      <3>1. a = NoAccount  BY <2>4, <2>7 DEF Running
      <3>2. \/ SaveOrder(o, proc[p].copy) /\ UNCHANGED pool /\ UNCHANGED leaked
            \/ UNCHANGED <<row, pool, leaked>>
        BY <1>3, <2>4, <3>1 DEF Bury, SaveBoth
      <3>3. ASSUME SaveOrder(o, proc[p].copy), UNCHANGED pool, UNCHANGED leaked
            PROVE  InBooks
        <4>1. \A b \in Accounts : Holders(b)' = Holders(b)
          BY <2>3, <2>7, <3>3, HoldersApart
        <4>2. \A b \in Accounts : Starters(b)' = Starters(b)
          BY <2>1, <2>2, StartersKept
        <4> QED  BY <3>3, <4>1, <4>2 DEF InBooks, Even, pool
      <3> QED  BY <2>2, <2>5, <3>2, <3>3, KeepsGiving DEF Giving, Starting
    <2> QED  BY <2>6, <2>7
  <1> QED
    BY <1>1, <1>2, <1>3 DEF HandleDeadTask

\* The ticker frees the slot of the order it puts back, or loses it.
LEMMA RecoverBooks ==
  ASSUME Admins = {}, Typed, Hands, Alone, Served, Books, AllGive, NEW p \in Procs,
         RecoverStuckOrders(p)
  PROVE  InBooks /\ AllGive'
  <1>1. ASSUME proc[p].pc \in Recovering
        PROVE  /\ proc[p].order \in Orders /\ proc[p].copy \in Row /\ Running(proc[p].copy)
               /\ proc[p].copy.assigned \in Accounts /\ row[proc[p].order] = proc[p].copy
    BY <1>1, KnownBy, SeesItsOrder DEF Typed, Sees, Recovering
  <1>2. ASSUME LoadStuck(p)  PROVE InBooks /\ AllGive'
    <2>1. /\ proc[p].pc = "recover" /\ UNCHANGED <<row, slots, leaked>>
          /\ Become(p, Loaded(p, "recoverSave", proc[p].copy.assigned))
      BY <1>2 DEF LoadStuck, At, pool, history
    <2>2. PICK o \in Orders, a \in Accounts :
            /\ o = proc[p].order /\ a = proc[p].copy.assigned
            /\ Running(row[o]) /\ row[o].assigned = a
      BY <1>1, <2>1 DEF Recovering
    <2>3. "recoverSave" \in PCs  BY DEF PCs, OfficePCs
    <2>4. Only(p) /\ proc'[p].pc = "recoverSave" /\ proc'[p].back = SlotToRelease(a)
      BY <2>1, <2>2, <2>3, LoadedMoves DEF Typed
    <2>5. o \in Holders(a)  BY <2>2 DEF Holders
    <2>6. SlotToRelease(a) = 1  BY <2>5, HolderHasSlot
    <2> QED  BY <2>1, <2>4, <2>6, EvenStep, MoverGives DEF Gives
  <1>3. ASSUME RecoverOrderOnly(p)  PROVE InBooks /\ AllGive'
    <2>1. /\ proc[p].pc = "recover" /\ Goto(p, "requeue") /\ UNCHANGED slots
          /\ SaveOrder(proc[p].order, Requeued(proc[p].copy)) /\ Leak(proc[p].copy.assigned)
      BY <1>3 DEF RecoverOrderOnly, At, pool
    <2>2. Only(p) /\ proc'[p].pc = "requeue"
      BY <2>1, GotoMoves DEF Typed, ProcsOK, PCs, OfficePCs
    <2>3. Requeued(proc[p].copy) \in Row /\ ~Running(Requeued(proc[p].copy))
      BY <1>1, <2>1, CopiesAre DEF Running, Recovering
    <2>4. InBooks  BY <1>1, <2>1, <2>2, <2>3, SlotLost DEF Recovering
    <2> QED  BY <2>2, <2>4, KeepsGiving DEF Giving, Starting
  <1>4. ASSUME Recover(p)  PROVE InBooks /\ AllGive'
    <2>1. /\ proc[p].pc = "recoverSave" /\ Goto(p, "requeue") /\ UNCHANGED leaked
          /\ SaveBoth(proc[p].order, Requeued(proc[p].copy), proc[p].account, proc[p].seen,
                      proc[p].back)
      BY <1>4 DEF Recover, At, history
    <2>2. Only(p) /\ proc'[p].pc = "requeue"
      BY <2>1, GotoMoves DEF Typed, ProcsOK, PCs, OfficePCs
    <2>3. Requeued(proc[p].copy) \in Row /\ ~Running(Requeued(proc[p].copy))
      BY <1>1, <2>1, CopiesAre DEF Running, Recovering
    <2>4. proc[p].account = proc[p].copy.assigned /\ proc[p].seen \in {"active", "banned"}
      BY <2>1, KnownBy DEF Typed
    <2>5. proc[p].back = 1
      BY <1>1, <2>1, <2>4, AbsentAssumption DEF AllGive, Gives, Giving, Recovering
    <2>6. InBooks  BY <1>1, <2>1, <2>2, <2>3, <2>4, <2>5, SlotFreed DEF Recovering
    <2> QED  BY <2>2, <2>6, KeepsGiving DEF Giving, Starting
  <1>5. ASSUME Requeue(p)  PROVE InBooks /\ AllGive'
    <2>1. proc[p].pc = "requeue" /\ Return(p) /\ UNCHANGED <<row, slots, leaked>>
      BY <1>5 DEF Requeue, At, pool, history
    <2>2. Only(p) /\ proc'[p].pc = "idle"  BY <2>1, ReturnOK DEF Typed
    <2> QED  BY <2>1, <2>2, EvenStep, KeepsGiving DEF Giving, Starting
  <1> QED
    BY <1>2, <1>3, <1>4, <1>5 DEF RecoverStuckOrders

\* A pod that dies forgets the slot it was about to store, and nothing else.
LEMMA CrashBooks ==
  ASSUME Admins = {}, Typed, Hands, Alone, Served, Books, AllGive, NEW p \in Procs, Crash(p)
  PROVE  InBooks /\ AllGive'
  <1>1. /\ proc[p].pc # "idle" /\ Return(p) /\ UNCHANGED <<row, slots>>
        /\ proc[p].pc = "start" => Leak(proc[p].account)
        /\ proc[p].pc \notin {"start", "releaseSlot", "giveBack"} => UNCHANGED leaked
    BY DEF Crash, At, pool
  <1>2. proc[p].pc \notin {"releaseSlot", "giveBack"}  BY WhoWorks DEF Typed
  <1>3. Only(p) /\ proc'[p].pc = "idle"  BY <1>1, ReturnOK DEF Typed
  <1>4. CASE proc[p].pc = "start"
    <2>1. p \in Workers  BY <1>4, WhoWorks DEF Typed, WorkerPCs
    <2> QED  BY <1>1, <1>3, <1>4, <2>1, SlotForgotten, KeepsGiving DEF Giving, Starting
  <1>5. CASE proc[p].pc # "start"
    BY <1>1, <1>2, <1>3, <1>5, EvenStep, KeepsGiving DEF Giving, Starting
  <1> QED  BY <1>4, <1>5

\* A handler begins with nothing to give back.
LEMMA BeginBooks ==
  ASSUME Admins = {}, Typed, AllGive, NEW p \in Procs, Begin(p)
  PROVE  InBooks /\ AllGive'
  <1>1. ASSUME NEW o \in Orders, NEW c \in {"lock", "recover", "requeue"}, Enter(p, o, c),
               UNCHANGED <<row, slots, leaked>>
        PROVE  InBooks /\ AllGive'
    <2>1. c \in PCs  BY DEF PCs, WorkerPCs, OfficePCs
    <2>2. Only(p) /\ proc[p].pc = "idle" /\ proc'[p].pc = c
      BY <1>1, <2>1, EnterMoves DEF Typed
    <2> QED  BY <1>1, <2>2, EvenStep, KeepsGiving DEF Giving, Starting
  <1>2. ASSUME UNCHANGED <<row, slots, leaked, proc>>  PROVE InBooks /\ AllGive'
    BY <1>2 DEF InBooks, Even, Holders, Starters, At, AllGive, Gives
  <1>3. ASSUME NEW o \in Orders, TakeGenerate(p, o)  PROVE InBooks /\ AllGive'
    <2>1. /\ UNCHANGED <<row, slots, leaked>>
          /\ Enter(p, o, "lock") \/ UNCHANGED proc
      BY <1>3 DEF TakeGenerate, pool, history
    <2> QED  BY <1>1, <1>2, <2>1
  <1>4. ASSUME NEW o \in Orders, StartRecover(p, o) \/ RecoverQueued(p, o)
        PROVE  InBooks /\ AllGive'
    <2>1. /\ UNCHANGED <<row, slots, leaked>>
          /\ Enter(p, o, "recover") \/ Enter(p, o, "requeue")
      BY <1>4 DEF StartRecover, RecoverQueued, pool, history
    <2> QED  BY <1>1, <2>1
  <1>5. ASSUME NEW t \in polls, TakePoll(p, t)  PROVE InBooks /\ AllGive'
    <2>1. UNCHANGED <<row, slots, leaked>>  BY <1>5 DEF TakePoll, pool, history
    <2>2. CASE Running(row[t[1]])
      <3>1. Only(p) /\ proc[p].pc = "idle" /\ proc'[p].pc = "fetch"
        BY <1>5, <2>2, EnterPollMoves DEF Typed
      <3> QED  BY <2>1, <3>1, EvenStep, KeepsGiving DEF Giving, Starting
    <2>3. CASE ~Running(row[t[1]])
      <3>1. UNCHANGED proc  BY <1>5, <2>3 DEF TakePoll
      <3> QED  BY <1>2, <2>1, <3>1
    <2> QED  BY <2>2, <2>3
  <1> QED
    BY <1>3, <1>4, <1>5 DEF Begin, StartRefund, StartRegenerate

\* Every step keeps the books.
LEMMA BooksKept ==
  ASSUME Admins = {}, Typed, Hands, Alone, Served, Books, AllGive, [Next]_vars
  PROVE  Books' /\ AllGive'
  <1>1. ASSUME NEW p \in Procs, Work(p)  PROVE InBooks /\ AllGive'
    <2>1. ASSUME RefundOrder(p) \/ Regenerate(p)  PROVE FALSE
      BY <2>1, WhoWorks
         DEF RefundOrder, Refund, LoadReleased, ReleaseSlot, Regenerate, At, Typed
    <2> QED
      BY <1>1, <2>1, GenerateBooks, StatusCheckBooks, DeadTaskBooks, RecoverBooks DEF Work
  <1>2. ASSUME UNCHANGED <<row, slots, leaked, proc>>  PROVE InBooks /\ AllGive'
    BY <1>2 DEF InBooks, Even, Holders, Starters, At, AllGive, Gives
  <1>3. ASSUME NEW o \in Orders, GoQuiet(o)  PROVE UNCHANGED <<row, slots, leaked, proc>>
    BY <1>3 DEF GoQuiet, pool, history
  <1>4. ASSUME NEW a \in Accounts, Reactivate(a)  PROVE FALSE
    BY <1>4 DEF Reactivate
  <1>5. ASSUME UNCHANGED vars  PROVE UNCHANGED <<row, slots, leaked, proc>>
    BY <1>5 DEF vars, pool, history
  <1>6. InBooks /\ AllGive'
    BY <1>1, <1>2, <1>3, <1>4, <1>5, BeginBooks, CrashBooks DEF Next
  <1> QED  BY <1>6, BooksStep

\* concurrent_tasks counts the orders in processing, the starts not stored yet and the
\* slots the code has lost: of any workers, crashes, retries and recoveries, and as long as
\* one ticker runs and no admin interferes.
THEOREM SlotsAccounted ==
  ASSUME HeartbeatHolds, SoleTicker, Admins = {}
  PROVE  Spec => []SlotsAccountedFor
  <1>1. Init => Books /\ AllGive
    <2> SUFFICES ASSUME Init  PROVE Books /\ AllGive
      OBVIOUS
    <2>1. \A p \in Procs : proc[p] = Idle  BY DEF Init
    <2>2. \A a \in Accounts : Holders(a) = {} /\ Starters(a) = {}
      BY <2>1, IdleIs DEF Init, Holders, Starters, Running, Fresh, At, Procs
    <2>3. \A a \in Accounts : slots[a] = 0 /\ leaked[a] = 0  BY DEF Init
    <2>4. Books  BY <2>2, <2>3, FS_EmptySet, NumbersAssumption DEF Books, Booked
    <2>5. AllGive  BY <2>1, IdleIs DEF AllGive, Gives, Giving, Starting
    <2> QED  BY <2>4, <2>5
  <1>2. Typed /\ Hands /\ Alone /\ Served /\ Books /\ AllGive /\ [Next]_vars => Books' /\ AllGive'
    BY BooksKept
  <1>3. Books => SlotsAccountedFor  BY DEF Books, Booked, SlotsAccountedFor
  <1>4. Spec => [](Typed /\ Hands /\ Alone /\ Served)  BY ServedHolds
  <1> QED  BY <1>1, <1>2, <1>3, <1>4, PTL DEF Spec
=============================================================================
