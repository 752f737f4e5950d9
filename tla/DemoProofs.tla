----------------------------- MODULE DemoProofs -----------------------------
(***************************************************************************)
(* The demo for any orders, workers, admins, slots and jobs: the types, and*)
(* with one ticker and polls that end before it looks, the four invariants *)
(* of Demo.  They rest on what a goroutine knows of itself (Typed), on     *)
(* whose a task and a poll are (Hands), on who may be on a demo in work    *)
(* (Alone), on where its clips are and what the song knows of them (Kept), *)
(* and on when its slot is given back (Given) and counted (Books).         *)
(***************************************************************************)
EXTENDS Demo, TLAPS, FiniteSetTheorems

-----------------------------------------------------------------------------
(* What every goroutine knows of itself.                                   *)

\* A worker on a demo task has not stored the start of the demo, or has and goes on to
\* Suno; or it is on a poll.
Starts(g) ==
  \/ g.pc \in {"lock", "limits", "limited", "start"}
  \/ g.pc = "release" /\ g.then \in {"limited", "finish", "error"}
  \/ g.pc = "error" /\ g.job = 0
Submits(g) ==
  \/ g.pc \in {"submit", "enqueue", "markFailed"}
  \/ g.pc = "release" /\ g.then = "markFailed"
OnTask(g) == Starts(g) \/ Submits(g) \/ g.pc = "finish"
OnCheck(g) ==
  \/ g.pc \in {"fetch", "clips", "preview", "saveReady", "saveFailed"}
  \/ g.pc = "release" /\ g.then \in {"saveReady", "saveFailed"}
  \/ g.pc = "error" /\ g.job > 0

\* A goroutine has its order; a slot it has captured is in its hands until it is stored
\* with the order or given back; a job belongs to a poll, or to one that is not queued.
GoroutineOK(g) ==
  /\ IF g.pc = "idle" THEN g.order = NoOrder /\ ~g.holds ELSE g.order \in Orders
  /\ g.holds => /\ g.pc \in {"limits", "start", "release"}
                /\ g.pc = "release" => g.then \in {"limited", "finish", "error"}
  /\ g.pc \in {"limits", "start"} => g.holds
  /\ Starts(g) \/ g.pc \in {"submit", "finish"} => g.job = 0
  /\ g.pc = "enqueue" => g.job > 0
  /\ Starts(g) => ~Settled(g.copy)

RoleOK(p, g) ==
  /\ p \in Workers => g.pc = "idle" \/ OnTask(g) \/ (OnCheck(g) /\ g.job > 0)
  /\ p \in Crons => /\ g.job = 0
                    /\ \/ g.pc \in {"idle", "saveFailed"}
                       \/ g.pc = "release" /\ g.then = "saveFailed"
  /\ p \in Admins => g.pc \in {"idle", "delete", "clear"}

ProcsOK ==
  /\ proc \in [Procs -> Goroutine]
  /\ \A p \in Procs : GoroutineOK(proc[p]) /\ RoleOK(p, proc[p])
DemosOK == demo \in [Orders -> DemoRow] /\ quiet \subseteq Orders /\ ghosts \subseteq Orders
TaskStates == {"none", "pending", "active", "retry", "archived"}
QueueOK ==
  /\ task \in [Orders -> TaskStates] /\ checks \subseteq Orders \X (Nat \ {0})
  /\ submitted \in [Orders -> Nat]
SongsOK ==
  /\ song \in [Orders -> SongRow] /\ invoice \in [Orders -> {"none", "pending", "paid"}]
  /\ calling \subseteq Orders /\ slots \in Nat
StoreOK ==
  /\ stored \subseteq Orders \X Nat
  /\ leaked \in Nat /\ stolen \in BOOLEAN /\ cleared \subseteq Orders

Typed == ProcsOK /\ DemosOK /\ QueueOK /\ SongsOK /\ StoreOK

-----------------------------------------------------------------------------
(* What a step does to its goroutine.                                      *)

Only(p) ==
  /\ proc' \in [Procs -> Goroutine]
  /\ \A q \in Procs \ {p} : proc'[q] = proc[q]

\* The goroutine goes on with its order.
Goes(p, c, j, h, t) ==
  /\ Only(p)
  /\ proc'[p].order = proc[p].order /\ proc'[p].copy.clips = proc[p].copy.clips
  /\ proc'[p].pc = c /\ proc'[p].job = j /\ proc'[p].holds = h /\ proc'[p].then = t

\* A step moves its goroutine alone.
LEMMA BecomeMoves ==
  ASSUME proc \in [Procs -> Goroutine], NEW p \in Procs, NEW g \in Goroutine, Become(p, g)
  PROVE  Only(p) /\ proc'[p] = g
  BY DEF Become, Only

\* A jump changes the program counter, and what it says besides.
LEMMA GotoMoves ==
  ASSUME proc \in [Procs -> Goroutine], NEW p \in Procs, NEW c \in PCs, Goto(p, c)
  PROVE  Goes(p, c, proc[p].job, proc[p].holds, proc[p].then) /\ proc'[p].copy = proc[p].copy
  <1> DEFINE g == [proc[p] EXCEPT !.pc = c]
  <1>1. proc[p] \in Goroutine  OBVIOUS
  <1>2. /\ g \in Goroutine /\ g.pc = c /\ g.order = proc[p].order /\ g.copy = proc[p].copy
        /\ g.job = proc[p].job /\ g.holds = proc[p].holds /\ g.then = proc[p].then
    BY <1>1 DEF Goroutine
  <1>3. Become(p, g)  BY DEF Goto
  <1> HIDE DEF g
  <1> QED  BY <1>2, <1>3, BecomeMoves DEF Goes

\* A release is a jump that remembers where it goes on.
LEMMA ReleaseMoves ==
  ASSUME proc \in [Procs -> Goroutine], NEW p \in Procs, NEW c \in PCs, Release(p, c)
  PROVE  Goes(p, "release", proc[p].job, proc[p].holds, c) /\ proc'[p].copy = proc[p].copy
  <1> DEFINE g == [proc[p] EXCEPT !.pc = "release", !.then = c]
  <1>1. proc[p] \in Goroutine  OBVIOUS
  <1>2. /\ g \in Goroutine /\ g.pc = "release" /\ g.order = proc[p].order
        /\ g.copy = proc[p].copy /\ g.job = proc[p].job /\ g.holds = proc[p].holds /\ g.then = c
    BY <1>1 DEF Goroutine, PCs
  <1>3. Become(p, g)  BY DEF Release
  <1> HIDE DEF g
  <1> QED  BY <1>2, <1>3, BecomeMoves DEF Goes

\* So do a lock, a job and a slot that is given back.
LEMMA HoldMoves ==
  ASSUME proc \in [Procs -> Goroutine], NEW p \in Procs,
         Become(p, [proc[p] EXCEPT !.pc = "limits", !.holds = TRUE])
  PROVE  Goes(p, "limits", proc[p].job, TRUE, proc[p].then) /\ proc'[p].copy = proc[p].copy
  <1> DEFINE g == [proc[p] EXCEPT !.pc = "limits", !.holds = TRUE]
  <1>1. proc[p] \in Goroutine  OBVIOUS
  <1>2. /\ g \in Goroutine /\ g.pc = "limits" /\ g.order = proc[p].order /\ g.copy = proc[p].copy
        /\ g.job = proc[p].job /\ g.holds = TRUE /\ g.then = proc[p].then
    BY <1>1 DEF Goroutine, PCs
  <1>3. Become(p, g)  OBVIOUS
  <1> HIDE DEF g
  <1> QED  BY <1>2, <1>3, BecomeMoves DEF Goes

\* A worker learns its job at Suno, and forgets it with the poll.
LEMMA JobMoves ==
  ASSUME proc \in [Procs -> Goroutine], NEW p \in Procs, NEW c \in PCs, NEW j \in Nat,
         Become(p, [proc[p] EXCEPT !.pc = c, !.job = j])
  PROVE  Goes(p, c, j, proc[p].holds, proc[p].then) /\ proc'[p].copy = proc[p].copy
  <1> DEFINE g == [proc[p] EXCEPT !.pc = c, !.job = j]
  <1>1. proc[p] \in Goroutine  OBVIOUS
  <1>2. /\ g \in Goroutine /\ g.pc = c /\ g.order = proc[p].order /\ g.copy = proc[p].copy
        /\ g.job = j /\ g.holds = proc[p].holds /\ g.then = proc[p].then
    BY <1>1 DEF Goroutine
  <1>3. Become(p, g)  OBVIOUS
  <1> HIDE DEF g
  <1> QED  BY <1>2, <1>3, BecomeMoves DEF Goes

\* It goes on from a release without a slot.
LEMMA GiveMoves ==
  ASSUME proc \in [Procs -> Goroutine], NEW p \in Procs, GiveBack(p)
  PROVE  /\ Goes(p, proc[p].then, proc[p].job, FALSE, "finish")
         /\ proc'[p].copy = proc[p].copy
  <1> DEFINE g == [proc[p] EXCEPT !.pc = proc[p].then, !.holds = FALSE, !.then = "finish"]
  <1>1. proc[p] \in Goroutine  OBVIOUS
  <1>2. /\ g \in Goroutine /\ g.pc = proc[p].then /\ g.order = proc[p].order
        /\ g.copy = proc[p].copy /\ g.job = proc[p].job /\ g.holds = FALSE /\ g.then = "finish"
    BY <1>1 DEF Goroutine, PCs
  <1>3. Become(p, g)  BY DEF GiveBack
  <1> HIDE DEF g
  <1> QED  BY <1>2, <1>3, BecomeMoves DEF Goes

\* What StartDemo, FailDemo, CompleteDemo and MarkDemoLimited make of a copy.
LEMMA DemoIs ==
  ASSUME NEW d \in DemoRow
  PROVE  /\ StartDemo(d) \in DemoRow /\ StartDemo(d).status = "processing"
         /\ StartDemo(d).held /\ StartDemo(d).clips = d.clips
         /\ FailDemo(d) \in DemoRow /\ FailDemo(d).status = "failed" /\ FailDemo(d).clips = d.clips
         /\ MarkDemoLimited(d) \in DemoRow /\ MarkDemoLimited(d).clips = d.clips
         /\ Settled(d) => MarkDemoLimited(d) = d
         /\ ~Settled(d) => MarkDemoLimited(d).status = "limited"
         /\ NoDemo \in DemoRow /\ NoDemo.status = "none" /\ NoDemo.clips = 0
         /\ \A n \in Nat : /\ CompleteDemo(d, n) \in DemoRow
                           /\ CompleteDemo(d, n).status = "ready"
                           /\ CompleteDemo(d, n).clips = n
  BY DEF DemoRow, StartDemo, FailDemo, MarkDemoLimited, CompleteDemo, NoDemo

\* The start of a demo is kept in the copy.
LEMMA SaveStartMoves ==
  ASSUME proc \in [Procs -> Goroutine], NEW p \in Procs, SaveStart(p)
  PROVE  Goes(p, "submit", proc[p].job, FALSE, proc[p].then)
  <1> DEFINE d == StartDemo(proc[p].copy)
             g == [proc[p] EXCEPT !.pc = "submit", !.holds = FALSE, !.copy = d]
  <1>1. proc[p] \in Goroutine /\ proc[p].copy \in DemoRow  BY DEF Goroutine
  <1>2. d \in DemoRow /\ d.clips = proc[p].copy.clips  BY <1>1, DemoIs
  <1>3. Become(p, g)  BY <1>1 DEF SaveStart, Goroutine
  <1> HIDE DEF d
  <1>4. /\ g \in Goroutine /\ g.pc = "submit" /\ g.order = proc[p].order /\ g.copy = d
        /\ g.job = proc[p].job /\ g.holds = FALSE /\ g.then = proc[p].then
    BY <1>1, <1>2 DEF Goroutine, PCs
  <1> HIDE DEF g
  <1> QED  BY <1>2, <1>3, <1>4, BecomeMoves DEF Goes

\* A goroutine that is idle, and one that begins with what it reads.
LEMMA IdleIs ==
  /\ Idle \in Goroutine /\ Idle.pc = "idle" /\ Idle.order = NoOrder /\ Idle.copy = NoDemo
  /\ Idle.job = 0 /\ ~Idle.holds /\ Idle.then = "finish"
  <1>1. NoDemo \in DemoRow  BY DEF NoDemo, DemoRow
  <1> QED  BY <1>1 DEF Idle, Goroutine, PCs

Begins(p, o, c, j, t) ==
  /\ Only(p) /\ proc[p].pc = "idle"
  /\ proc'[p].order = o /\ proc'[p].copy = demo[o]
  /\ proc'[p].pc = c /\ proc'[p].job = j /\ ~proc'[p].holds /\ proc'[p].then = t

\* A handler that returns leaves an idle goroutine.
LEMMA ReturnMoves ==
  ASSUME proc \in [Procs -> Goroutine], NEW p \in Procs, Return(p)
  PROVE  Only(p) /\ proc'[p] = Idle
  BY IdleIs, BecomeMoves DEF Return

\* A goroutine begins with the demo as it reads it.
LEMMA EnterMoves ==
  ASSUME ProcsOK, DemosOK, NEW p \in Procs, NEW o \in Orders, NEW c \in PCs, Enter(p, o, c)
  PROVE  Begins(p, o, c, 0, "finish")
  <1> DEFINE g == [Idle EXCEPT !.pc = c, !.order = o, !.copy = demo[o]]
  <1>1. demo[o] \in DemoRow  BY DEF DemosOK
  <1>2. /\ g \in Goroutine /\ g.pc = c /\ g.order = o /\ g.copy = demo[o]
        /\ g.job = 0 /\ ~g.holds /\ g.then = "finish"
    BY <1>1, IdleIs DEF Goroutine
  <1>3. Become(p, g) /\ proc[p].pc = "idle"  BY DEF Enter, At
  <1> HIDE DEF g
  <1> QED  BY <1>2, <1>3, BecomeMoves DEF Begins, ProcsOK

\* A worker that takes a poll knows its job.
LEMMA TakeCheckMoves ==
  ASSUME ProcsOK, DemosOK, QueueOK, NEW p \in Procs, NEW t \in checks, TakeCheck(p, t),
         Running(demo[t[1]])
  PROVE  Begins(p, t[1], "fetch", t[2], "finish") /\ checks' = checks
  <1> DEFINE o == t[1]
             j == t[2]
             g == [Idle EXCEPT !.pc = "fetch", !.order = o, !.copy = demo[o], !.job = j]
  <1>1. o \in Orders /\ j \in Nat /\ demo[o] \in DemoRow  BY DEF DemosOK, QueueOK
  <1>2. Become(p, g) /\ proc[p].pc = "idle" /\ checks' = checks  BY DEF TakeCheck, At
  <1> HIDE DEF o, j
  <1>3. /\ g \in Goroutine /\ g.pc = "fetch" /\ g.order = o /\ g.copy = demo[o]
        /\ g.job = j /\ ~g.holds /\ g.then = "finish"
    BY <1>1, IdleIs DEF Goroutine, PCs
  <1> HIDE DEF g
  <1> QED  BY <1>2, <1>3, BecomeMoves DEF Begins, ProcsOK, o, j

\* The ticker begins with the release of the slot.
LEMMA RecoverMoves ==
  ASSUME ProcsOK, DemosOK, NEW p \in Procs, NEW o \in Orders, StartRecover(p, o)
  PROVE  Begins(p, o, "release", 0, "saveFailed")
  <1> DEFINE g == [Idle EXCEPT !.pc = "release", !.then = "saveFailed", !.order = o,
                               !.copy = demo[o]]
  <1>1. demo[o] \in DemoRow  BY DEF DemosOK
  <1>2. /\ g \in Goroutine /\ g.pc = "release" /\ g.order = o /\ g.copy = demo[o]
        /\ g.job = 0 /\ ~g.holds /\ g.then = "saveFailed"
    BY <1>1, IdleIs DEF Goroutine, PCs
  <1>3. Become(p, g) /\ proc[p].pc = "idle"  BY DEF StartRecover, At
  <1> HIDE DEF g
  <1> QED  BY <1>2, <1>3, BecomeMoves DEF Begins, ProcsOK

-----------------------------------------------------------------------------
(* The steps of a handler, by the stage they leave it in.                  *)

Jump(p) ==
  \/ LockAccount(p) \/ Limits(p) \/ SaveStartFails(p) \/ SubmitFails(p) \/ FetchLater(p)
  \/ FetchTerminal(p) \/ UploadClips(p) \/ UploadPreview(p) \/ UploadFails(p)
  \/ SaveReadyFails(p) \/ GiveBack(p)

\* The handler stays where it was: before the start, before the poll is queued, on its
\* poll; or it has only its task to finish.
Stays(p) ==
  \/ Starts(proc[p]) /\ (Starts(proc'[p]) \/ proc'[p].pc = "finish")
  \/ Submits(proc[p]) /\ Submits(proc'[p])
  \/ OnCheck(proc[p]) /\ OnCheck(proc'[p])

\* What such a step leaves as it is.
Still ==
  UNCHANGED <<demo, quiet, task, checks, submitted, song, invoice, calling, cleared>>

\* A handler in the middle keeps its order, its copy and its stage.
LEMMA JumpMoves ==
  ASSUME Typed, NEW p \in Procs, Jump(p)
  PROVE  /\ Only(p) /\ proc[p].pc # "idle"
         /\ proc'[p].order = proc[p].order /\ proc'[p].copy = proc[p].copy
         /\ proc'[p].job = proc[p].job
         /\ Stays(p) /\ Still
         /\ GoroutineOK(proc'[p]) /\ RoleOK(p, proc'[p])
  <1>1. /\ proc \in [Procs -> Goroutine] /\ proc[p] \in Goroutine
        /\ GoroutineOK(proc[p]) /\ RoleOK(p, proc[p])
    BY DEF Typed, ProcsOK
  <1>2. p \in Workers \/ p \in Crons \/ p \in Admins  BY DEF Procs
  <1>3. CASE LockAccount(p)
    <2>1. /\ proc[p].pc = "lock" /\ Still
          /\ Become(p, [proc[p] EXCEPT !.pc = "limits", !.holds = TRUE])
      BY <1>3 DEF LockAccount, At, Still, Spared, queue, history
    <2>2. Goes(p, "limits", proc[p].job, TRUE, proc[p].then) /\ proc'[p].copy = proc[p].copy
      BY <1>1, <2>1, HoldMoves
    <2> QED
      BY <1>1, <1>2, <2>1, <2>2
      DEF Goes, Stays, Starts, Submits, OnTask, OnCheck, GoroutineOK, RoleOK
  <1>4. CASE Limits(p)
    <2>1. /\ proc[p].pc = "limits" /\ Still
          /\ Goto(p, "start") \/ Release(p, "limited") \/ Release(p, "finish")
      BY <1>4 DEF Limits, At, Still, Spared, queue, history
    <2>2. /\ proc'[p].copy = proc[p].copy
          /\ \/ Goes(p, "start", proc[p].job, proc[p].holds, proc[p].then)
             \/ Goes(p, "release", proc[p].job, proc[p].holds, "limited")
             \/ Goes(p, "release", proc[p].job, proc[p].holds, "finish")
      BY <1>1, <2>1, GotoMoves, ReleaseMoves DEF PCs
    <2> QED
      BY <1>1, <1>2, <2>1, <2>2
      DEF Goes, Stays, Starts, Submits, OnTask, OnCheck, GoroutineOK, RoleOK
  <1>5. CASE SaveStartFails(p)
    <2>1. proc[p].pc = "start" /\ Still /\ Release(p, "error")
      BY <1>5 DEF SaveStartFails, At, Still, Spared, queue, history
    <2>2. Goes(p, "release", proc[p].job, proc[p].holds, "error") /\ proc'[p].copy = proc[p].copy
      BY <1>1, <2>1, ReleaseMoves DEF PCs
    <2> QED
      BY <1>1, <1>2, <2>1, <2>2
      DEF Goes, Stays, Starts, Submits, OnTask, OnCheck, GoroutineOK, RoleOK
  <1>6. CASE SubmitFails(p)
    <2>1. proc[p].pc \in {"submit", "enqueue"} /\ Still /\ Release(p, "markFailed")
      BY <1>6 DEF SubmitFails, At, Still, Spared, queue, history
    <2>2. /\ Goes(p, "release", proc[p].job, proc[p].holds, "markFailed")
          /\ proc'[p].copy = proc[p].copy
      BY <1>1, <2>1, ReleaseMoves DEF PCs
    <2> QED
      BY <1>1, <1>2, <2>1, <2>2
      DEF Goes, Stays, Starts, Submits, OnTask, OnCheck, GoroutineOK, RoleOK
  <1>7. CASE FetchLater(p) \/ UploadFails(p) \/ SaveReadyFails(p)
    <2>1. proc[p].pc \in {"fetch", "clips", "preview", "saveReady"} /\ Still /\ Goto(p, "error")
      BY <1>7 DEF FetchLater, UploadFails, SaveReadyFails, At, Still, Spared, queue, history
    <2>2. Goes(p, "error", proc[p].job, proc[p].holds, proc[p].then) /\ proc'[p].copy = proc[p].copy
      BY <1>1, <2>1, GotoMoves DEF PCs
    <2> QED
      BY <1>1, <1>2, <2>1, <2>2
      DEF Goes, Stays, Starts, Submits, OnTask, OnCheck, GoroutineOK, RoleOK
  <1>8. CASE FetchTerminal(p)
    <2>1. proc[p].pc = "fetch" /\ Still /\ (Goto(p, "clips") \/ Release(p, "saveFailed"))
      BY <1>8 DEF FetchTerminal, At, Still, Spared, queue, history
    <2>2. /\ proc'[p].copy = proc[p].copy
          /\ \/ Goes(p, "clips", proc[p].job, proc[p].holds, proc[p].then)
             \/ Goes(p, "release", proc[p].job, proc[p].holds, "saveFailed")
      BY <1>1, <2>1, GotoMoves, ReleaseMoves DEF PCs
    <2> QED
      BY <1>1, <1>2, <2>1, <2>2
      DEF Goes, Stays, Starts, Submits, OnTask, OnCheck, GoroutineOK, RoleOK
  <1>9. CASE UploadClips(p) \/ UploadPreview(p)
    <2>1. /\ Still
          /\ \/ proc[p].pc = "clips" /\ Goto(p, "preview")
             \/ proc[p].pc = "preview" /\ Release(p, "saveReady")
      BY <1>9 DEF UploadClips, UploadPreview, At, Still, Spared, queue, history
    <2>2. /\ proc'[p].copy = proc[p].copy /\ proc[p].pc \in {"clips", "preview"}
          /\ \/ Goes(p, "preview", proc[p].job, proc[p].holds, proc[p].then)
             \/ Goes(p, "release", proc[p].job, proc[p].holds, "saveReady")
      BY <1>1, <2>1, GotoMoves, ReleaseMoves DEF PCs
    <2> QED
      BY <1>1, <1>2, <2>1, <2>2
      DEF Goes, Stays, Starts, Submits, OnTask, OnCheck, GoroutineOK, RoleOK
  <1>10. CASE GiveBack(p)
    <2>1. proc[p].pc = "release" /\ Still
      BY <1>10 DEF GiveBack, At, Still, Spared, queue, history
    <2>2. Goes(p, proc[p].then, proc[p].job, FALSE, "finish") /\ proc'[p].copy = proc[p].copy
      BY <1>1, <1>10, GiveMoves
    <2> QED
      BY <1>1, <1>2, <2>1, <2>2
      DEF Goes, Stays, Starts, Submits, OnTask, OnCheck, GoroutineOK, RoleOK
  <1> QED  BY <1>3, <1>4, <1>5, <1>6, <1>7, <1>8, <1>9, <1>10 DEF Jump

\* The steps that end a handler.
Leave(p) ==
  \/ PoolBusy(p) \/ MarkLimited(p) \/ MarkFailed(p) \/ SaveFailed(p) \/ Finish(p) \/ Error(p)
  \/ SaveReady(p) \/ Crash(p) \/ ClearSaved(p) \/ (DeleteFiles(p) /\ Return(p))

\* They leave the goroutine idle.
LEMMA LeaveMoves ==
  ASSUME Typed, NEW p \in Procs, Leave(p)
  PROVE  /\ Only(p) /\ proc'[p] = Idle /\ proc[p].pc # "idle" /\ proc[p].order \in Orders
         /\ UNCHANGED <<submitted, song, invoice, calling, slots>>
  <1>1. Return(p) /\ proc[p].pc # "idle" /\ UNCHANGED <<submitted, song, invoice, calling, slots>>
    BY DEF Leave, PoolBusy, MarkLimited, MarkFailed, SaveFailed, Finish, Error, SaveReady, Crash,
           ClearSaved, DeleteFiles, At, Spared
  <1>2. proc \in [Procs -> Goroutine] /\ GoroutineOK(proc[p])  BY DEF Typed, ProcsOK
  <1> QED  BY <1>1, <1>2, ReturnMoves DEF GoroutineOK

-----------------------------------------------------------------------------
(* Types.                                                                  *)

\* It is enough to look at the goroutine that moves; an idle one is fine.
LEMMA ProcsKept ==
  ASSUME ProcsOK, NEW p \in Procs, Only(p), GoroutineOK(proc'[p]), RoleOK(p, proc'[p])
  PROVE  ProcsOK'
  BY DEF ProcsOK, Only

\* A goroutine that is left idle has nothing to know.
LEMMA ProcsLeft ==
  ASSUME ProcsOK, NEW p \in Procs, Only(p), proc'[p] = Idle
  PROVE  ProcsOK'
  <1>1. ~Starts(Idle)  BY IdleIs DEF Starts
  <1> QED  BY <1>1, IdleIs, ProcsKept DEF GoroutineOK, RoleOK

\* What is left alone keeps its type.
LEMMA Unmoved ==
  /\ ProcsOK /\ UNCHANGED proc => ProcsOK'
  /\ DemosOK /\ UNCHANGED <<demo, quiet, ghosts>> => DemosOK'
  /\ QueueOK /\ UNCHANGED <<task, checks, submitted>> => QueueOK'
  /\ SongsOK /\ UNCHANGED <<song, invoice, calling, slots>> => SongsOK'
  /\ StoreOK /\ UNCHANGED <<stored, leaked, stolen, cleared>> => StoreOK'
  BY DEF ProcsOK, GoroutineOK, RoleOK, DemosOK, QueueOK, SongsOK, StoreOK

\* A save writes a row, and an order that has been saved is not quiet.
LEMMA UpdateTyped ==
  ASSUME DemosOK, NEW o \in Orders, NEW d \in DemoRow, UpdateDemo(o, d)
  PROVE  /\ DemosOK' /\ demo'[o] = d /\ o \notin quiet'
         /\ \A x \in Orders \ {o} : demo'[x] = demo[x] /\ (x \in quiet' <=> x \in quiet)
                                    /\ (x \in ghosts' <=> x \in ghosts)
         /\ o \in ghosts' <=> o \in ghosts /\ Running(d)
  BY DEF DemosOK, UpdateDemo

\* A task is finished or fails.
LEMMA QueueTyped ==
  ASSUME QueueOK, NEW p \in Procs, FinishTask(p) \/ TaskFails(p), UNCHANGED submitted
  PROVE  QueueOK'
  BY DEF QueueOK, FinishTask, TaskFails, TaskStates, queue

\* Every step of a goroutine keeps the types.
LEMMA JumpTyped ==
  ASSUME Typed, NEW p \in Procs, Jump(p)
  PROVE  Typed'
  <1>1. /\ Only(p) /\ GoroutineOK(proc'[p]) /\ RoleOK(p, proc'[p])
        /\ proc[p].order \in Orders /\ proc[p].job \in Nat /\ Still
    BY JumpMoves DEF Typed, ProcsOK, GoroutineOK, Goroutine
  <1>2. ProcsOK'  BY <1>1, ProcsKept DEF Typed
  <1>3. QueueOK'  BY <1>1, Unmoved DEF Typed, Still
  <1>4. /\ slots' \in Nat /\ ghosts' \subseteq Orders /\ leaked' \in Nat /\ stolen' \in BOOLEAN
        /\ stored' \subseteq Orders \X Nat
    <2>1. CASE LockAccount(p)
      BY <2>1 DEF LockAccount, Typed, DemosOK, SongsOK, StoreOK, history
    <2>2. CASE GiveBack(p)
      <3>1. Less(slots, 1) \in Nat /\ Leak(leaked) \in Nat
        BY DEF Typed, SongsOK, StoreOK, Less, Leak
      <3> QED  BY <1>1, <2>2, <3>1 DEF GiveBack, Typed, DemosOK, SongsOK, StoreOK
    <2>3. CASE UploadClips(p)
      BY <1>1, <2>3 DEF UploadClips, Typed, DemosOK, SongsOK, StoreOK, history, Check
    <2>4. CASE Jump(p) /\ ~LockAccount(p) /\ ~GiveBack(p) /\ ~UploadClips(p)
      BY <2>4 DEF Jump, Limits, SaveStartFails, SubmitFails, FetchLater, FetchTerminal,
                  UploadPreview, UploadFails, SaveReadyFails, history,
                  Typed, DemosOK, SongsOK, StoreOK
    <2> QED  BY <2>1, <2>2, <2>3, <2>4
  <1>5. DemosOK' /\ SongsOK' /\ StoreOK'
    BY <1>1, <1>4 DEF Typed, Still, DemosOK, SongsOK, StoreOK
  <1> QED  BY <1>2, <1>3, <1>5 DEF Typed

\* What a handler writes as it ends: an end of the demo, or its copy when that is limited
\* already; the clips of the copy, or of the job.
Saves(p, d) ==
  /\ UpdateDemo(proc[p].order, d)
  /\ proc[p].pc \in {"limited", "markFailed", "saveFailed", "saveReady", "clear"}
  /\ Running(d) => At(p, "limited") /\ d = proc[p].copy
  /\ \/ d.clips = proc[p].copy.clips
     \/ At(p, "saveReady") /\ d.status = "ready" /\ d.clips = proc[p].job
     \/ At(p, "clear")

\* A handler that ends writes nothing else.
LEMMA LeaveSaves ==
  ASSUME Typed, NEW p \in Procs, Leave(p)
  PROVE  UNCHANGED <<demo, quiet, ghosts>> \/ \E d \in DemoRow : Saves(p, d)
  <1>1. proc[p] \in Goroutine  BY DEF Typed, ProcsOK
  <1> DEFINE c == proc[p].copy
             j == proc[p].job
  <1>2. c \in DemoRow /\ j \in Nat  BY <1>1 DEF Goroutine
  <1>3. \/ UNCHANGED <<demo, quiet, ghosts>>
        \/ UpdateDemo(proc[p].order, FailDemo(c)) /\ proc[p].pc \in {"markFailed", "saveFailed"}
        \/ UpdateDemo(proc[p].order, MarkDemoLimited(c)) /\ At(p, "limited")
        \/ UpdateDemo(proc[p].order, CompleteDemo(c, j)) /\ At(p, "saveReady")
        \/ UpdateDemo(proc[p].order, NoDemo) /\ At(p, "clear")
    BY DEF Leave, PoolBusy, MarkLimited, MarkFailed, SaveFailed, Finish, Error, SaveReady, Crash,
           ClearSaved, DeleteFiles, TrySave, history, ClearDemo, At
  <1>4. /\ FailDemo(c) \in DemoRow /\ ~Running(FailDemo(c)) /\ FailDemo(c).clips = c.clips
        /\ MarkDemoLimited(c) \in DemoRow /\ MarkDemoLimited(c).clips = c.clips
        /\ Running(MarkDemoLimited(c)) => MarkDemoLimited(c) = c
        /\ CompleteDemo(c, j) \in DemoRow /\ ~Running(CompleteDemo(c, j))
        /\ CompleteDemo(c, j).status = "ready" /\ CompleteDemo(c, j).clips = j
        /\ NoDemo \in DemoRow /\ ~Running(NoDemo)
    BY <1>2, DemoIs DEF Running
  <1> QED  BY <1>3, <1>4 DEF Saves, At

\* The end of a handler keeps the types.
LEMMA LeaveTyped ==
  ASSUME Typed, NEW p \in Procs, Leave(p)
  PROVE  Typed'
  <1>1. /\ Only(p) /\ proc'[p] = Idle /\ proc[p].order \in Orders
        /\ UNCHANGED <<submitted, song, invoice, calling, slots>>
    BY LeaveMoves
  <1>2. ProcsOK' /\ SongsOK'  BY <1>1, ProcsLeft, Unmoved DEF Typed
  <1>3. DemosOK'
    <2>1. CASE UNCHANGED <<demo, quiet, ghosts>>  BY <2>1, Unmoved DEF Typed
    <2>2. ASSUME NEW d \in DemoRow, Saves(p, d)  PROVE DemosOK'
      BY <1>1, <2>2, UpdateTyped DEF Saves, Typed
    <2> QED  BY <2>1, <2>2, LeaveSaves
  <1>4. QueueOK'
    <2>1. CASE FinishTask(p) \/ TaskFails(p)  BY <1>1, <2>1, QueueTyped DEF Typed
    <2>2. CASE checks' = checks /\ task' \in {task, [task EXCEPT ![proc[p].order] = "retry"]}
      BY <1>1, <2>2 DEF Typed, QueueOK, TaskStates
    <2>3. \/ FinishTask(p) \/ TaskFails(p)
          \/ checks' = checks /\ task' \in {task, [task EXCEPT ![proc[p].order] = "retry"]}
      BY DEF Leave, PoolBusy, MarkLimited, MarkFailed, SaveFailed, Finish, Error, SaveReady, Crash,
             ClearSaved, DeleteFiles, queue
    <2> QED  BY <2>1, <2>2, <2>3
  <1>5. StoreOK'
    <2>1. /\ stored' \subseteq stored /\ stolen' = stolen
          /\ cleared' \subseteq cleared \cup {proc[p].order}
          /\ leaked' \in {leaked, Leak(leaked)}
      BY DEF Leave, PoolBusy, MarkLimited, MarkFailed, SaveFailed, Finish, Error, SaveReady, Crash,
             ClearSaved, DeleteFiles, history
    <2>2. Leak(leaked) \in Nat  BY DEF Leak, Typed, StoreOK
    <2> QED  BY <1>1, <2>1, <2>2 DEF Typed, StoreOK
  <1> QED  BY <1>2, <1>3, <1>4, <1>5 DEF Typed

\* The start of a demo, its job and its poll.
LEMMA StartTyped ==
  ASSUME Typed, NEW p \in Procs, SaveStart(p) \/ Submit(p) \/ EnqueueCheck(p)
  PROVE  /\ Typed' /\ Only(p) /\ p \in Workers /\ proc[p].order \in Orders
         /\ proc'[p].order = proc[p].order /\ proc'[p].copy.clips = proc[p].copy.clips
         /\ proc'[p].pc \in {"submit", "enqueue", "finish"}
         /\ UNCHANGED <<task, song, invoice, calling, slots, stored, leaked, stolen, cleared>>
  <1>1. /\ proc \in [Procs -> Goroutine] /\ proc[p] \in Goroutine
        /\ GoroutineOK(proc[p]) /\ RoleOK(p, proc[p])
    BY DEF Typed, ProcsOK
  <1>2. /\ proc[p].pc \in {"start", "submit", "enqueue"}
        /\ UNCHANGED <<task, song, invoice, calling, slots, stored, leaked, stolen, cleared>>
    BY DEF SaveStart, Submit, EnqueueCheck, At, Spared, history, queue
  <1>3. p \in Workers /\ proc[p].order \in Orders /\ proc[p].job \in Nat
    BY <1>1, <1>2 DEF GoroutineOK, RoleOK, Procs, Goroutine
  <1>4. SongsOK' /\ StoreOK'  BY <1>2, Unmoved DEF Typed
  <1>5. CASE SaveStart(p)
    <2>1. proc[p].pc = "start" /\ UNCHANGED <<checks, submitted>>
          /\ UpdateDemo(proc[p].order, StartDemo(proc[p].copy))
      BY <1>5 DEF SaveStart, At, queue
    <2>2. Goes(p, "submit", proc[p].job, FALSE, proc[p].then)  BY <1>1, <1>5, SaveStartMoves
    <2>3. ProcsOK'
      BY <1>1, <1>3, <2>1, <2>2, ProcsKept, DemoRoles DEF Goes, GoroutineOK, RoleOK, Starts, OnTask,
                                                Submits, Typed
    <2>4. StartDemo(proc[p].copy) \in DemoRow  BY <1>1, DemoIs DEF Goroutine
    <2>5. DemosOK'  BY <1>3, <2>1, <2>4, UpdateTyped DEF Typed
    <2> QED  BY <1>2, <1>3, <1>4, <2>1, <2>2, <2>3, <2>5, Unmoved DEF Typed, Goes
  <1>6. CASE Submit(p)
    <2> DEFINE n == submitted[proc[p].order] + 1
    <2>1. /\ proc[p].pc = "submit" /\ UNCHANGED <<demo, quiet, ghosts, checks>>
          /\ submitted' = [submitted EXCEPT ![proc[p].order] = @ + 1]
          /\ Become(p, [proc[p] EXCEPT !.pc = "enqueue", !.job = n])
      BY <1>6 DEF Submit, At, queue, history
    <2>2. n \in Nat /\ n > 0  BY <1>3 DEF Typed, QueueOK
    <2>3. Goes(p, "enqueue", n, proc[p].holds, proc[p].then)
      BY <1>1, <2>1, <2>2, JobMoves DEF PCs
    <2>4. ProcsOK'
      BY <1>1, <1>3, <2>1, <2>2, <2>3, ProcsKept, DemoRoles
      DEF Goes, GoroutineOK, RoleOK, Starts, OnTask, Submits, Typed
    <2>5. QueueOK'  BY <1>2, <1>3, <2>1 DEF Typed, QueueOK
    <2> QED  BY <1>2, <1>3, <1>4, <2>1, <2>3, <2>4, <2>5, Unmoved DEF Typed, Goes
  <1>7. CASE EnqueueCheck(p)
    <2>1. /\ proc[p].pc = "enqueue" /\ UNCHANGED <<demo, quiet, ghosts, submitted>>
          /\ checks' = checks \cup {Check(p)}
          /\ Become(p, [proc[p] EXCEPT !.pc = "finish", !.job = 0])
      BY <1>7 DEF EnqueueCheck, At, history
    <2>2. Goes(p, "finish", 0, proc[p].holds, proc[p].then)
      BY <1>1, <2>1, JobMoves DEF PCs
    <2>3. ProcsOK'
      BY <1>1, <1>3, <2>1, <2>2, ProcsKept, DemoRoles DEF Goes, GoroutineOK, RoleOK, Starts, OnTask,
                                                Submits, Typed
    <2>4. proc[p].job > 0  BY <1>1, <2>1 DEF GoroutineOK
    <2>5. QueueOK'  BY <1>2, <1>3, <2>1, <2>4 DEF Typed, QueueOK, Check
    <2> QED  BY <1>2, <1>3, <1>4, <2>1, <2>2, <2>3, <2>5, Unmoved DEF Typed, Goes
  <1> QED  BY <1>5, <1>6, <1>7

-----------------------------------------------------------------------------
(* A goroutine begins.                                                     *)

\* A worker takes a demo task, or drops it when there is nothing to do.
LEMMA TakeDemoIs ==
  ASSUME Typed, NEW p \in Procs, NEW o \in Orders, TakeDemo(p, o)
  PROVE  /\ Typed' /\ p \in Workers /\ proc[p].pc = "idle" /\ task[o] \in {"pending", "retry"}
         /\ UNCHANGED <<demo, invoice, song, quiet, slots, checks, submitted, stored, calling,
                        leaked, ghosts, stolen, cleared>>
         /\ \/ /\ Begins(p, o, "lock", 0, "finish") /\ task' = [task EXCEPT ![o] = "active"]
               /\ ~Settled(demo[o])
            \/ UNCHANGED proc /\ task' = [task EXCEPT ![o] = "none"]
  <1>1. /\ p \in Workers /\ proc[p].pc = "idle" /\ task[o] \in {"pending", "retry"}
        /\ UNCHANGED <<demo, invoice, song, quiet, slots, checks, submitted, stored, calling,
                       leaked, ghosts, stolen, cleared>>
        /\ \/ /\ Enter(p, o, "lock") /\ task' = [task EXCEPT ![o] = "active"]
              /\ ~Settled(demo[o])
           \/ UNCHANGED proc /\ task' = [task EXCEPT ![o] = "none"]
    BY DEF TakeDemo, Enter, At, Spared, history
  <1>2. Enter(p, o, "lock") => Begins(p, o, "lock", 0, "finish")
    BY EnterMoves DEF Typed, PCs
  <1>3. QueueOK'  BY <1>1 DEF Typed, QueueOK, TaskStates
  <1>4. ASSUME Begins(p, o, "lock", 0, "finish")  PROVE ProcsOK'
    BY <1>1, <1>4, ProcsKept, DemoRoles
    DEF Begins, GoroutineOK, RoleOK, Starts, OnTask, Typed
  <1>5. ProcsOK'  BY <1>1, <1>2, <1>4, Unmoved DEF Typed
  <1>6. DemosOK' /\ SongsOK' /\ StoreOK'  BY <1>1, Unmoved DEF Typed
  <1> QED  BY <1>1, <1>2, <1>3, <1>5, <1>6 DEF Typed

\* A worker takes a poll, or drops it when the demo has ended.
LEMMA TakeCheckIs ==
  ASSUME Typed, NEW p \in Procs, NEW t \in checks, TakeCheck(p, t)
  PROVE  /\ Typed' /\ p \in Workers /\ proc[p].pc = "idle" /\ ~Taken(t)
         /\ t[1] \in Orders /\ t[2] \in Nat /\ t[2] > 0 /\ t = <<t[1], t[2]>>
         /\ UNCHANGED <<demo, invoice, song, quiet, slots, task, submitted, stored, calling,
                        leaked, ghosts, stolen, cleared>>
         /\ \/ /\ Begins(p, t[1], "fetch", t[2], "finish") /\ checks' = checks
               /\ Running(demo[t[1]])
            \/ UNCHANGED proc /\ checks' = checks \ {t} /\ ~Running(demo[t[1]])
  <1>1. /\ p \in Workers /\ proc[p].pc = "idle" /\ ~Taken(t)
        /\ UNCHANGED <<demo, invoice, song, quiet, slots, task, submitted, stored, calling,
                       leaked, ghosts, stolen, cleared>>
        /\ ~Running(demo[t[1]]) => UNCHANGED proc /\ checks' = checks \ {t}
    BY DEF TakeCheck, At, Spared, history
  <1>2. t[1] \in Orders /\ t[2] \in Nat /\ t[2] > 0 /\ t = <<t[1], t[2]>>
    BY DEF Typed, QueueOK
  <1>3. Running(demo[t[1]]) => Begins(p, t[1], "fetch", t[2], "finish") /\ checks' = checks
    BY TakeCheckMoves DEF Typed
  <1>4. QueueOK'  BY <1>1, <1>3 DEF Typed, QueueOK
  <1>5. ASSUME Begins(p, t[1], "fetch", t[2], "finish")  PROVE ProcsOK'
    BY <1>1, <1>2, <1>5, ProcsKept, DemoRoles
    DEF Begins, GoroutineOK, RoleOK, Starts, Submits, OnTask, OnCheck, Typed
  <1>6. ProcsOK'  BY <1>1, <1>3, <1>5, Unmoved DEF Typed
  <1>7. DemosOK' /\ SongsOK' /\ StoreOK'  BY <1>1, Unmoved DEF Typed
  <1> QED  BY <1>1, <1>2, <1>3, <1>4, <1>6, <1>7 DEF Typed

\* The ticker takes an order that has gone quiet, the admin any that has a demo.
LEMMA RecoverIs ==
  ASSUME Typed, NEW p \in Procs, NEW o \in Orders, StartRecover(p, o)
  PROVE  /\ Typed' /\ p \in Crons /\ o \in quiet /\ Running(demo[o])
         /\ Begins(p, o, "release", 0, "saveFailed")
         /\ UNCHANGED <<demo, invoice, song, quiet, slots, task, checks, submitted, stored,
                        calling, leaked, ghosts, stolen, cleared>>
  <1>1. /\ p \in Crons /\ o \in quiet /\ Running(demo[o])
        /\ UNCHANGED <<demo, invoice, song, quiet, slots, task, checks, submitted, stored,
                       calling, leaked, ghosts, stolen, cleared>>
    BY DEF StartRecover, ListStuckDemo, Spared, queue, history
  <1>2. Begins(p, o, "release", 0, "saveFailed")  BY RecoverMoves DEF Typed
  <1>3. ProcsOK'
    BY <1>1, <1>2, ProcsKept, DemoRoles DEF Begins, GoroutineOK, RoleOK, Starts, Typed
  <1> QED  BY <1>1, <1>2, <1>3, Unmoved DEF Typed

\* The admin takes any order that has a demo to delete.
LEMMA DeleteIs ==
  ASSUME Typed, NEW p \in Procs, NEW o \in Orders, StartDelete(p, o)
  PROVE  /\ Typed' /\ p \in Admins /\ Begins(p, o, "delete", 0, "finish")
         /\ UNCHANGED <<demo, invoice, song, quiet, slots, task, checks, submitted, stored,
                        calling, leaked, ghosts, stolen, cleared>>
  <1>1. /\ p \in Admins
        /\ UNCHANGED <<demo, invoice, song, quiet, slots, task, checks, submitted, stored,
                       calling, leaked, ghosts, stolen, cleared>>
    BY DEF StartDelete, Spared, queue, history
  <1>2. Begins(p, o, "delete", 0, "finish")  BY EnterMoves DEF Typed, StartDelete, PCs
  <1>3. ProcsOK'
    BY <1>1, <1>2, ProcsKept, DemoRoles DEF Begins, GoroutineOK, RoleOK, Starts, Typed
  <1> QED  BY <1>1, <1>2, <1>3, Unmoved DEF Typed

\* The admin has removed the files and goes on to the row.
LEMMA FilesGone ==
  ASSUME Typed, NEW p \in Procs, DeleteFiles(p), Goto(p, "clear")
  PROVE  /\ Typed' /\ p \in Admins /\ Goes(p, "clear", proc[p].job, proc[p].holds, proc[p].then)
         /\ proc[p].pc = "delete" /\ proc[p].order \in Orders
         /\ cleared' = cleared \cup {proc[p].order}
         /\ \A t \in stored : t[1] # proc[p].order => t \in stored'
         /\ UNCHANGED <<demo, invoice, song, quiet, slots, task, checks, submitted, calling,
                        leaked, ghosts, stolen>>
  <1>1. /\ proc \in [Procs -> Goroutine] /\ proc[p] \in Goroutine
        /\ GoroutineOK(proc[p]) /\ RoleOK(p, proc[p])
    BY DEF Typed, ProcsOK
  <1>2. /\ proc[p].pc = "delete" /\ cleared' = cleared \cup {proc[p].order}
        /\ stored' = stored \ {<<proc[p].order, proc[p].copy.clips>>}
        /\ UNCHANGED <<demo, invoice, song, quiet, slots, task, checks, submitted, calling,
                       leaked, ghosts, stolen>>
    BY DEF DeleteFiles, At, Spared, queue
  <1>3. p \in Admins /\ proc[p].order \in Orders
    BY <1>1, <1>2 DEF Procs, RoleOK, GoroutineOK, OnTask, OnCheck, Starts, Submits
  <1>4. Goes(p, "clear", proc[p].job, proc[p].holds, proc[p].then)
    BY <1>1, GotoMoves DEF PCs
  <1>5. ProcsOK'
    BY <1>1, <1>2, <1>3, <1>4, ProcsKept, DemoRoles DEF Goes, GoroutineOK, RoleOK, Starts, Typed
  <1>6. StoreOK'  BY <1>2, <1>3 DEF Typed, StoreOK
  <1>7. \A t \in stored : t[1] # proc[p].order => t \in stored'  BY <1>2 DEF Typed, StoreOK
  <1> QED  BY <1>2, <1>3, <1>4, <1>5, <1>6, <1>7, Unmoved DEF Typed

-----------------------------------------------------------------------------
(* The client, the song and time.                                          *)

\* What a client starts: a task that was not there, or a demo refused.
LEMMA ClientIs ==
  ASSUME Typed, NEW o \in Orders, TriggerDemo(o) \/ PayDemo(o)
  PROVE  /\ Typed'
         /\ UNCHANGED <<song, slots, checks, submitted, stored, proc, leaked, stolen, cleared>>
         /\ \A x \in Orders : task'[x] = task[x] \/ (task[x] = "none" /\ task'[x] = "pending")
         /\ \/ UNCHANGED <<demo, quiet, ghosts>>
            \/ UpdateDemo(o, MarkDemoLimited(demo[o]))
  <1>1. /\ UNCHANGED <<song, slots, checks, submitted, stored, proc, leaked, stolen, cleared>>
        /\ EnqueueDemoTask(o) \/ UNCHANGED task
        /\ \/ UNCHANGED <<demo, quiet, ghosts>>
           \/ UpdateDemo(o, MarkDemoLimited(demo[o]))
        /\ calling' \subseteq calling
        /\ invoice' \in {invoice, [invoice EXCEPT ![o] = "paid"]}
    BY DEF TriggerDemo, PayDemo, MarkDemoPaid, history
  <1>2. QueueOK' /\ \A x \in Orders : \/ task'[x] = task[x]
                                      \/ task[x] = "none" /\ task'[x] = "pending"
    BY <1>1 DEF Typed, QueueOK, TaskStates, EnqueueDemoTask
  <1>3. MarkDemoLimited(demo[o]) \in DemoRow  BY DemoIs DEF Typed, DemosOK
  <1>4. DemosOK'  BY <1>1, <1>3, UpdateTyped, Unmoved DEF Typed
  <1>5. SongsOK'  BY <1>1 DEF Typed, SongsOK
  <1> QED  BY <1>1, <1>2, <1>4, <1>5, Unmoved DEF Typed

\* What the song does not touch.
SongSteps(o) == PaySong(o) \/ Song(o)

\* The paid lane writes its row, the slots and updated_at.
LEMMA SongIs ==
  ASSUME Typed, NEW o \in Orders, SongSteps(o)
  PROVE  /\ Typed' /\ quiet' = quiet \ {o}
         /\ \A x \in Orders \ {o} : song'[x] = song[x]
         /\ UNCHANGED <<demo, invoice, task, checks, submitted, stored, calling, proc,
                        leaked, ghosts, stolen, cleared>>
  <1>1. /\ quiet' = quiet \ {o}
        /\ UNCHANGED <<demo, invoice, task, checks, submitted, stored, calling, proc,
                       leaked, ghosts, stolen, cleared>>
    BY DEF SongSteps, Song, PaySong, SubmitSong, PollSong, CompleteSong, FailSong, SongOnly, queue,
           history
  <1>2. slots' \in Nat /\ \E s \in SongRow : song' = [song EXCEPT ![o] = s]
    <2>1. song[o] \in SongRow /\ demo[o].clips \in Nat /\ slots \in Nat /\ slots + 1 \in Nat
          /\ song[o].asked \in Nat
      BY DEF Typed, SongsOK, DemosOK, DemoRow, SongRow
    <2>2. Less(slots, 1) \in Nat  BY <2>1 DEF Less
    <2>3. Asked(o) \in Nat /\ DefaultTrackCount \div 2 \in Nat
      BY DEF Asked, DefaultTrackCount, clipsPerDemoTask
    <2>4. CASE PaySong(o)
      <3>1. [song[o] EXCEPT !.state = "paid"] \in SongRow  BY <2>1 DEF SongRow
      <3>2. song' = [song EXCEPT ![o] = [song[o] EXCEPT !.state = "paid"]]
        BY <2>4 DEF PaySong, MarkPaid
      <3> QED  BY <2>1, <2>4, <3>1, <3>2 DEF PaySong
    <2>5. CASE SubmitSong(o)
      <3> DEFINE s == [song[o] EXCEPT !.state = "submitted", !.asked = Asked(o),
                                      !.heard = demo[o].clips]
      <3>1. s \in SongRow  BY <2>1, <2>3 DEF SongRow
      <3>2. song' = [song EXCEPT ![o] = s]  BY <2>5 DEF SubmitSong, Typed, SongsOK
      <3> QED  BY <2>1, <2>5, <3>1, <3>2 DEF SubmitSong
    <2>6. CASE PollSong(o)
      <3> DEFINE s == [song[o] EXCEPT !.state = "uploading", !.seen = demo[o].clips]
      <3>1. s \in SongRow  BY <2>1 DEF SongRow
      <3>2. song' = [song EXCEPT ![o] = s]  BY <2>6 DEF PollSong, Typed, SongsOK
      <3> QED  BY <2>1, <2>6, <3>1, <3>2 DEF PollSong
    <2>7. CASE CompleteSong(o)
      <3>1. PICK got \in {song[o].asked, DefaultTrackCount \div 2} :
              song' = [song EXCEPT ![o].state = "completed", ![o].fresh = got,
                            ![o].reused = IF ReuseDemo(o, got) THEN song[o].seen ELSE 0]
        BY <2>7 DEF CompleteSong
      <3> DEFINE r == IF ReuseDemo(o, got) THEN song[o].seen ELSE 0
                 s == [song[o] EXCEPT !.state = "completed", !.fresh = got, !.reused = r]
      <3>2. got \in Nat  BY <2>1, <2>3
      <3>3. r \in Nat  BY <2>1 DEF SongRow
      <3>4. song' = [song EXCEPT ![o] = s]  BY <3>1 DEF Typed, SongsOK
      <3> HIDE DEF r
      <3>5. s \in SongRow  BY <2>1, <3>2, <3>3 DEF SongRow
      <3> HIDE DEF s
      <3> QED  BY <2>2, <2>7, <3>4, <3>5 DEF CompleteSong
    <2>8. CASE FailSong(o)
      <3>1. [song[o] EXCEPT !.state = "failed"] \in SongRow  BY <2>1 DEF SongRow
      <3>2. song' = [song EXCEPT ![o] = [song[o] EXCEPT !.state = "failed"]]
        BY <2>8 DEF FailSong
      <3> QED  BY <2>2, <2>8, <3>1, <3>2 DEF FailSong
    <2> QED  BY <2>4, <2>5, <2>6, <2>7, <2>8 DEF SongSteps, Song
  <1>3. SongsOK' /\ \A x \in Orders \ {o} : song'[x] = song[x]
    BY <1>1, <1>2 DEF Typed, SongsOK
  <1>4. DemosOK'  BY <1>1 DEF Typed, DemosOK
  <1> QED  BY <1>1, <1>3, <1>4, Unmoved DEF Typed

\* Time passes over an order that no goroutine has.
LEMMA GoQuietIs ==
  ASSUME Typed, NEW o \in Orders, GoQuiet(o)
  PROVE  /\ Typed' /\ quiet' = quiet \cup {o} /\ Running(demo[o])
         /\ \A p \in Procs : proc[p].order # o
         /\ PollsInTime => \A t \in checks : t[1] # o
         /\ UNCHANGED <<demo, invoice, song, slots, task, checks, submitted, stored, calling,
                        proc, leaked, ghosts, stolen, cleared>>
  <1>1. /\ quiet' = quiet \cup {o} /\ Running(demo[o])
        /\ \A p \in Procs : proc[p].order # o
        /\ PollsInTime => \A t \in checks : t[1] # o
        /\ UNCHANGED <<demo, invoice, song, slots, task, checks, submitted, stored, calling,
                       proc, leaked, ghosts, stolen, cleared>>
    BY DEF GoQuiet, queue, history
  <1>2. DemosOK'  BY <1>1 DEF Typed, DemosOK
  <1> QED  BY <1>1, <1>2, Unmoved DEF Typed

-----------------------------------------------------------------------------
(* A step is one of these.                                                 *)

\* Every action of Next, by what the lemmas above say of it.
LEMMA StepIs ==
  ASSUME Next
  PROVE  \/ \E o \in Orders : TriggerDemo(o) \/ PayDemo(o)
         \/ \E o \in Orders : SongSteps(o)
         \/ \E o \in Orders : GoQuiet(o)
         \/ \E p \in Procs, o \in Orders : TakeDemo(p, o) \/ StartRecover(p, o) \/ StartDelete(p, o)
         \/ \E p \in Procs : \E t \in checks : TakeCheck(p, t)
         \/ \E p \in Procs : Jump(p)
         \/ \E p \in Procs : SaveStart(p) \/ Submit(p) \/ EnqueueCheck(p)
         \/ \E p \in Procs : DeleteFiles(p) /\ Goto(p, "clear")
         \/ \E p \in Procs : Leave(p)
  <1>1. CASE \E o \in Orders : Client(o) \/ Song(o) \/ GoQuiet(o)
    BY <1>1 DEF Client, SongSteps
  <1>2. CASE \E p \in Procs : Begin(p)
    BY <1>2 DEF Begin
  <1>3. CASE \E p \in Procs : HandleDemoGenerateTask(p) \/ HandleDemoCheckTask(p) \/ Close(p)
    BY <1>3 DEF HandleDemoGenerateTask, HandleDemoCheckTask, Close, Jump, Leave
  <1>4. CASE \E p \in Procs : DeleteOrderDemo(p) \/ Crash(p)
    <2>1. ASSUME NEW p \in Procs, DeleteFiles(p)  PROVE Goto(p, "clear") \/ Return(p)
      BY <2>1 DEF DeleteFiles
    <2> QED  BY <1>4, <2>1 DEF DeleteOrderDemo, Leave
  <1> QED  BY <1>1, <1>2, <1>3, <1>4 DEF Next

\* The types hold at the start.
LEMMA TypesInit == Init => Typed
  <1> SUFFICES ASSUME Init PROVE Typed  OBVIOUS
  <1>1. NoDemo \in DemoRow /\ NewSong \in SongRow  BY DEF NoDemo, DemoRow, NewSong, SongRow
  <1>2. ProcsOK
    <2>1. proc = [p \in Procs |-> Idle]  BY DEF Init
    <2> QED  BY <2>1, IdleIs DEF ProcsOK, GoroutineOK, RoleOK, Starts
  <1>3. /\ demo = [o \in Orders |-> NoDemo] /\ song = [o \in Orders |-> NewSong]
        /\ invoice \in [Orders -> {"none", "pending"}]
    BY DEF Init
  <1>4. DemosOK  BY <1>1, <1>3 DEF Init, DemosOK
  <1>5. SongsOK  BY <1>1, <1>3 DEF Init, SongsOK
  <1>6. QueueOK /\ StoreOK  BY DEF Init, QueueOK, StoreOK, TaskStates
  <1> QED  BY <1>2, <1>4, <1>5, <1>6 DEF Typed

\* Every step keeps the types.
LEMMA TypesStep == Typed /\ [Next]_vars => Typed'
  <1> SUFFICES ASSUME Typed, [Next]_vars PROVE Typed'  OBVIOUS
  <1>1. CASE UNCHANGED vars  BY <1>1, Unmoved DEF vars, queue, history, Typed
  <1>2. CASE Next
    BY <1>2, StepIs, ClientIs, SongIs, GoQuietIs, TakeDemoIs, RecoverIs, DeleteIs, TakeCheckIs,
       JumpTyped, StartTyped, FilesGone, LeaveTyped
  <1> QED  BY <1>1, <1>2

\* Every variable stays in its domain, and a busy goroutine has its order.
THEOREM TypeCorrect == Spec => []TypeOK
  <1>1. Typed => TypeOK
    BY DEF Typed, ProcsOK, DemosOK, QueueOK, SongsOK, StoreOK, GoroutineOK, TaskStates, TypeOK
  <1> QED  BY <1>1, TypesInit, TypesStep, PTL DEF Spec

-----------------------------------------------------------------------------
(* Whose task is whose.                                                    *)

\* A worker has the task or the poll it is on, and nobody else has it.
Has(p) ==
  /\ OnCheck(proc[p]) => Check(p) \in checks
  /\ OnTask(proc[p]) => /\ task[proc[p].order] = "active"
                        /\ Check(p) \notin checks /\ proc[p].job <= submitted[proc[p].order]
Apart(p, q) ==
  /\ OnCheck(proc[p]) /\ OnCheck(proc[q]) => Check(p) # Check(q)
  /\ OnTask(proc[p]) /\ OnTask(proc[q]) => proc[p].order # proc[q].order
Hands ==
  /\ \A t \in checks : t[2] <= submitted[t[1]]
  /\ \A p \in Workers : Has(p)
  /\ \A p, q \in Workers : p # q => Apart(p, q)

\* An idle worker is on nothing, and none is on a task and a poll.
LEMMA OneStage ==
  ASSUME NEW g \in Goroutine
  PROVE  /\ ~(OnTask(g) /\ OnCheck(g))
         /\ g.pc = "idle" => ~OnTask(g) /\ ~OnCheck(g)
         /\ Starts(g) => ~Submits(g)
  BY DEF OnTask, OnCheck, Starts, Submits, Goroutine

\* A worker that leaves gives up its poll, or its task, or lets either be retried; a demo
\* is ended together with its poll.
LEMMA QueueLeft ==
  ASSUME Typed, Hands, NEW p \in Procs, Leave(p)
  PROVE  \/ /\ p \in Workers /\ OnCheck(proc[p]) /\ task' = task
            /\ checks' = checks \ {Check(p)} \/ (checks' = checks /\ UNCHANGED demo)
         \/ /\ p \in Workers /\ OnTask(proc[p]) /\ checks' = checks
            /\ \A x \in Orders : x # proc[p].order => task'[x] = task[x]
         \/ p \notin Workers /\ UNCHANGED <<task, checks>>
  <1>1. /\ proc[p] \in Goroutine /\ GoroutineOK(proc[p]) /\ RoleOK(p, proc[p])
        /\ proc[p].pc # "idle"
    BY LeaveMoves DEF Typed, ProcsOK
  <1>2. CASE p \notin Workers
    <2>1. proc[p].job = 0 \/ p \in Admins  BY <1>1, <1>2 DEF Procs, RoleOK
    <2>2. \/ SaveFailed(p) /\ p \in Crons
          \/ Crash(p) \/ ClearSaved(p) \/ DeleteFiles(p)
      BY <1>1, <1>2 DEF Leave, Procs, RoleOK, PoolBusy, MarkLimited, MarkFailed, Finish, Error,
                        SaveReady, SaveFailed, At
    <2>3. UNCHANGED <<task, checks>>
      BY <1>1, <1>2, <2>1, <2>2, DemoRoles
      DEF SaveFailed, Crash, ClearSaved, DeleteFiles, FinishTask, Polling, queue, RoleOK
    <2> QED  BY <1>2, <2>3
  <1>3. CASE p \in Workers /\ OnCheck(proc[p])
    <2>1. Polling(p)  BY <1>1, <1>3, OneStage DEF RoleOK, Hands, Has, Polling
    <2>2. proc[p].pc \in
            {"fetch", "clips", "preview", "saveReady", "saveFailed", "release", "error"}
      BY <1>3 DEF OnCheck
    <2>3. SaveFailed(p) \/ Error(p) \/ SaveReady(p) \/ Crash(p)
      BY <2>2 DEF Leave, PoolBusy, MarkLimited, MarkFailed, Finish, ClearSaved, DeleteFiles, At
    <2>4. task' = task /\ (checks' = checks \ {Check(p)} \/ (checks' = checks /\ UNCHANGED demo))
      BY <2>1, <2>3 DEF SaveFailed, Error, SaveReady, Crash, FinishTask, TaskFails
    <2> QED  BY <1>3, <2>4
  <1>4. CASE p \in Workers /\ OnTask(proc[p])
    <2>1. ~Polling(p)  BY <1>1, <1>4 DEF Hands, Has, Polling
    <2>2. proc[p].order \in Orders  BY <1>1 DEF GoroutineOK
    <2>3. /\ checks' = checks
          /\ \/ task' = task
             \/ \E s : task' = [task EXCEPT ![proc[p].order] = s]
      <3>1. FinishTask(p) \/ TaskFails(p) \/ Crash(p) \/ ClearSaved(p) \/ DeleteFiles(p)
        BY DEF Leave, PoolBusy, MarkLimited, MarkFailed, SaveFailed, Finish, Error, SaveReady
      <3>2. CASE FinishTask(p)  BY <1>4, <2>1, <3>2 DEF FinishTask
      <3>3. CASE TaskFails(p)  BY <2>1, <3>3 DEF TaskFails
      <3>4. CASE Crash(p)  BY <3>4 DEF Crash
      <3>5. CASE ClearSaved(p) \/ DeleteFiles(p)  BY <3>5 DEF ClearSaved, DeleteFiles, queue
      <3> QED  BY <3>1, <3>2, <3>3, <3>4, <3>5
    <2> QED  BY <1>4, <2>2, <2>3 DEF Typed, QueueOK
  <1> QED  BY <1>1, <1>2, <1>3, <1>4 DEF RoleOK

\* One worker moves and the others look at the same tasks and polls.
LEMMA HandsMoved ==
  ASSUME Typed, Typed', Hands, NEW p \in Workers, Only(p), Has(p)',
         \A t \in checks' : t[2] <= submitted'[t[1]],
         \A q \in Workers \ {p} : Has(q)' /\ Apart(p, q)'
  PROVE  Hands'
  <1>1. ASSUME NEW q \in Workers, NEW r \in Workers, q # r  PROVE Apart(q, r)'
    <2>1. CASE q = p  BY <1>1, <2>1
    <2>2. CASE r = p  BY <1>1, <2>2 DEF Apart
    <2>3. CASE q # p /\ r # p
      BY <1>1, <2>3 DEF Hands, Apart, Only, Check, Procs
    <2> QED  BY <2>1, <2>2, <2>3
  <1> QED  BY <1>1 DEF Hands

\* A step that leaves the workers, their tasks and their polls.
LEMMA HandsUnmoved ==
  ASSUME Hands, checks' = checks, submitted' = submitted,
         \A q \in Workers :
           proc'[q] = proc[q] /\ (OnTask(proc[q]) => task'[proc[q].order] = "active")
  PROVE  Hands'
  BY DEF Hands, Has, Apart, Check

\* A step of a handler.
LEMMA HandsJump ==
  ASSUME Typed, Hands, NEW p \in Procs, Jump(p)
  PROVE  Hands'
  <1>1. /\ Only(p) /\ proc'[p].order = proc[p].order /\ proc'[p].job = proc[p].job
        /\ Stays(p) /\ Still /\ Typed' /\ proc[p] \in Goroutine /\ proc'[p] \in Goroutine
    BY JumpMoves, JumpTyped DEF Typed, ProcsOK
  <1>2. CASE p \in Workers
    <2>1. (OnTask(proc'[p]) => OnTask(proc[p])) /\ (OnCheck(proc'[p]) => OnCheck(proc[p]))
      BY <1>1, OneStage DEF Stays, OnTask
    <2>2. Check(p)' = Check(p)  BY <1>1 DEF Check
    <2>3. Has(p)'  BY <1>1, <1>2, <2>1, <2>2 DEF Hands, Has, Still
    <2>4. ASSUME NEW q \in Workers \ {p}  PROVE Has(q)' /\ Apart(p, q)'
      <3>1. proc'[q] = proc[q] /\ Check(q)' = Check(q)  BY <1>1 DEF Only, Check, Procs
      <3> QED  BY <1>1, <1>2, <2>1, <2>2, <3>1 DEF Hands, Has, Apart, Still
    <2>5. \A t \in checks' : t[2] <= submitted'[t[1]]  BY <1>1 DEF Still, Hands
    <2> QED  BY <1>1, <1>2, <2>3, <2>4, <2>5, HandsMoved
  <1>3. CASE p \notin Workers
    BY <1>1, <1>3, HandsUnmoved DEF Only, Procs, Still, Hands, Has
  <1> QED  BY <1>2, <1>3

\* The worker on a task creates its job and queues its poll, which nobody has yet.
LEMMA HandsStart ==
  ASSUME Typed, Hands, NEW p \in Procs, SaveStart(p) \/ Submit(p) \/ EnqueueCheck(p)
  PROVE  Hands'
  <1> DEFINE o == proc[p].order
  <1>1. /\ Typed' /\ Only(p) /\ p \in Workers /\ o \in Orders /\ proc'[p].order = o
        /\ task' = task /\ proc[p] \in Goroutine /\ GoroutineOK(proc[p])
    BY StartTyped DEF Typed, ProcsOK
  <1>2. OnTask(proc[p])
    BY DEF SaveStart, Submit, EnqueueCheck, At, OnTask, Starts, Submits
  <1>3. /\ task[o] = "active" /\ Check(p) \notin checks /\ proc[p].job <= submitted[o]
    BY <1>1, <1>2 DEF Hands, Has
  <1>4. /\ proc \in [Procs -> Goroutine] /\ submitted \in [Orders -> Nat]
        /\ checks \subseteq Orders \X (Nat \ {0})
    BY DEF Typed, ProcsOK, QueueOK
  <1>5. /\ proc'[p].pc \in {"submit", "enqueue", "finish"}
        /\ checks' \subseteq checks \cup {Check(p)}
        /\ \A x \in Orders : submitted'[x] \in Nat /\ submitted[x] <= submitted'[x]
        /\ Check(p)' \notin checks' /\ proc'[p].job <= submitted'[o]
    <2>1. CASE SaveStart(p)
      <3>1. Goes(p, "submit", proc[p].job, FALSE, proc[p].then)  BY <1>4, <2>1, SaveStartMoves
      <3>2. checks' = checks /\ submitted' = submitted  BY <2>1 DEF SaveStart, queue
      <3> QED  BY <1>1, <1>3, <1>4, <3>1, <3>2 DEF Goes, Check
    <2>2. CASE Submit(p)
      <3> DEFINE n == submitted[o] + 1
      <3>1. /\ checks' = checks /\ submitted' = [submitted EXCEPT ![o] = @ + 1]
            /\ Become(p, [proc[p] EXCEPT !.pc = "enqueue", !.job = n])
        BY <2>2 DEF Submit, queue
      <3>2. n \in Nat /\ submitted'[o] = n  BY <1>1, <1>4, <3>1
      <3>3. Goes(p, "enqueue", n, proc[p].holds, proc[p].then)
        BY <1>4, <3>1, <3>2, JobMoves DEF PCs
      <3>4. <<o, n>> \notin checks  BY <1>1, <1>4 DEF Hands
      <3> QED  BY <1>1, <1>4, <3>1, <3>2, <3>3, <3>4 DEF Goes, Check
    <2>3. CASE EnqueueCheck(p)
      <3>1. /\ checks' = checks \cup {Check(p)} /\ submitted' = submitted
            /\ Become(p, [proc[p] EXCEPT !.pc = "finish", !.job = 0]) /\ proc[p].pc = "enqueue"
        BY <2>3 DEF EnqueueCheck, At
      <3>2. Goes(p, "finish", 0, proc[p].holds, proc[p].then)
        BY <1>4, <3>1, JobMoves DEF PCs
      <3>3. proc[p].job # 0  BY <1>1, <3>1 DEF GoroutineOK
      <3>4. <<o, 0>> \notin checks'  BY <1>4, <3>1, <3>3 DEF Check
      <3> QED  BY <1>1, <1>4, <3>1, <3>2, <3>4 DEF Goes, Check
    <2> QED  BY <2>1, <2>2, <2>3
  <1>6. OnTask(proc'[p]) /\ ~OnCheck(proc'[p])  BY <1>5 DEF OnTask, Submits, OnCheck
  <1>7. Has(p)'  BY <1>1, <1>3, <1>5, <1>6 DEF Has
  <1>8. ASSUME NEW q \in Workers \ {p}  PROVE Has(q)' /\ Apart(p, q)'
    <2>1. proc'[q] = proc[q] /\ Check(q)' = Check(q) /\ proc[q] \in Goroutine
          /\ GoroutineOK(proc[q]) /\ Has(q) /\ Apart(p, q)
      BY <1>1, <1>8 DEF Only, Check, Procs, Hands, Typed, ProcsOK
    <2>2. OnTask(proc[q]) => proc[q].order \in Orders /\ proc[q].order # o /\ proc[q].job \in Nat
      BY <1>2, <2>1, OneStage DEF Apart, GoroutineOK, Goroutine
    <2>3. OnTask(proc[q]) => /\ Check(q) \notin checks' /\ task'[proc[q].order] = "active"
                             /\ proc[q].job <= submitted'[proc[q].order]
      <3> HAVE OnTask(proc[q])
      <3>1. Check(q) # Check(p)  BY <2>2 DEF Check
      <3>2. proc[q].job <= submitted[proc[q].order]  BY <2>1 DEF Has
      <3>3. proc[q].job <= submitted'[proc[q].order]  BY <1>4, <1>5, <2>2, <3>2
      <3> QED  BY <1>1, <1>5, <2>1, <3>1, <3>3 DEF Has
    <2>4. checks \subseteq checks'
      BY DEF SaveStart, Submit, EnqueueCheck, queue
    <2> QED  BY <1>1, <1>6, <2>1, <2>2, <2>3, <2>4 DEF Has, Apart
  <1>9. \A t \in checks' : t[2] <= submitted'[t[1]]
    <2> SUFFICES ASSUME NEW t \in checks' PROVE t[2] <= submitted'[t[1]]  OBVIOUS
    <2>1. CASE t \in checks
      <3>1. t[1] \in Orders /\ t[2] \in Nat /\ t[2] <= submitted[t[1]]  BY <1>4, <2>1 DEF Hands
      <3> QED  BY <1>4, <1>5, <3>1
    <2>2. CASE t = Check(p)
      <3>1. t[1] = o /\ t[2] = proc[p].job /\ proc[p].job \in Nat
        BY <1>1, <2>2 DEF Check, Goroutine
      <3> QED  BY <1>1, <1>3, <1>4, <1>5, <3>1
    <2> QED  BY <1>5, <2>1, <2>2
  <1> QED  BY <1>1, <1>7, <1>8, <1>9, HandsMoved

\* A worker takes a task that nobody has, or drops it.
LEMMA HandsTake ==
  ASSUME Typed, Hands, NEW p \in Procs, NEW o \in Orders, TakeDemo(p, o)
  PROVE  Hands'
  <1>1. /\ Typed' /\ p \in Workers /\ proc[p].pc = "idle" /\ task[o] \in {"pending", "retry"}
        /\ checks' = checks /\ submitted' = submitted
        /\ \/ Begins(p, o, "lock", 0, "finish") /\ task' = [task EXCEPT ![o] = "active"]
           \/ UNCHANGED proc /\ task' = [task EXCEPT ![o] = "none"]
    BY TakeDemoIs
  <1>2. \A q \in Workers : Has(q)  BY DEF Hands
  <1>3. /\ task \in [Orders -> TaskStates] /\ checks \subseteq Orders \X (Nat \ {0})
        /\ submitted \in [Orders -> Nat]
    BY DEF Typed, QueueOK
  <1>4. \A q \in Workers : OnTask(proc[q]) => proc[q].order # o  BY <1>1, <1>2 DEF Has
  <1>5. \A q \in Workers : GoroutineOK(proc[q]) /\ proc[q] \in Goroutine
    BY DEF Typed, ProcsOK, Procs
  <1>6. CASE UNCHANGED proc /\ task' = [task EXCEPT ![o] = "none"]
    <2>1. \A q \in Workers : OnTask(proc[q]) => task'[proc[q].order] = "active"
      BY <1>2, <1>3, <1>4, <1>6 DEF Has
    <2> QED  BY <1>1, <1>6, <2>1, HandsUnmoved
  <1>7. CASE Begins(p, o, "lock", 0, "finish") /\ task' = [task EXCEPT ![o] = "active"]
    <2>1. Only(p) /\ proc'[p].pc = "lock" /\ proc'[p].job = 0 /\ proc'[p].order = o
      BY <1>7 DEF Begins
    <2>2. ~OnCheck(proc'[p]) /\ Check(p)' \notin checks'  BY <1>1, <1>3, <2>1 DEF OnCheck, Check
    <2>3. Has(p)'  BY <1>1, <1>3, <1>7, <2>1, <2>2 DEF Has
    <2>4. ASSUME NEW q \in Workers \ {p}  PROVE Has(q)' /\ Apart(p, q)'
      <3>1. proc'[q] = proc[q] /\ Check(q)' = Check(q)  BY <2>1, <2>4 DEF Only, Check, Procs
      <3> QED  BY <1>1, <1>2, <1>3, <1>4, <1>7, <2>1, <2>2, <3>1 DEF Has, Apart
    <2> QED  BY <1>1, <2>1, <2>3, <2>4, HandsMoved DEF Hands
  <1> QED  BY <1>1, <1>6, <1>7

\* A worker takes a poll that nobody has, or drops it.
LEMMA HandsTakeCheck ==
  ASSUME Typed, Hands, NEW p \in Procs, NEW t \in checks, TakeCheck(p, t)
  PROVE  Hands'
  <1>1. /\ Typed' /\ p \in Workers /\ proc[p].pc = "idle" /\ ~Taken(t)
        /\ t[1] \in Orders /\ t[2] \in Nat /\ t[2] > 0 /\ t = <<t[1], t[2]>>
        /\ task' = task /\ submitted' = submitted
        /\ \/ Begins(p, t[1], "fetch", t[2], "finish") /\ checks' = checks
           \/ UNCHANGED proc /\ checks' = checks \ {t}
    BY TakeCheckIs
  <1>2. \A q \in Workers : Has(q) /\ Check(q) # t  BY <1>1 DEF Hands, Taken
  <1>3. CASE UNCHANGED proc /\ checks' = checks \ {t}
    BY <1>1, <1>2, <1>3 DEF Hands, Has, Apart, Check
  <1>4. CASE Begins(p, t[1], "fetch", t[2], "finish") /\ checks' = checks
    <2>1. Only(p) /\ proc'[p].pc = "fetch" /\ proc'[p].job = t[2] /\ proc'[p].order = t[1]
      BY <1>4 DEF Begins
    <2>2. ~OnTask(proc'[p]) /\ Check(p)' = t  BY <1>1, <2>1 DEF OnTask, Starts, Submits, Check
    <2>3. Has(p)'  BY <1>4, <2>2 DEF Has
    <2>4. ASSUME NEW q \in Workers \ {p}  PROVE Has(q)' /\ Apart(p, q)'
      <3>1. proc'[q] = proc[q] /\ Check(q)' = Check(q)  BY <2>1, <2>4 DEF Only, Check, Procs
      <3> QED  BY <1>1, <1>2, <1>4, <2>2, <3>1 DEF Has, Apart
    <2> QED  BY <1>1, <1>4, <2>1, <2>3, <2>4, HandsMoved DEF Hands
  <1> QED  BY <1>1, <1>3, <1>4

\* A worker leaves what it has.
LEMMA HandsLeave ==
  ASSUME Typed, Hands, NEW p \in Procs, Leave(p)
  PROVE  Hands'
  <1>1. /\ Only(p) /\ proc'[p] = Idle /\ proc[p].order \in Orders
        /\ submitted' = submitted /\ Typed'
    BY LeaveMoves, LeaveTyped
  <1>2. \A q \in Workers \ {p} : /\ proc'[q] = proc[q] /\ Check(q)' = Check(q)
                                 /\ Has(q) /\ GoroutineOK(proc[q])
                                 /\ p \in Workers => Apart(p, q)
    BY <1>1 DEF Only, Check, Procs, Hands, Typed, ProcsOK
  <1>3. ~OnTask(Idle) /\ ~OnCheck(Idle)  BY IdleIs, OneStage
  <1>4. checks' \subseteq checks  BY QueueLeft
  <1>5. \A q \in Workers \ {p} : OnTask(proc[q]) => proc[q].order \in Orders
    BY <1>2, OneStage DEF GoroutineOK, OnTask, Starts, Submits
  <1>6. CASE p \in Workers
    <2>1. Has(p)'  BY <1>1, <1>3 DEF Has
    <2>2. ASSUME NEW q \in Workers \ {p}  PROVE Has(q)' /\ Apart(p, q)'
      <3>1. OnTask(proc[q]) => task'[proc[q].order] = "active"
        BY <1>2, <1>5, <1>6, QueueLeft DEF Has, Apart
      <3>2. OnCheck(proc[q]) => Check(q) \in checks'
        BY <1>2, <1>6, QueueLeft DEF Has, Apart
      <3> QED  BY <1>1, <1>2, <1>3, <1>4, <3>1, <3>2 DEF Has, Apart
    <2> QED  BY <1>1, <1>4, <1>6, <2>1, <2>2, HandsMoved DEF Hands
  <1>7. CASE p \notin Workers
    <2>1. UNCHANGED <<task, checks>>  BY <1>7, QueueLeft
    <2> QED  BY <1>1, <1>2, <1>7, <2>1, HandsUnmoved DEF Has
  <1> QED  BY <1>6, <1>7

\* Nobody has anything at the start.
LEMMA HandsInit == Init => Hands
  <1> SUFFICES ASSUME Init PROVE Hands  OBVIOUS
  <1>1. checks = {} /\ \A p \in Workers : proc[p] = Idle  BY DEF Init, Procs
  <1>2. ~OnTask(Idle) /\ ~OnCheck(Idle)  BY IdleIs, OneStage
  <1> QED  BY <1>1, <1>2 DEF Hands, Has, Apart

\* Every step leaves a task or a poll with one worker at most.
LEMMA HandsStep == Typed /\ Hands /\ [Next]_vars => Hands'
  <1> SUFFICES ASSUME Typed, Hands, [Next]_vars PROVE Hands'  OBVIOUS
  <1>1. CASE UNCHANGED vars
    BY <1>1, HandsUnmoved DEF vars, queue, Hands, Has
  <1>2. ASSUME NEW o \in Orders, TriggerDemo(o) \/ PayDemo(o)  PROVE Hands'
    <2>1. /\ UNCHANGED <<checks, submitted, proc>>
          /\ \A x \in Orders : task'[x] = task[x] \/ (task[x] = "none" /\ task'[x] = "pending")
      BY <1>2, ClientIs
    <2>2. \A q \in Workers : OnTask(proc[q]) => proc[q].order \in Orders
      BY DEF Typed, ProcsOK, Procs, GoroutineOK, OnTask, Starts, Submits
    <2> QED  BY <2>1, <2>2, HandsUnmoved DEF Hands, Has
  <1>3. ASSUME NEW o \in Orders, SongSteps(o) \/ GoQuiet(o)  PROVE Hands'
    BY <1>3, SongIs, GoQuietIs, HandsUnmoved DEF Hands, Has
  <1>4. ASSUME NEW p \in Procs, NEW o \in Orders, StartRecover(p, o) \/ StartDelete(p, o)
        PROVE  Hands'
    <2>1. Only(p) /\ p \notin Workers /\ UNCHANGED <<task, checks, submitted>>
      BY <1>4, RecoverIs, DeleteIs, DemoRoles DEF Begins
    <2> QED  BY <2>1, HandsUnmoved DEF Only, Procs, Hands, Has
  <1>5. ASSUME NEW p \in Procs, DeleteFiles(p) /\ Goto(p, "clear")  PROVE Hands'
    <2>1. Only(p) /\ p \notin Workers /\ UNCHANGED <<task, checks, submitted>>
      BY <1>5, FilesGone, DemoRoles DEF Goes
    <2> QED  BY <2>1, HandsUnmoved DEF Only, Procs, Hands, Has
  <1> QED
    BY <1>1, <1>2, <1>3, <1>4, <1>5, StepIs, HandsTake, HandsTakeCheck, HandsJump, HandsStart,
       HandsLeave

-----------------------------------------------------------------------------
(* One at a time.                                                          *)

\* The ticker is in one pod.
SoleTicker == \A c, d \in Crons : c = d

NoCheck(o) == \A t \in checks : t[1] # o
Unattended(o) == NoCheck(o) /\ \A q \in Workers : proc[q].order # o

\* A worker that has not stored the start has read a demo that is not in work and still
\* is not; one that has stored it finds it in processing, and nobody polls it yet.
WorkerOn(p, o) ==
  /\ Starts(proc[p]) => ~Settled(demo[o]) /\ NoCheck(o)
  /\ Submits(proc[p]) => Running(demo[o]) /\ NoCheck(o)
  /\ proc[p].copy.clips = 0

\* A demo that is polled is in processing and has one poll; one that is quiet, or in
\* the hands of the ticker, is in processing and nobody else's.
AloneOn(o) ==
  /\ demo[o].clips # 0 => demo[o].status = "ready"
  /\ \A t \in checks : t[1] = o => Running(demo[o])
  /\ \A t, u \in checks : t[1] = o /\ u[1] = o => t = u
  /\ \A p \in Workers : proc[p].order = o => WorkerOn(p, o)
  /\ \A c \in Crons : proc[c].order = o =>
       Running(demo[o]) /\ Unattended(o) /\ proc[c].copy.clips = 0
  /\ o \in quiet => Running(demo[o]) /\ Unattended(o)
Alone ==
  /\ \A p \in Admins : At(p, "clear") => proc[p].order \in cleared
  /\ \A o \in Orders \ cleared : AloneOn(o)

\* What brings nobody to an order and does not write it.
LEMMA AloneKept ==
  ASSUME NEW o \in Orders, AloneOn(o), demo'[o] = demo[o], o \in quiet' => o \in quiet,
         \A t \in checks' : t[1] = o => t \in checks,
         \A q \in Workers : proc'[q].order = o =>
           /\ proc[q].order = o /\ proc'[q].copy.clips = proc[q].copy.clips
           /\ Starts(proc'[q]) => Starts(proc[q]) /\ proc'[q].copy = proc[q].copy
           /\ Submits(proc'[q]) => Submits(proc[q]),
         \A c \in Crons : proc'[c].order = o =>
           proc[c].order = o /\ proc'[c].copy.clips = proc[c].copy.clips
  PROVE  AloneOn(o)'
  BY DEF AloneOn, WorkerOn, Unattended, NoCheck

\* The steps of a goroutine that is on another order, and comes to no other.
LEMMA AloneElsewhere ==
  ASSUME NEW o \in Orders, AloneOn(o), demo'[o] = demo[o], o \in quiet' => o \in quiet,
         \A t \in checks' : t[1] = o => t \in checks,
         NEW p \in Procs, Only(p), proc'[p].order # o
  PROVE  AloneOn(o)'
  BY AloneKept DEF Only, Procs

\* Nobody is on an order and idle.
LEMMA IdleNowhere ==
  ASSUME Typed, NEW p \in Procs, proc[p].pc = "idle"
  PROVE  proc[p].order \notin Orders
  BY DemoAbsent DEF Typed, ProcsOK, GoroutineOK

\* Who is on an order: a worker on a task and one on a poll exclude each other.
LEMMA SoleWorker ==
  ASSUME Typed, Hands, NEW o \in Orders, AloneOn(o), NEW p \in Workers, proc[p].order = o,
         NEW q \in Workers, proc[q].order = o, p # q, Starts(proc[p]) \/ Submits(proc[p])
  PROVE  FALSE
  <1>1. NoCheck(o) /\ OnTask(proc[p])  BY DEF AloneOn, WorkerOn, OnTask
  <1>2. proc[q].pc # "idle"  BY IdleNowhere DEF Procs
  <1>3. OnTask(proc[q]) \/ OnCheck(proc[q])  BY <1>2, DemoRoles DEF Typed, ProcsOK, Procs, RoleOK
  <1>4. ~OnCheck(proc[q])  BY <1>1 DEF Hands, Has, NoCheck, Check
  <1> QED  BY <1>1, <1>3, <1>4 DEF Hands, Apart

\* The client.
LEMMA AloneClient ==
  ASSUME Typed, NEW o \in Orders, AloneOn(o), NEW x \in Orders, TriggerDemo(x) \/ PayDemo(x)
  PROVE  AloneOn(o)'
  <1>1. /\ UNCHANGED <<checks, proc>>
        /\ \/ UNCHANGED <<demo, quiet, ghosts>>
           \/ UpdateDemo(x, MarkDemoLimited(demo[x]))
    BY ClientIs
  <1>2. demo[x] \in DemoRow  BY DEF Typed, DemosOK
  <1>3. CASE UNCHANGED <<demo, quiet, ghosts>>  BY <1>1, <1>3, AloneKept
  <1>4. CASE UpdateDemo(x, MarkDemoLimited(demo[x]))
    <2>1. MarkDemoLimited(demo[x]) \in DemoRow  BY <1>2, DemoIs
    <2>2. /\ demo'[x] = MarkDemoLimited(demo[x]) /\ x \notin quiet'
          /\ \A y \in Orders \ {x} : demo'[y] = demo[y] /\ (y \in quiet' <=> y \in quiet)
      BY <1>4, <2>1, UpdateTyped DEF Typed
    <2>3. CASE x # o \/ Settled(demo[x])
      <3>1. demo'[o] = demo[o] /\ (o \in quiet' => o \in quiet)  BY <1>2, <2>2, <2>3, DemoIs
      <3> QED  BY <1>1, <3>1, AloneKept
    <2>4. CASE x = o /\ ~Settled(demo[o])
      <3>1. ~Settled(demo'[o]) /\ ~Running(demo[o]) /\ demo'[o].clips = demo[o].clips
            /\ ~Running(demo'[o]) /\ demo[o].status # "ready"
        BY <1>2, <2>2, <2>4, DemoIs DEF Settled, Running
      <3> QED  BY <1>1, <2>2, <2>4, <3>1 DEF AloneOn, WorkerOn, Unattended, NoCheck
    <2> QED  BY <2>3, <2>4
  <1> QED  BY <1>1, <1>3, <1>4

\* A worker begins with a demo that is not in work.
LEMMA AloneTake ==
  ASSUME Typed, NEW o \in Orders, AloneOn(o), NEW p \in Procs, NEW x \in Orders, TakeDemo(p, x)
  PROVE  AloneOn(o)'
  <1>1. /\ p \in Workers /\ UNCHANGED <<demo, quiet, checks>>
        /\ \/ Begins(p, x, "lock", 0, "finish") /\ ~Settled(demo[x])
           \/ UNCHANGED proc
    BY TakeDemoIs
  <1>2. CASE UNCHANGED proc  BY <1>1, <1>2, AloneKept
  <1>3. CASE Begins(p, x, "lock", 0, "finish") /\ x # o
    BY <1>1, <1>3, AloneElsewhere DEF Begins
  <1>4. CASE Begins(p, x, "lock", 0, "finish") /\ ~Settled(demo[x]) /\ x = o
    <2>1. Only(p) /\ proc'[p].order = o /\ proc'[p].pc = "lock" /\ proc'[p].copy = demo[o]
      BY <1>4 DEF Begins
    <2>2. ~Running(demo[o]) /\ ~Settled(demo[o]) /\ demo[o].status # "ready"
      BY <1>4 DEF Running, Settled
    <2>3. NoCheck(o) /\ demo[o].clips = 0 /\ o \notin quiet /\ \A c \in Crons : proc[c].order # o
      BY <2>2 DEF AloneOn, NoCheck
    <2>4. \A c \in Crons : proc'[c] = proc[c]  BY <1>1, <2>1, DemoRoles DEF Only, Procs
    <2>5. WorkerOn(p, o)'
      BY <1>1, <2>1, <2>2, <2>3 DEF WorkerOn, Submits, NoCheck
    <2>6. ASSUME NEW q \in Workers, proc'[q].order = o  PROVE WorkerOn(q, o)'
      BY <1>1, <2>1, <2>5, <2>6 DEF WorkerOn, AloneOn, Only, Procs, NoCheck
    <2> QED  BY <1>1, <2>2, <2>3, <2>4, <2>6 DEF AloneOn, NoCheck
  <1> QED  BY <1>1, <1>2, <1>3, <1>4

\* A worker begins a poll of a demo in processing.
LEMMA AloneTakeCheck ==
  ASSUME Typed, NEW o \in Orders, AloneOn(o), NEW p \in Procs, NEW t \in checks, TakeCheck(p, t)
  PROVE  AloneOn(o)'
  <1>1. /\ p \in Workers /\ UNCHANGED <<demo, quiet>> /\ checks' \subseteq checks
        /\ \/ Begins(p, t[1], "fetch", t[2], "finish") /\ Running(demo[t[1]]) /\ checks' = checks
           \/ UNCHANGED proc
    BY TakeCheckIs
  <1>2. CASE UNCHANGED proc  BY <1>1, <1>2, AloneKept
  <1>3. CASE Begins(p, t[1], "fetch", t[2], "finish") /\ t[1] # o
    BY <1>1, <1>3, AloneElsewhere DEF Begins
  <1>4. CASE Begins(p, t[1], "fetch", t[2], "finish") /\ t[1] = o /\ checks' = checks
    <2>1. Only(p) /\ proc'[p].order = o /\ proc'[p].pc = "fetch" /\ proc'[p].copy = demo[o]
      BY <1>4 DEF Begins
    <2>2. Running(demo[o]) /\ ~NoCheck(o) /\ demo[o].clips = 0
      BY <1>4 DEF AloneOn, NoCheck, Running
    <2>3. o \notin quiet /\ \A c \in Crons : proc[c].order # o
      BY <2>2 DEF AloneOn, Unattended
    <2>4. \A c \in Crons : proc'[c] = proc[c]  BY <1>1, <2>1, DemoRoles DEF Only, Procs
    <2>5. WorkerOn(p, o)'  BY <1>1, <2>1, <2>2 DEF WorkerOn, Submits, Starts
    <2>6. ASSUME NEW q \in Workers, proc'[q].order = o  PROVE WorkerOn(q, o)'
      BY <1>1, <1>4, <2>1, <2>5, <2>6 DEF WorkerOn, AloneOn, Only, Procs, NoCheck
    <2> QED  BY <1>1, <1>4, <2>2, <2>3, <2>4, <2>6 DEF AloneOn, NoCheck
  <1> QED  BY <1>1, <1>2, <1>3, <1>4

\* The ticker takes a demo that is quiet, and so nobody's.
LEMMA AloneRecover ==
  ASSUME Typed, NEW o \in Orders, AloneOn(o), NEW p \in Procs, NEW x \in Orders,
         StartRecover(p, x)
  PROVE  AloneOn(o)'
  <1>1. /\ p \in Crons /\ x \in quiet /\ Begins(p, x, "release", 0, "saveFailed")
        /\ UNCHANGED <<demo, quiet, checks>>
    BY RecoverIs
  <1>2. Only(p) /\ proc'[p].order = x /\ proc'[p].copy = demo[x]  BY <1>1 DEF Begins
  <1>3. CASE x # o  BY <1>1, <1>2, <1>3, AloneElsewhere
  <1>4. CASE x = o
    <2>1. Running(demo[o]) /\ Unattended(o) /\ demo[o].clips = 0
      BY <1>1, <1>4 DEF AloneOn, Running
    <2>2. \A q \in Workers : proc'[q] = proc[q]  BY <1>1, <1>2, DemoRoles DEF Only, Procs
    <2>3. Unattended(o)'  BY <1>1, <2>1, <2>2 DEF Unattended, NoCheck
    <2> QED  BY <1>1, <1>2, <1>4, <2>1, <2>2, <2>3 DEF AloneOn, WorkerOn, NoCheck, Only, Procs
  <1> QED  BY <1>3, <1>4

\* A step of a handler.
LEMMA AloneJump ==
  ASSUME Typed, NEW o \in Orders, AloneOn(o), NEW p \in Procs, Jump(p)
  PROVE  AloneOn(o)'
  <1>1. /\ Only(p) /\ proc'[p].order = proc[p].order /\ proc'[p].copy = proc[p].copy
        /\ Stays(p) /\ UNCHANGED <<demo, quiet, checks>>
        /\ proc[p] \in Goroutine /\ proc'[p] \in Goroutine
    BY JumpMoves, JumpTyped DEF Typed, ProcsOK, Still
  <1>2. (Starts(proc'[p]) => Starts(proc[p])) /\ (Submits(proc'[p]) => Submits(proc[p]))
    BY <1>1, OneStage DEF Stays, OnTask, OnCheck, Starts, Submits
  <1> QED  BY <1>1, <1>2, AloneKept DEF Only, Procs

\* The start of a demo is stored by the only worker on it, and so is its poll.
LEMMA AloneStart ==
  ASSUME Typed, Hands, NEW o \in Orders, AloneOn(o), NEW p \in Procs,
         SaveStart(p) \/ Submit(p) \/ EnqueueCheck(p)
  PROVE  AloneOn(o)'
  <1> DEFINE x == proc[p].order
  <1>1. /\ Only(p) /\ p \in Workers /\ x \in Orders /\ proc'[p].order = x
        /\ proc'[p].copy.clips = proc[p].copy.clips
        /\ proc \in [Procs -> Goroutine] /\ proc[p] \in Goroutine
    BY StartTyped DEF Typed, ProcsOK
  <1>2. proc[p].copy \in DemoRow  BY <1>1 DEF Goroutine
  <1>3. CASE SaveStart(p)
    <2> DEFINE d == StartDemo(proc[p].copy)
    <2>1. d \in DemoRow /\ d.status = "processing" /\ d.clips = proc[p].copy.clips
      BY <1>2, DemoIs
    <2>2. /\ UpdateDemo(x, d) /\ checks' = checks /\ Starts(proc[p])
          /\ Goes(p, "submit", proc[p].job, FALSE, proc[p].then)
      BY <1>1, <1>3, SaveStartMoves DEF SaveStart, At, queue, Starts
    <2> HIDE DEF d
    <2>3. /\ demo'[x] = d /\ x \notin quiet'
          /\ \A y \in Orders \ {x} : demo'[y] = demo[y] /\ (y \in quiet' <=> y \in quiet)
      BY <1>1, <2>1, <2>2, UpdateTyped DEF Typed
    <2>4. CASE o # x  BY <1>1, <2>2, <2>3, <2>4, AloneElsewhere
    <2>5. CASE o = x
      <3>1. /\ ~Running(demo[o]) /\ NoCheck(o) /\ d.clips = 0
        BY <1>1, <2>1, <2>2, <2>5 DEF AloneOn, WorkerOn, Running, Settled
      <3>2. \A c \in Crons : proc'[c].order # o
        BY <1>1, <3>1, DemoRoles DEF AloneOn, Only, Procs
      <3>3. \A q \in Workers : proc'[q].order = o => q = p
        BY <1>1, <2>2, <2>5, SoleWorker DEF Only, Procs
      <3>4. WorkerOn(p, o)'
        BY <1>1, <2>1, <2>2, <2>3, <2>5, <3>1 DEF WorkerOn, Goes, Starts, Running, NoCheck
      <3> QED  BY <2>1, <2>2, <2>3, <2>5, <3>1, <3>2, <3>3, <3>4 DEF AloneOn, NoCheck
    <2> QED  BY <2>4, <2>5
  <1>4. CASE Submit(p)
    <2>1. /\ UNCHANGED <<demo, quiet, checks>> /\ Submits(proc[p]) /\ ~Starts(proc'[p])
      BY <1>1, <1>4 DEF Submit, At, queue, Submits, Become, Starts
    <2> QED  BY <1>1, <2>1, AloneKept DEF Only, Procs
  <1>5. CASE EnqueueCheck(p)
    <2>1. /\ UNCHANGED <<demo, quiet>> /\ Submits(proc[p]) /\ checks' = checks \cup {Check(p)}
          /\ Become(p, [proc[p] EXCEPT !.pc = "finish", !.job = 0])
      BY <1>5 DEF EnqueueCheck, At, Submits
    <2>2. ~Starts(proc'[p]) /\ ~Submits(proc'[p])
      <3>1. Goes(p, "finish", 0, proc[p].holds, proc[p].then)  BY <1>1, <2>1, JobMoves DEF PCs
      <3> QED  BY <3>1 DEF Goes, Starts, Submits
    <2>3. CASE o # x
      <3>1. \A t \in checks' : t[1] = o => t \in checks  BY <2>1, <2>3 DEF Check
      <3> QED  BY <1>1, <2>1, <2>3, <3>1, AloneElsewhere
    <2>4. CASE o = x
      <3>1. Running(demo[o]) /\ NoCheck(o) /\ proc[p].copy.clips = 0
        BY <1>1, <2>1, <2>4 DEF AloneOn, WorkerOn
      <3>2. \A c \in Crons : proc'[c].order # o
        BY <1>1, <2>4, DemoRoles DEF AloneOn, Unattended, Only, Procs
      <3>3. \A q \in Workers : proc'[q].order = o => q = p
        BY <1>1, <2>1, <2>4, SoleWorker DEF Only, Procs
      <3>4. WorkerOn(p, o)'  BY <1>1, <2>2, <3>1 DEF WorkerOn
      <3>5. o \notin quiet  BY <1>1, <2>4 DEF AloneOn, Unattended
      <3>6. demo[o].clips # 0 => demo[o].status = "ready"  BY DEF AloneOn
      <3> QED  BY <2>1, <3>1, <3>2, <3>3, <3>4, <3>5, <3>6 DEF AloneOn, NoCheck
    <2> QED  BY <2>3, <2>4
  <1> QED  BY <1>3, <1>4, <1>5

\* A handler ends, and with the demo its only poll does.
LEMMA AloneLeave ==
  ASSUME SoleTicker, Typed, Hands, Alone, NEW o \in Orders \ cleared, NEW p \in Procs, Leave(p)
  PROVE  AloneOn(o)'
  <1> DEFINE x == proc[p].order
  <1>1. /\ Only(p) /\ proc'[p] = Idle /\ proc[p].pc # "idle" /\ x \in Orders /\ AloneOn(o)
        /\ proc[p] \in Goroutine /\ GoroutineOK(proc[p]) /\ RoleOK(p, proc[p])
    BY LeaveMoves DEF Alone, Typed, ProcsOK
  <1>2. proc'[p].order # o  BY <1>1, IdleIs, DemoAbsent
  <1>3. checks' \subseteq checks  BY QueueLeft
  <1>4. CASE demo' = demo /\ quiet' = quiet
    BY <1>1, <1>2, <1>3, <1>4, AloneElsewhere
  <1>5. ASSUME NEW d \in DemoRow, Saves(p, d), demo'[o] # demo[o]  PROVE AloneOn(o)'
    <2>1. /\ demo'[x] = d /\ x \notin quiet'
          /\ \A y \in Orders \ {x} : demo'[y] = demo[y] /\ (y \in quiet' <=> y \in quiet)
      BY <1>1, <1>5, UpdateTyped DEF Saves, Typed
    <2>2. o = x  BY <1>5, <2>1
    <2>3. p \notin Admins
      BY <1>1, <1>5, <2>2 DEF Alone, Saves, RoleOK, At
    <2>4. CASE p \in Workers
      <3>1. WorkerOn(p, o)  BY <1>1, <2>2, <2>4 DEF AloneOn
      <3>2. ~Running(d)
        <4>1. At(p, "limited") => ~Running(proc[p].copy)
          BY <1>1 DEF GoroutineOK, Starts, Settled, Running, At
        <4> QED  BY <1>5, <4>1 DEF Saves
      <3>3. d.clips # 0 => d.status = "ready"
        BY <1>1, <1>5, <2>4, <3>1, DemoRoles
        DEF Saves, WorkerOn, RoleOK, OnTask, OnCheck, Starts, Submits, At
      <3>4. OnTask(proc[p]) => Starts(proc[p]) \/ Submits(proc[p])
        BY <1>5 DEF Saves, OnTask
      <3>5. NoCheck(o)'
        <4>1. CASE OnTask(proc[p])
          <5>1. NoCheck(o)  BY <3>1, <3>4, <4>1 DEF WorkerOn
          <5> QED  BY <1>3, <5>1 DEF NoCheck
        <4>2. CASE OnCheck(proc[p]) /\ ~OnTask(proc[p])
          <5>1. Check(p) \in checks /\ Check(p)[1] = o  BY <2>2, <2>4, <4>2 DEF Hands, Has, Check
          <5>2. checks' = checks \ {Check(p)}  BY <1>5, <2>4, <4>2, QueueLeft
          <5> QED  BY <1>1, <5>1, <5>2 DEF AloneOn, NoCheck
        <4> QED  BY <1>1, <2>4, <4>1, <4>2 DEF RoleOK
      <3>6. \A c \in Crons : proc'[c].order # o
        BY <1>1, <2>2, <2>4, DemoRoles DEF AloneOn, Unattended, Only, Procs
      <3>7. ASSUME NEW q \in Workers, proc'[q].order = o  PROVE WorkerOn(q, o)'
        <4>1. q # p /\ proc[q].order = o /\ proc'[q] = proc[q]
          BY <1>1, <1>2, <3>7 DEF Only, Procs
        <4>2. ~Starts(proc[q]) /\ ~Submits(proc[q])
          BY <1>1, <2>2, <2>4, <4>1, SoleWorker
        <4> QED  BY <1>1, <4>1, <4>2 DEF AloneOn, WorkerOn
      <3> QED  BY <2>1, <2>2, <3>2, <3>3, <3>5, <3>6, <3>7 DEF AloneOn, NoCheck
    <2>5. CASE p \in Crons
      <3>1. Unattended(o) /\ proc[p].copy.clips = 0  BY <1>1, <2>2, <2>5 DEF AloneOn
      <3>2. d.clips = 0
        BY <1>1, <1>5, <2>5, <3>1, DemoRoles DEF Saves, RoleOK, At
      <3>3. Unattended(o)'
        BY <1>1, <1>2, <1>3, <3>1 DEF Unattended, NoCheck, Only, Procs
      <3>4. \A c \in Crons : proc'[c].order # o  BY <1>2, <2>5 DEF SoleTicker
      <3> QED  BY <2>1, <2>2, <3>2, <3>3, <3>4 DEF AloneOn, Unattended, NoCheck
    <2> QED  BY <2>3, <2>4, <2>5 DEF Procs
  <1>6. ASSUME NEW d \in DemoRow, Saves(p, d), demo'[o] = demo[o]  PROVE AloneOn(o)'
    <2>1. o \in quiet' => o \in quiet
      BY <1>1, <1>6, UpdateTyped DEF Saves, Typed
    <2> QED  BY <1>1, <1>2, <1>3, <1>6, <2>1, AloneElsewhere
  <1> QED  BY <1>4, <1>5, <1>6, LeaveSaves

\* No demo is in work at the start.
LEMMA AloneInit == Init => Alone
  <1> SUFFICES ASSUME Init PROVE Alone  OBVIOUS
  <1>1. /\ checks = {} /\ quiet = {} /\ \A p \in Procs : proc[p].order = NoOrder /\ At(p, "idle")
        /\ \A o \in Orders : demo[o].clips = 0
    BY IdleIs DEF Init, NoDemo, At
  <1> QED  BY <1>1, DemoAbsent DEF Alone, AloneOn, Procs, At

\* The admin goes on to the row only after the files.
LEMMA ClearedStep ==
  ASSUME Typed, Alone, [Next]_vars
  PROVE  /\ \A p \in Admins : At(p, "clear")' => proc'[p].order \in cleared'
         /\ cleared \subseteq cleared'
  <1>1. \A p \in Admins : proc[p].pc = "clear" => proc[p].order \in cleared  BY DEF Alone, At
  <1>2. CASE UNCHANGED <<proc, cleared>>  BY <1>1, <1>2 DEF At
  <1>3. ASSUME NEW p \in Procs, Only(p), cleared' = cleared, proc'[p].pc # "clear"
        PROVE  /\ \A q \in Admins : At(q, "clear")' => proc'[q].order \in cleared'
               /\ cleared \subseteq cleared'
    BY <1>1, <1>3 DEF At, Only, Procs
  <1>4. ASSUME NEW p \in Procs, Jump(p)
        PROVE  Only(p) /\ cleared' = cleared /\ proc'[p].pc # "clear"
    BY <1>4, JumpMoves DEF Still, Stays, Starts, Submits, OnCheck
  <1>5. ASSUME NEW p \in Procs, SaveStart(p) \/ Submit(p) \/ EnqueueCheck(p)
        PROVE  Only(p) /\ cleared' = cleared /\ proc'[p].pc # "clear"
    BY <1>5, StartTyped, DemoRoles
    DEF Typed, ProcsOK, RoleOK, OnTask, OnCheck, Starts, Submits, Procs
  <1>6. ASSUME NEW p \in Procs, Leave(p)
        PROVE  /\ \A q \in Admins : At(q, "clear")' => proc'[q].order \in cleared'
               /\ cleared \subseteq cleared'
    <2>1. Only(p) /\ proc'[p].pc = "idle"  BY <1>6, LeaveMoves, IdleIs
    <2>2. cleared \subseteq cleared'
      BY <1>6 DEF Leave, PoolBusy, MarkLimited, MarkFailed, SaveFailed, Finish, Error, SaveReady,
                  Crash, ClearSaved, DeleteFiles, history
    <2> QED  BY <1>1, <2>1, <2>2 DEF At, Only, Procs
  <1>7. ASSUME NEW p \in Procs, DeleteFiles(p) /\ Goto(p, "clear")
        PROVE  /\ \A q \in Admins : At(q, "clear")' => proc'[q].order \in cleared'
               /\ cleared \subseteq cleared'
    <2>1. Only(p) /\ proc'[p].order = proc[p].order /\ cleared' = cleared \cup {proc[p].order}
      BY <1>7, FilesGone DEF Goes
    <2> QED  BY <1>1, <2>1 DEF At, Only, Procs
  <1>8. ASSUME NEW p \in Procs, NEW o \in Orders,
               TakeDemo(p, o) \/ StartRecover(p, o) \/ StartDelete(p, o)
        PROVE  cleared' = cleared /\ (UNCHANGED proc \/ (Only(p) /\ proc'[p].pc # "clear"))
    BY <1>8, TakeDemoIs, RecoverIs, DeleteIs DEF Begins
  <1>9. ASSUME NEW p \in Procs, NEW t \in checks, TakeCheck(p, t)
        PROVE  cleared' = cleared /\ (UNCHANGED proc \/ (Only(p) /\ proc'[p].pc # "clear"))
    BY <1>9, TakeCheckIs DEF Begins
  <1>10. ASSUME NEW o \in Orders, TriggerDemo(o) \/ PayDemo(o) \/ SongSteps(o) \/ GoQuiet(o)
         PROVE  UNCHANGED <<proc, cleared>>
    BY <1>10, ClientIs, SongIs, GoQuietIs
  <1>11. CASE UNCHANGED vars  BY <1>2, <1>11 DEF vars, history
  <1>12. CASE Next
    BY <1>2, <1>3, <1>4, <1>5, <1>6, <1>7, <1>8, <1>9, <1>10, <1>12, StepIs
  <1> QED  BY <1>11, <1>12

\* Every step leaves a demo in work with one of those who may end it.
LEMMA AloneStep ==
  ASSUME SoleTicker, PollsInTime
  PROVE  Typed /\ Hands /\ Alone /\ [Next]_vars => Alone'
  <1> SUFFICES ASSUME Typed, Hands, Alone, [Next]_vars PROVE Alone'  OBVIOUS
  <1>1. ASSUME NEW o \in Orders \ cleared  PROVE AloneOn(o)'
    <2>1. AloneOn(o)  BY <1>1 DEF Alone
    <2>2. CASE UNCHANGED vars  BY <2>1, <2>2, AloneKept DEF vars, queue
    <2>3. ASSUME NEW x \in Orders, SongSteps(x)  PROVE AloneOn(o)'
      BY <1>1, <2>1, <2>3, SongIs, AloneKept
    <2>4. ASSUME NEW x \in Orders, GoQuiet(x)  PROVE AloneOn(o)'
      <3>1. /\ quiet' = quiet \cup {x} /\ UNCHANGED <<demo, checks, proc>> /\ Running(demo[x])
            /\ \A p \in Procs : proc[p].order # x
            /\ \A t \in checks : t[1] # x
        BY <2>4, GoQuietIs
      <3> QED  BY <2>1, <3>1 DEF AloneOn, WorkerOn, Unattended, NoCheck, Procs
    <2>5. ASSUME NEW p \in Procs, NEW x \in Orders, StartDelete(p, x)  PROVE AloneOn(o)'
      <3>1. p \in Admins /\ Only(p) /\ UNCHANGED <<demo, quiet, checks>>
        BY <2>5, DeleteIs DEF Begins
      <3> QED  BY <1>1, <2>1, <3>1, AloneKept, DemoRoles DEF Only, Procs
    <2>6. ASSUME NEW p \in Procs, DeleteFiles(p) /\ Goto(p, "clear")  PROVE AloneOn(o)'
      <3>1. p \in Admins /\ Only(p) /\ UNCHANGED <<demo, quiet, checks>>
        BY <2>6, FilesGone DEF Goes
      <3> QED  BY <1>1, <2>1, <3>1, AloneKept, DemoRoles DEF Only, Procs
    <2> QED
      BY <1>1, <2>1, <2>2, <2>3, <2>4, <2>5, <2>6, StepIs, AloneClient, AloneTake, AloneRecover,
         AloneTakeCheck, AloneJump, AloneStart, AloneLeave
  <1> QED  BY <1>1, ClearedStep DEF Alone

-----------------------------------------------------------------------------
\* One demo job of an order is polled at a time, whatever retries, crashes and late
\* answers: GenerateDemo, after RecoverStuckDemos too, starts no second one while the first
\* is in work, unless the admin deletes the demo in the middle of it.
THEOREM OneJobAtATime ==
  ASSUME SoleTicker, PollsInTime
  PROVE  Spec => []OneDemoJob
  <1>1. Typed /\ Hands /\ Alone => OneDemoJob
    <2> SUFFICES ASSUME Typed, Hands, Alone, NEW o \in Orders \ cleared
                 PROVE  Cardinality({t \in checks : t[1] = o}) + Cardinality(Generating(o)) <= 1
      BY DEF OneDemoJob
    <2> DEFINE C == {t \in checks : t[1] = o}
    <2>1. AloneOn(o)  BY DEF Alone
    <2>2. Cardinality(C) \in {0, 1}
      <3>1. C = {} \/ \E t : C = {t}  BY <2>1 DEF AloneOn
      <3> QED  BY <3>1, FS_EmptySet, FS_Singleton
    <2>3. Generating(o) = {} \/ (C = {} /\ \E p : Generating(o) = {p})
      <3>1. \A p \in Generating(o) : p \in Workers /\ proc[p].order = o /\ OnTask(proc[p])
                                     /\ Submits(proc[p])
        BY DEF Generating, OnTask, Submits
      <3>2. \A p, q \in Generating(o) : p = q  BY <3>1 DEF Hands, Apart
      <3>3. Generating(o) # {} => NoCheck(o)  BY <2>1, <3>1 DEF AloneOn, WorkerOn
      <3> QED  BY <3>2, <3>3 DEF NoCheck
    <2> HIDE DEF C
    <2>4. Cardinality(C) + Cardinality(Generating(o)) <= 1
      <3>1. CASE Generating(o) = {}
        <4>1. Cardinality(Generating(o)) = 0  BY <3>1, FS_EmptySet
        <4> QED  BY <2>2, <4>1
      <3>2. CASE C = {} /\ \E p : Generating(o) = {p}
        <4>1. Cardinality(Generating(o)) = 1  BY <3>2, FS_Singleton
        <4>2. Cardinality(C) = 0  BY <3>2, FS_EmptySet
        <4> QED  BY <4>1, <4>2
      <3> QED  BY <2>3, <3>1, <3>2
    <2> QED  BY <2>4 DEF C
  <1>2. /\ Init => Typed /\ Hands /\ Alone
        /\ Typed /\ Hands /\ Alone /\ [Next]_vars => (Typed /\ Hands /\ Alone)'
    BY TypesInit, HandsInit, AloneInit, TypesStep, HandsStep, AloneStep
  <1> QED  BY <1>1, <1>2, PTL DEF Spec

-----------------------------------------------------------------------------
(* The clips of a demo, and the song that takes them over.                 *)

\* The worker has uploaded the clips of its job.
Uploaded(g) ==
  \/ g.pc \in {"preview", "saveReady"}
  \/ g.pc = "release" /\ g.then = "saveReady"

\* The clips a demo names are in S3, and were there before it named them.
KeptOn(o) ==
  /\ demo[o].clips # 0 => <<o, demo[o].clips>> \in stored
  /\ \A p \in Workers : proc[p].order = o /\ Uploaded(proc[p]) => Check(p) \in stored

\* The versions asked of Suno leave room for the clips that were there, and those are
\* still the demo's.
Heard(s, clips) ==
  /\ s.state \in {"pending", "paid"} => s.heard = 0
  /\ s.state \notin {"pending", "paid"} => s.asked \in {2, 4} /\ (s.heard # 0 <=> s.asked = 2)
  /\ s.heard # 0 => s.heard = clips
  /\ s.state = "uploading" /\ s.heard # 0 => s.seen = s.heard
  /\ s.state = "completed" =>
       /\ \/ s.fresh + (IF s.reused # 0 THEN 2 ELSE 0) = 4
          \/ s.asked = 4 /\ s.fresh < 4 /\ s.reused = 0
       /\ s.heard # 0 => s.reused = s.heard
Kept == \A o \in Orders \ cleared : KeptOn(o) /\ Heard(song[o], demo[o].clips)

\* Clips are named once, by the worker that has uploaded them, until the admin acts.
LEMMA ClipsWritten ==
  ASSUME Typed, Hands, Alone, Next, NEW o \in Orders \ cleared'
  PROVE  \/ demo'[o].clips = demo[o].clips
         \/ /\ demo[o].clips = 0
            /\ \E p \in Workers : /\ proc[p].order = o /\ proc[p].pc = "saveReady"
                                  /\ demo'[o].clips = proc[p].job
  <1>1. o \notin cleared /\ AloneOn(o)  BY ClearedStep DEF Alone
  <1>2. ASSUME NEW x \in Orders, TriggerDemo(x) \/ PayDemo(x)
        PROVE  demo'[o].clips = demo[o].clips
    <2>1. demo[x] \in DemoRow  BY DEF Typed, DemosOK
    <2>2. MarkDemoLimited(demo[x]) \in DemoRow /\ MarkDemoLimited(demo[x]).clips = demo[x].clips
      BY <2>1, DemoIs
    <2> QED  BY <1>2, <2>2, ClientIs, UpdateTyped DEF Typed
  <1>3. ASSUME NEW p \in Procs, SaveStart(p) \/ Submit(p) \/ EnqueueCheck(p)
        PROVE  demo'[o].clips = demo[o].clips
    <2>1. /\ p \in Workers /\ proc[p].order \in Orders /\ proc[p].copy \in DemoRow
      BY <1>3, StartTyped DEF Typed, ProcsOK, Goroutine
    <2>2. \/ demo' = demo
          \/ UpdateDemo(proc[p].order, StartDemo(proc[p].copy)) /\ Starts(proc[p])
      BY <1>3 DEF SaveStart, Submit, EnqueueCheck, At, Starts
    <2>3. CASE UpdateDemo(proc[p].order, StartDemo(proc[p].copy)) /\ Starts(proc[p])
      <3> DEFINE d == StartDemo(proc[p].copy)
      <3>1. d \in DemoRow /\ d.clips = proc[p].copy.clips  BY <2>1, DemoIs
      <3>2. /\ demo'[proc[p].order] = d
            /\ \A y \in Orders \ {proc[p].order} : demo'[y] = demo[y]
        BY <2>1, <2>3, <3>1, UpdateTyped DEF Typed
      <3> HIDE DEF d
      <3>3. proc[p].order = o => d.clips = 0 /\ demo[o].clips = 0
        BY <1>1, <2>1, <2>3, <3>1 DEF AloneOn, WorkerOn, Settled
      <3> QED  BY <3>2, <3>3
    <2> QED  BY <2>2, <2>3
  <1>4. ASSUME NEW p \in Procs, Leave(p), NEW d \in DemoRow, Saves(p, d)
        PROVE  \/ demo'[o].clips = demo[o].clips
               \/ /\ demo[o].clips = 0 /\ p \in Workers
                  /\ proc[p].order = o /\ proc[p].pc = "saveReady" /\ demo'[o].clips = proc[p].job
    <2>1. /\ proc[p].order \in Orders /\ proc[p].pc # "idle" /\ RoleOK(p, proc[p])
      BY <1>4, LeaveMoves DEF Typed, ProcsOK
    <2>2. /\ demo'[proc[p].order] = d
          /\ \A y \in Orders \ {proc[p].order} : demo'[y] = demo[y]
      BY <1>4, <2>1, UpdateTyped DEF Saves, Typed
    <2>3. CASE proc[p].order = o
      <3>1. p \notin Admins  BY <1>1, <1>4, <2>1, <2>3 DEF Alone, Saves, RoleOK, At
      <3>2. proc[p].copy.clips = 0 /\ demo[o].status # "ready"
        <4>1. CASE p \in Workers
          <5>1. WorkerOn(p, o)  BY <1>1, <2>3, <4>1 DEF AloneOn
          <5>2. \/ Starts(proc[p]) \/ Submits(proc[p]) \/ OnCheck(proc[p])
            BY <1>4, <2>1, <4>1, DemoRoles DEF Saves, Starts, Submits, OnCheck, RoleOK, OnTask
          <5>3. CASE Starts(proc[p]) \/ Submits(proc[p])
            BY <5>1, <5>3 DEF WorkerOn, Settled, Running
          <5>4. CASE OnCheck(proc[p])
            <6>1. Check(p) \in checks /\ Check(p)[1] = o  BY <2>3, <4>1, <5>4 DEF Hands, Has, Check
            <6> QED  BY <1>1, <5>1, <6>1 DEF AloneOn, WorkerOn, Running
          <5> QED  BY <5>2, <5>3, <5>4
        <4>2. CASE p \in Crons  BY <1>1, <2>3, <4>2 DEF AloneOn, Running
        <4> QED  BY <3>1, <4>1, <4>2 DEF Procs
      <3>3. demo[o].clips = 0  BY <1>1, <3>2 DEF AloneOn
      <3>4. proc[p].pc = "saveReady" => p \in Workers
        BY <2>1, DemoRoles DEF RoleOK, Procs
      <3>5. ~At(p, "clear")
        BY <2>1, <3>1 DEF RoleOK, At, Procs, OnTask, OnCheck, Starts, Submits
      <3> QED  BY <1>4, <2>2, <2>3, <3>2, <3>3, <3>4, <3>5 DEF Saves, At
    <2> QED  BY <2>2, <2>3
  <1>5. ASSUME NEW p \in Procs, Jump(p)  PROVE demo' = demo
    BY <1>5, JumpMoves DEF Still
  <1> QED
    BY <1>2, <1>3, <1>4, <1>5, StepIs, SongIs, GoQuietIs, TakeDemoIs, RecoverIs, DeleteIs,
       TakeCheckIs, FilesGone, LeaveSaves

\* Files are only ever removed for a demo the admin deletes.
LEMMA FilesStay ==
  ASSUME Typed, Next
  PROVE  \A t \in stored : t[1] \notin cleared' => t \in stored'
  <1>1. ASSUME NEW p \in Procs, Jump(p)  PROVE stored \subseteq stored'
    BY <1>1 DEF Jump, LockAccount, Limits, SaveStartFails, SubmitFails, FetchLater, FetchTerminal,
                UploadClips, UploadPreview, UploadFails, SaveReadyFails, GiveBack
  <1>2. ASSUME NEW p \in Procs, DeleteFiles(p)
        PROVE  \A t \in stored : t[1] \notin cleared' => t \in stored'
    BY <1>2 DEF DeleteFiles
  <1>3. ASSUME NEW p \in Procs, Leave(p)
        PROVE  \A t \in stored : t[1] \notin cleared' => t \in stored'
    BY <1>2, <1>3 DEF Leave, PoolBusy, MarkLimited, MarkFailed, SaveFailed, Finish, Error,
                      SaveReady, Crash, ClearSaved
  <1> QED
    BY <1>1, <1>2, <1>3, StepIs, ClientIs, SongIs, GoQuietIs, TakeDemoIs, RecoverIs, DeleteIs,
       TakeCheckIs, StartTyped

\* A worker has uploaded its clips when it says so.
LEMMA UploadsStay ==
  ASSUME Typed, Hands, Alone, Kept, Next, NEW o \in Orders \ cleared',
         NEW p \in Workers, proc'[p].order = o, Uploaded(proc'[p])
  PROVE  Check(p)' \in stored'
  <1>1. o \notin cleared /\ Typed'  BY ClearedStep, TypesStep
  <1>2. ASSUME proc'[p] = proc[p]  PROVE Check(p)' \in stored'
    BY <1>1, <1>2, FilesStay DEF Kept, KeptOn, Check
  <1>3. ASSUME NEW q \in Procs, Only(q), q # p  PROVE Check(p)' \in stored'
    BY <1>2, <1>3 DEF Only, Procs
  <1>4. ASSUME NEW q \in Procs, Only(q), ~Uploaded(proc'[q])  PROVE Check(p)' \in stored'
    BY <1>3, <1>4
  <1>5. ASSUME Jump(p)  PROVE Check(p)' \in stored'
    <2>1. /\ Only(p) /\ Check(p)' = Check(p) /\ proc[p].order = o /\ proc \in [Procs -> Goroutine]
          /\ p \in Procs
      BY <1>5, JumpMoves DEF Check, Procs, Typed, ProcsOK
    <2>2. CASE Uploaded(proc[p])
      <3>1. Check(p) \in stored /\ Check(p)[1] = o
        BY <1>1, <2>1, <2>2 DEF Kept, KeptOn, Check
      <3> QED  BY <2>1, <3>1, FilesStay
    <2>3. CASE UploadClips(p)  BY <2>1, <2>3 DEF UploadClips
    <2>4. CASE ~Uploaded(proc[p]) /\ ~UploadClips(p)
      <3>1. CASE LockAccount(p)
        <4>1. proc'[p].pc = "limits"  BY <2>1, <3>1, HoldMoves DEF LockAccount, Goes
        <4> QED  BY <4>1 DEF Uploaded
      <3>2. CASE Limits(p) \/ SaveStartFails(p) \/ SubmitFails(p) \/ FetchTerminal(p)
        <4>1. \/ \E c \in {"start", "clips"} : Goto(p, c)
              \/ \E c \in {"limited", "finish", "error", "markFailed", "saveFailed"} : Release(p, c)
          BY <3>2 DEF Limits, SaveStartFails, SubmitFails, FetchTerminal
        <4>2. \/ proc'[p].pc \in {"start", "clips"}
              \/ proc'[p].pc = "release" /\ proc'[p].then # "saveReady"
          BY <2>1, <4>1, GotoMoves, ReleaseMoves DEF Goes, PCs
        <4> QED  BY <4>2 DEF Uploaded
      <3>3. CASE FetchLater(p) \/ UploadFails(p) \/ SaveReadyFails(p)
        <4>1. Goto(p, "error")  BY <3>3 DEF FetchLater, UploadFails, SaveReadyFails
        <4>2. proc'[p].pc = "error"  BY <2>1, <4>1, GotoMoves DEF Goes, PCs
        <4> QED  BY <4>2 DEF Uploaded
      <3>4. CASE UploadPreview(p)  BY <2>4, <3>4 DEF UploadPreview, At, Uploaded
      <3>5. CASE GiveBack(p)
        <4>1. proc[p].pc = "release" /\ proc'[p].pc = proc[p].then
          BY <2>1, <3>5, GiveMoves DEF GiveBack, At, Goes
        <4>2. proc[p].then \notin {"saveReady"}  BY <2>4, <4>1 DEF Uploaded
        <4>3. proc[p].then # "preview" /\ proc[p].then # "release"
          BY <2>1, <4>1, DemoRoles
          DEF Typed, ProcsOK, RoleOK, OnTask, OnCheck, Starts, Submits
        <4> QED  BY <4>1, <4>2, <4>3 DEF Uploaded
      <3> QED  BY <1>5, <2>4, <3>1, <3>2, <3>3, <3>4, <3>5 DEF Jump
    <2> QED  BY <2>2, <2>3, <2>4
  <1>6. ASSUME NEW q \in Procs, Jump(q), q # p  PROVE Check(p)' \in stored'
    BY <1>3, <1>6, JumpMoves
  <1>7. ASSUME NEW q \in Procs, SaveStart(q) \/ Submit(q) \/ EnqueueCheck(q)
        PROVE  Check(p)' \in stored'
    <2>1. proc \in [Procs -> Goroutine] /\ Only(q)  BY <1>7, StartTyped DEF Typed, ProcsOK
    <2>2. proc'[q].pc \in {"submit", "enqueue", "finish"}  BY <1>7, StartTyped
    <2> QED  BY <1>4, <2>1, <2>2 DEF Uploaded
  <1>8. ASSUME NEW q \in Procs, Leave(q)  PROVE Check(p)' \in stored'
    BY <1>4, <1>8, LeaveMoves, IdleIs DEF Uploaded
  <1>9. ASSUME NEW q \in Procs, NEW x \in Orders,
               TakeDemo(q, x) \/ StartRecover(q, x) \/ StartDelete(q, x)
        PROVE  Check(p)' \in stored'
    BY <1>2, <1>4, <1>9, TakeDemoIs, RecoverIs, DeleteIs DEF Begins, Uploaded
  <1>10. ASSUME NEW q \in Procs, NEW t \in checks, TakeCheck(q, t)  PROVE Check(p)' \in stored'
    BY <1>2, <1>4, <1>10, TakeCheckIs DEF Begins, Uploaded
  <1>11. ASSUME NEW q \in Procs, DeleteFiles(q) /\ Goto(q, "clear")  PROVE Check(p)' \in stored'
    BY <1>4, <1>11, FilesGone DEF Goes, Uploaded
  <1> QED
    BY <1>2, <1>5, <1>6, <1>7, <1>8, <1>9, <1>10, <1>11, StepIs, ClientIs, SongIs, GoQuietIs

\* A step of the song keeps what it has heard, and adds up to four versions.
LEMMA SongHeard ==
  ASSUME Typed, NEW o \in Orders, SongSteps(o), Heard(song[o], demo[o].clips)
  PROVE  Heard(song'[o], demo[o].clips)
  <1> DEFINE s == song[o]
             n == demo[o].clips
  <1>1. s \in SongRow /\ n \in Nat /\ song \in [Orders -> SongRow]
    BY DEF Typed, SongsOK, DemosOK, DemoRow
  <1>2. CASE PaySong(o)
    <2>1. /\ s.state = "pending" /\ song'[o] = [s EXCEPT !.state = "paid"]
      BY <1>1, <1>2 DEF PaySong, MarkPaid
    <2> QED  BY <1>1, <2>1 DEF Heard, SongRow
  <1>3. CASE SubmitSong(o)
    <2> DEFINE a == IF n # 0 THEN 2 ELSE 4
    <2>1. a = Asked(o)  BY DEF Asked, DefaultTrackCount, clipsPerDemoTask
    <2>2. song'[o] = [s EXCEPT !.state = "submitted", !.asked = a, !.heard = n]
      BY <1>1, <1>3, <2>1 DEF SubmitSong
    <2>3. (n # 0 <=> a = 2) /\ a \in {2, 4}  OBVIOUS
    <2> HIDE DEF a
    <2>4. song'[o].state = "submitted" /\ song'[o].asked = a /\ song'[o].heard = n
      BY <1>1, <2>2 DEF SongRow
    <2> QED  BY <2>3, <2>4 DEF Heard
  <1>4. CASE PollSong(o)
    <2>1. /\ s.state \in {"submitted", "uploading"}
          /\ song'[o] = [s EXCEPT !.state = "uploading", !.seen = n]
      BY <1>1, <1>4 DEF PollSong
    <2>2. /\ song'[o].state = "uploading" /\ song'[o].asked = s.asked /\ song'[o].heard = s.heard
          /\ song'[o].seen = n
      BY <1>1, <2>1 DEF SongRow
    <2> QED  BY <2>1, <2>2 DEF Heard
  <1>5. CASE CompleteSong(o)
    <2>0. DefaultTrackCount \div 2 = 2  BY DEF DefaultTrackCount
    <2>1. PICK got \in {song[o].asked, DefaultTrackCount \div 2} :
            song' = [song EXCEPT ![o].state = "completed", ![o].fresh = got,
                            ![o].reused = IF ReuseDemo(o, got) THEN song[o].seen ELSE 0]
      BY <1>5 DEF CompleteSong
    <2> DEFINE r == IF s.seen # 0 /\ got <= 2 THEN s.seen ELSE 0
    <2>2. song'[o] = [s EXCEPT !.state = "completed", !.fresh = got, !.reused = r]
      BY <1>1, <2>1 DEF ReuseDemo, DefaultTrackCount, clipsPerDemoTask
    <2>3. /\ r # 0 <=> s.seen # 0 /\ got <= 2
          /\ r # 0 => r = s.seen
      OBVIOUS
    <2> HIDE DEF r
    <2>4. /\ song'[o].state = "completed" /\ song'[o].asked = s.asked /\ song'[o].heard = s.heard
          /\ song'[o].fresh = got /\ song'[o].reused = r
      BY <1>1, <2>2 DEF SongRow
    <2>5. /\ s.asked \in {2, 4} /\ (s.heard # 0 <=> s.asked = 2)
          /\ s.heard # 0 => s.heard = n /\ s.seen = s.heard
      BY <1>5 DEF CompleteSong, Heard
    <2>6. CASE got = 2  BY <2>3, <2>4, <2>5, <2>6 DEF Heard
    <2>7. CASE got = 4
      <3>1. s.asked = 4  BY <2>0, <2>7
      <3>2. r = 0  BY <2>3, <2>7
      <3>3. s.heard = 0  BY <2>5, <3>1
      <3> QED  BY <2>4, <2>5, <2>7, <3>1, <3>2, <3>3 DEF Heard
    <2> QED  BY <2>0, <2>5, <2>6, <2>7
  <1>6. CASE FailSong(o)
    <2>1. s.state = "uploading" /\ song'[o] = [s EXCEPT !.state = "failed"]
      BY <1>1, <1>6 DEF FailSong
    <2>2. /\ song'[o].state = "failed" /\ song'[o].asked = s.asked /\ song'[o].heard = s.heard
      BY <1>1, <2>1 DEF SongRow
    <2> QED  BY <2>1, <2>2 DEF Heard
  <1> QED  BY <1>2, <1>3, <1>4, <1>5, <1>6 DEF SongSteps, Song

\* Nobody else writes the song, and a step that is not the song's leaves it.
LEMMA SongLeft ==
  ASSUME Typed, Next, NEW o \in Orders, ~SongSteps(o)
  PROVE  song'[o] = song[o]
  <1>1. ASSUME NEW p \in Procs, Jump(p)  PROVE song' = song  BY <1>1, JumpMoves DEF Still
  <1> QED
    BY <1>1, StepIs, ClientIs, SongIs, GoQuietIs, TakeDemoIs, RecoverIs, DeleteIs, TakeCheckIs,
       StartTyped, FilesGone, LeaveMoves

\* No demo has clips at the start.
LEMMA KeptInit == Init => Kept
  <1> SUFFICES ASSUME Init, NEW o \in Orders PROVE KeptOn(o) /\ Heard(song[o], demo[o].clips)
    BY DEF Kept
  <1>1. demo[o].clips = 0 /\ song[o].state = "pending" /\ song[o].heard = 0
    BY DEF Init, NoDemo, NewSong
  <1>2. \A p \in Workers : ~Uploaded(proc[p])  BY IdleIs DEF Init, Uploaded, Procs
  <1> QED  BY <1>1, <1>2 DEF KeptOn, Heard

\* Every step keeps the clips and what the song has heard of them.
LEMMA KeptStep == Typed /\ Hands /\ Alone /\ Kept /\ [Next]_vars => Kept'
  <1> SUFFICES ASSUME Typed, Hands, Alone, Kept, [Next]_vars PROVE Kept'  OBVIOUS
  <1>1. CASE UNCHANGED vars
    BY <1>1 DEF vars, history, Kept, KeptOn, Check
  <1>2. CASE Next
    <2> SUFFICES ASSUME NEW o \in Orders \ cleared'
                 PROVE  KeptOn(o)' /\ Heard(song'[o], demo'[o].clips)
      BY DEF Kept
    <2> USE <1>2
    <2>1. /\ o \in Orders \ cleared /\ KeptOn(o) /\ Heard(song[o], demo[o].clips)
      BY ClearedStep DEF Kept
    <2>2. \/ demo'[o].clips = demo[o].clips
          \/ /\ demo[o].clips = 0
             /\ \E p \in Workers : /\ proc[p].order = o /\ proc[p].pc = "saveReady"
                                   /\ demo'[o].clips = proc[p].job
      BY ClipsWritten
    <2>3. \A n : <<o, n>> \in stored => <<o, n>> \in stored'  BY FilesStay
    <2>4. demo'[o].clips # 0 => <<o, demo'[o].clips>> \in stored'
      <3>1. CASE demo'[o].clips = demo[o].clips  BY <2>1, <2>3, <3>1 DEF KeptOn
      <3>2. ASSUME NEW p \in Workers, proc[p].order = o, proc[p].pc = "saveReady",
                   demo'[o].clips = proc[p].job
            PROVE  <<o, demo'[o].clips>> \in stored'
        BY <2>1, <2>3, <3>2 DEF KeptOn, Uploaded, Check
      <3> QED  BY <2>2, <3>1, <3>2
    <2>5. KeptOn(o)'  BY <2>4, UploadsStay DEF KeptOn
    <2>6. Heard(song'[o], demo'[o].clips)
      <3>1. CASE SongSteps(o)
        <4>1. demo' = demo  BY <3>1, SongIs
        <4> QED  BY <2>1, <3>1, <4>1, SongHeard
      <3>2. CASE ~SongSteps(o)
        <4>1. song'[o] = song[o]  BY <3>2, SongLeft
        <4>2. song[o].heard # 0 => demo'[o].clips = demo[o].clips  BY <2>1, <2>2 DEF Heard
        <4> QED  BY <2>1, <4>1, <4>2 DEF Heard
      <3> QED  BY <3>1, <3>2
    <2> QED  BY <2>5, <2>6
  <1> QED  BY <1>1, <1>2

\* A song has its four versions, unless Suno delivered one job of two and there is no
\* demo to complete it with: what the demo lane does between the submission of the song
\* and its last poll (ProcessGenerationTask, CheckGenerationStatus) neither takes a
\* version away nor adds a fifth.
THEOREM VersionsDelivered ==
  ASSUME SoleTicker, PollsInTime
  PROVE  Spec => []FullDelivery
  <1>1. Kept => FullDelivery
    BY DEF Kept, Heard, FullDelivery, Versions, DefaultTrackCount, clipsPerDemoTask
  <1>2. /\ Init => Typed /\ Hands /\ Alone /\ Kept
        /\ Typed /\ Hands /\ Alone /\ Kept /\ [Next]_vars => (Typed /\ Hands /\ Alone /\ Kept)'
    BY TypesInit, HandsInit, AloneInit, KeptInit, TypesStep, HandsStep, AloneStep, KeptStep
  <1> QED  BY <1>1, <1>2, PTL DEF Spec

\* A client who has heard the demo before paying for the song gets that demo as the first
\* versions, and its files are in S3, unless the admin deleted it.
THEOREM HeardDemoDelivered ==
  ASSUME SoleTicker, PollsInTime
  PROVE  Spec => []HeardIsDelivered
  <1>1. Kept => HeardIsDelivered
    <2> SUFFICES ASSUME Kept, NEW o \in Orders \ cleared, song[o].state = "completed",
                        song[o].heard # 0
                 PROVE  song[o].reused = song[o].heard /\ <<o, song[o].heard>> \in stored
      BY DEF HeardIsDelivered
    <2>1. KeptOn(o) /\ Heard(song[o], demo[o].clips)  BY DEF Kept
    <2>2. song[o].reused = song[o].heard /\ song[o].heard = demo[o].clips  BY <2>1 DEF Heard
    <2> QED  BY <2>1, <2>2 DEF KeptOn
  <1>2. /\ Init => Typed /\ Hands /\ Alone /\ Kept
        /\ Typed /\ Hands /\ Alone /\ Kept /\ [Next]_vars => (Typed /\ Hands /\ Alone /\ Kept)'
    BY TypesInit, HandsInit, AloneInit, KeptInit, TypesStep, HandsStep, AloneStep, KeptStep
  <1> QED  BY <1>1, <1>2, PTL DEF Spec

-----------------------------------------------------------------------------
(* The slots.                                                              *)

\* A slot given back before the order is saved is no longer the demo's when it is.
Given == \A o \in Orders \ cleared : \A p \in Workers \cup Crons :
  proc[p].order = o /\ proc[p].pc \in {"markFailed", "saveFailed", "saveReady"} => ~Holds(o)

\* What has its slot: orders in work, and goroutines about to store theirs.
Holding == {o \in Orders : Holds(o)}
InHand == {p \in Procs : proc[p].holds}
Used == Cardinality(Singing) + Cardinality(Holding) + Cardinality(InHand)

\* The books are balanced, and only demos in processing have been given up early.
Books ==
  /\ \A o \in ghosts : Running(demo[o])
  /\ slots <= MaxSlots
  /\ IsFiniteSet(Singing) /\ IsFiniteSet(Holding) /\ IsFiniteSet(InHand)
  /\ ~stolen => slots >= Used /\ (cleared = {} => slots = Used + leaked)

\* Finite sets are counted.
LEMMA UsedIs ==
  ASSUME Books
  PROVE  /\ Cardinality(Singing) \in Nat /\ Cardinality(Holding) \in Nat
         /\ Cardinality(InHand) \in Nat /\ Used \in Nat
  BY FS_CardinalityType DEF Books, Used

\* A demo that is not written, nor given up, has its slot as before; one that is written
\* as ended has none.
LEMMA HoldsSame ==
  ASSUME demo' = demo, ghosts' = ghosts
  PROVE  Holding' = Holding
  BY DEF Holding, Holds

\* An order saved with a demo that has ended holds no slot.
LEMMA HoldsSaved ==
  ASSUME Typed, NEW x \in Orders, NEW d \in DemoRow, ~Running(d), UpdateDemo(x, d)
  PROVE  /\ Holding' = Holding \ {x}
         /\ \A o \in Orders : Holds(o)' => Holds(o)
         /\ (\A o \in ghosts : Running(demo[o])) => \A o \in ghosts' : Running(demo'[o])
  <1>1. /\ demo'[x] = d
        /\ \A y \in Orders \ {x} : demo'[y] = demo[y] /\ (y \in ghosts' <=> y \in ghosts)
        /\ x \notin ghosts' /\ ghosts' \subseteq ghosts /\ ghosts \subseteq Orders
    BY UpdateTyped DEF Typed, UpdateDemo, DemosOK
  <1>2. ~Holds(x)' /\ \A y \in Orders \ {x} : Holds(y)' <=> Holds(y)  BY <1>1 DEF Holds
  <1> QED  BY <1>1, <1>2 DEF Holding

\* A client that is refused changes no slot.
LEMMA HoldsClient ==
  ASSUME Typed, \A o \in ghosts : Running(demo[o]), NEW x \in Orders,
         TriggerDemo(x) \/ PayDemo(x)
  PROVE  Holding' = Holding /\ \A o \in ghosts' : Running(demo'[o])
  <1>1. CASE UNCHANGED <<demo, quiet, ghosts>>  BY <1>1, HoldsSame
  <1>2. CASE UpdateDemo(x, MarkDemoLimited(demo[x]))
    <2>1. demo[x] \in DemoRow  BY DEF Typed, DemosOK
    <2>2. CASE Settled(demo[x])
      <3>1. UpdateDemo(x, demo[x])  BY <1>2, <2>1, <2>2, DemoIs
      <3>2. demo' = demo  BY <3>1 DEF UpdateDemo, Typed, DemosOK
      <3>3. ghosts' = ghosts  BY <3>1 DEF UpdateDemo
      <3> QED  BY <3>2, <3>3, HoldsSame
    <2>3. CASE ~Settled(demo[x])
      <3> DEFINE d == MarkDemoLimited(demo[x])
      <3>1. d \in DemoRow /\ ~Running(d) /\ UpdateDemo(x, d) /\ ~Holds(x)
        BY <1>2, <2>1, <2>3, DemoIs DEF Running, Settled, Holds
      <3> HIDE DEF d
      <3> QED  BY <3>1, HoldsSaved DEF Holding
    <2> QED  BY <2>2, <2>3
  <1> QED  BY <1>1, <1>2, ClientIs

\* The start of a demo takes over the slot of its worker.
LEMMA HoldsStart ==
  ASSUME Typed, Alone, \A o \in ghosts : Running(demo[o]), NEW p \in Procs, SaveStart(p)
  PROVE  /\ Holding' \subseteq Holding \cup {proc[p].order}
         /\ proc[p].order \notin cleared => /\ proc[p].order \notin Holding
                                            /\ Holding' = Holding \cup {proc[p].order}
         /\ \A o \in ghosts' : Running(demo'[o])
  <1> DEFINE d == StartDemo(proc[p].copy)
  <1>0. PICK x : x = proc[p].order  OBVIOUS
  <1>1. /\ x \in Orders /\ p \in Workers /\ proc[p].copy \in DemoRow
    BY <1>0, StartTyped DEF Typed, ProcsOK, Goroutine
  <1>2. UpdateDemo(x, d) /\ Starts(proc[p])  BY <1>0 DEF SaveStart, At, Starts
  <1>3. d \in DemoRow /\ Running(d) /\ d.held  BY <1>1, DemoIs DEF Running
  <1> HIDE DEF d
  <1>4. /\ demo'[x] = d /\ ghosts' = ghosts
        /\ \A y \in Orders \ {x} : demo'[y] = demo[y]
    BY <1>1, <1>2, <1>3, UpdateTyped DEF Typed, UpdateDemo
  <1>5. \A y \in Orders \ {x} : Holds(y)' <=> Holds(y)  BY <1>4 DEF Holds
  <1>6. x \notin cleared => ~Running(demo[x]) /\ x \notin ghosts /\ ~Holds(x)
    BY <1>0, <1>1, <1>2 DEF Alone, AloneOn, WorkerOn, Settled, Running, Holds
  <1>7. x \notin cleared => Holds(x)'  BY <1>3, <1>4, <1>6 DEF Holds
  <1>8. \A o \in ghosts' : Running(demo'[o])  BY <1>3, <1>4 DEF Typed, DemosOK
  <1> QED  BY <1>0, <1>1, <1>5, <1>6, <1>7, <1>8 DEF Holding

\* A slot is given back by its goroutine, or for its order.
LEMMA HoldsGive ==
  ASSUME Typed, \A o \in ghosts : Running(demo[o]), NEW p \in Procs, GiveBack(p)
  PROVE  /\ Only(p) /\ ~proc'[p].holds /\ proc[p].order \in Orders
         /\ proc[p].holds => Holding' = Holding
         /\ ~proc[p].holds => Holding' = Holding \ {proc[p].order}
         /\ \A o \in ghosts' : Running(demo'[o])
  <1>0. PICK x : x = proc[p].order  OBVIOUS
  <1>1. /\ proc \in [Procs -> Goroutine] /\ x \in Orders
    BY <1>0 DEF Typed, ProcsOK, GoroutineOK, GiveBack, At
  <1>2. Only(p) /\ ~proc'[p].holds  BY <1>1, GiveMoves DEF Goes
  <1>3. /\ demo' = demo
        /\ ghosts' = IF ~proc[p].holds /\ Running(demo[x]) THEN ghosts \cup {x} ELSE ghosts
    BY <1>0 DEF GiveBack
  <1>4. CASE proc[p].holds  BY <1>0, <1>1, <1>2, <1>3, <1>4, HoldsSame
  <1>5. CASE ~proc[p].holds
    <2>1. ~Holds(x)' /\ \A y \in Orders \ {x} : Holds(y)' <=> Holds(y)  BY <1>3, <1>5 DEF Holds
    <2> QED  BY <1>0, <1>1, <1>2, <1>3, <1>5, <2>1 DEF Holding
  <1> QED  BY <1>4, <1>5

\* A handler that ends has given its slot back, unless the admin has deleted the demo.
LEMMA HoldsLeave ==
  ASSUME Typed, Hands, Alone, Given, \A o \in ghosts : Running(demo[o]), NEW p \in Procs, Leave(p)
  PROVE  /\ Holding' \subseteq Holding /\ (cleared' = {} => Holding' = Holding)
         /\ \A o \in Orders : Holds(o)' => Holds(o)
         /\ \A o \in ghosts' : Running(demo'[o])
  <1> DEFINE x == proc[p].order
  <1>1. /\ x \in Orders /\ proc[p].pc # "idle" /\ GoroutineOK(proc[p]) /\ RoleOK(p, proc[p])
        /\ proc[p].pc = "clear" => x \in cleared
        /\ cleared \subseteq cleared'
    <2>1. proc[p].pc = "clear" => p \in Admins
      BY DEF Typed, ProcsOK, RoleOK, OnTask, OnCheck, Starts, Submits, Procs
    <2>2. proc[p].pc = "clear" => x \in cleared  BY <2>1 DEF Alone, At
    <2>3. cleared \subseteq cleared'
      BY DEF Leave, PoolBusy, MarkLimited, MarkFailed, SaveFailed, Finish, Error, SaveReady, Crash,
             ClearSaved, DeleteFiles, history
    <2> QED  BY <2>2, <2>3, LeaveMoves DEF Typed, ProcsOK
  <1>2. CASE UNCHANGED <<demo, quiet, ghosts>>  BY <1>2, HoldsSame DEF Holding
  <1>3. ASSUME NEW d \in DemoRow, Saves(p, d)
        PROVE  /\ Holding' \subseteq Holding /\ (cleared' = {} => Holding' = Holding)
               /\ \A o \in Orders : Holds(o)' => Holds(o)
               /\ \A o \in ghosts' : Running(demo'[o])
    <2>1. UpdateDemo(x, d)  BY <1>3 DEF Saves
    <2>2. ~Running(d)
      <3>1. At(p, "limited") => ~Running(proc[p].copy)
        BY <1>1 DEF GoroutineOK, Starts, Settled, Running, At
      <3> QED  BY <1>3, <3>1 DEF Saves
    <2>3. /\ Holding' = Holding \ {x}
          /\ \A o \in Orders : Holds(o)' => Holds(o)
          /\ \A o \in ghosts' : Running(demo'[o])
      BY <1>1, <2>1, <2>2, HoldsSaved
    <2>4. x \notin cleared => ~Holds(x) \/ proc[p].pc = "clear"
      <3>1. proc[p].pc \in {"limited", "markFailed", "saveFailed", "saveReady", "clear"}
        BY <1>3 DEF Saves
      <3>2. proc[p].pc # "clear" => p \in Workers \cup Crons  BY <1>1, <3>1 DEF Procs, RoleOK
      <3>3. proc[p].pc = "limited" => p \in Workers /\ Starts(proc[p])
        BY <1>1 DEF Procs, RoleOK, Starts
      <3>4. proc[p].pc = "limited" /\ x \notin cleared => ~Holds(x)
        BY <1>1, <3>3 DEF Alone, AloneOn, WorkerOn, Holds, Settled, Running
      <3> QED  BY <1>1, <3>1, <3>2, <3>4 DEF Given
    <2> QED  BY <1>1, <2>3, <2>4 DEF Holding
  <1> QED  BY <1>2, <1>3, LeaveSaves

\* Where a demo is about to be ended, its slot given back.
Closing == {"markFailed", "saveFailed", "saveReady"}

\* Only the lock of the account and the release move a slot.
LEMMA JumpOthers ==
  ASSUME Typed, NEW p \in Procs, Jump(p), ~GiveBack(p)
  PROVE  /\ Only(p) /\ UNCHANGED <<demo, ghosts, leaked, stolen, cleared, song>>
         /\ proc'[p].pc \notin Closing
         /\ \/ LockAccount(p) /\ proc'[p].holds /\ ~proc[p].holds
            \/ slots' = slots /\ proc'[p].holds = proc[p].holds
  <1>1. /\ proc \in [Procs -> Goroutine] /\ GoroutineOK(proc[p]) /\ Only(p) /\ Still
    BY JumpMoves DEF Typed, ProcsOK
  <1>2. UNCHANGED <<ghosts, leaked, stolen>>
    BY DEF Jump, LockAccount, Limits, SaveStartFails, SubmitFails, FetchLater, FetchTerminal,
           UploadClips, UploadPreview, UploadFails, SaveReadyFails, history
  <1>3. CASE LockAccount(p)
    <2>1. proc'[p].pc = "limits" /\ proc'[p].holds
      BY <1>1, <1>3, HoldMoves DEF LockAccount, Goes
    <2>2. ~proc[p].holds  BY <1>1, <1>3 DEF LockAccount, At, GoroutineOK
    <2> QED  BY <1>1, <1>2, <1>3, <2>1, <2>2 DEF Closing, Still
  <1>4. CASE ~LockAccount(p)
    <2>1. /\ \/ \E c \in {"start", "clips", "preview", "error"} : Goto(p, c)
             \/ \E c \in {"limited", "finish", "error", "markFailed", "saveFailed", "saveReady"} :
                  Release(p, c)
          /\ slots' = slots
      BY <1>4 DEF Jump, Limits, SaveStartFails, SubmitFails, FetchLater, FetchTerminal,
                  UploadClips, UploadPreview, UploadFails, SaveReadyFails
    <2>2. /\ proc'[p].pc \in {"start", "clips", "preview", "error", "release"}
          /\ proc'[p].holds = proc[p].holds
      BY <1>1, <2>1, GotoMoves, ReleaseMoves DEF Goes, PCs
    <2> QED  BY <1>1, <1>2, <2>1, <2>2 DEF Closing, Still
  <1> QED  BY <1>3, <1>4

\* No goroutine is about to end a demo at the start.
LEMMA GivenInit == Init => Given
  <1> SUFFICES ASSUME Init PROVE Given  OBVIOUS
  <1>1. \A p \in Procs : proc[p].pc = "idle"  BY IdleIs DEF Init
  <1> QED  BY <1>1 DEF Given, Procs

\* A demo about to be ended has given its slot back.
LEMMA GivenStep ==
  ASSUME Typed, Hands, Alone, Given, Books, [Next]_vars
  PROVE  Given'
  <1> SUFFICES ASSUME NEW o \in Orders \ cleared', NEW p \in Workers \cup Crons,
                      proc'[p].order = o, proc'[p].pc \in Closing, Holds(o)'
               PROVE  FALSE
    BY DEF Given, Closing
  <1>1. o \notin cleared /\ AloneOn(o) /\ p \in Procs /\ \A x \in ghosts : Running(demo[x])
    BY ClearedStep DEF Alone, Procs, Books
  <1>2. ASSUME proc'[p] = proc[p]  PROVE ~Holds(o)
    BY <1>1, <1>2 DEF Given, Closing
  <1>3. ASSUME NEW q \in Procs, Only(q), q # p  PROVE ~Holds(o)
    BY <1>1, <1>2, <1>3 DEF Only
  <1>4. ASSUME proc' = proc \/ \E q \in Procs : Only(q) /\ proc'[q].pc \notin Closing
        PROVE  ~Holds(o)
    BY <1>2, <1>3, <1>4
  <1>5. Holding' \subseteq Holding => Holds(o)  BY DEF Holding
  <1>6. CASE UNCHANGED vars
    BY <1>4, <1>5, <1>6, HoldsSame DEF vars, history
  <1>7. ASSUME NEW x \in Orders, TriggerDemo(x) \/ PayDemo(x)  PROVE FALSE
    BY <1>1, <1>4, <1>5, <1>7, ClientIs, HoldsClient
  <1>8. ASSUME NEW x \in Orders, SongSteps(x) \/ GoQuiet(x)  PROVE FALSE
    BY <1>4, <1>5, <1>8, SongIs, GoQuietIs, HoldsSame
  <1>9. ASSUME NEW q \in Procs, NEW x \in Orders,
               TakeDemo(q, x) \/ StartRecover(q, x) \/ StartDelete(q, x)
        PROVE  FALSE
    <2>1. Holding' = Holding  BY <1>9, TakeDemoIs, RecoverIs, DeleteIs, HoldsSame
    <2>2. proc' = proc \/ (Only(q) /\ proc'[q].pc \in {"lock", "release", "delete"})
      BY <1>9, TakeDemoIs, RecoverIs, DeleteIs DEF Begins
    <2> QED  BY <1>4, <1>5, <2>1, <2>2 DEF Closing
  <1>10. ASSUME NEW q \in Procs, NEW t \in checks, TakeCheck(q, t)  PROVE FALSE
    <2>1. Holding' = Holding  BY <1>10, TakeCheckIs, HoldsSame
    <2>2. proc' = proc \/ (Only(q) /\ proc'[q].pc = "fetch")  BY <1>10, TakeCheckIs DEF Begins
    <2> QED  BY <1>4, <1>5, <2>1, <2>2 DEF Closing
  <1>11. ASSUME NEW q \in Procs, DeleteFiles(q) /\ Goto(q, "clear")  PROVE FALSE
    <2>1. Holding' = Holding  BY <1>11, FilesGone, HoldsSame
    <2>2. Only(q) /\ proc'[q].pc = "clear"  BY <1>11, FilesGone DEF Goes
    <2> QED  BY <1>4, <1>5, <2>1, <2>2 DEF Closing
  <1>12. ASSUME NEW q \in Procs, Leave(q)  PROVE FALSE
    <2>1. Only(q) /\ proc'[q].pc = "idle"  BY <1>12, LeaveMoves, IdleIs
    <2>2. Holds(o)  BY <1>1, <1>12, HoldsLeave
    <2> QED  BY <1>4, <2>1, <2>2 DEF Closing
  <1>13. ASSUME NEW q \in Procs, Jump(q), ~GiveBack(q)  PROVE FALSE
    BY <1>4, <1>5, <1>13, JumpOthers, HoldsSame
  <1>14. ASSUME NEW q \in Procs, GiveBack(q)  PROVE FALSE
    <2>1. Only(q) /\ Holding' \subseteq Holding  BY <1>1, <1>14, HoldsGive
    <2>2. CASE q # p  BY <1>3, <1>5, <2>1, <2>2
    <2>3. CASE q = p
      <3>1. /\ proc \in [Procs -> Goroutine] /\ GoroutineOK(proc[p]) /\ At(p, "release")
        BY <1>14, <2>3 DEF GiveBack, Typed, ProcsOK
      <3>2. proc'[p].order = proc[p].order /\ proc'[p].pc = proc[p].then
        BY <1>14, <2>3, <3>1, GiveMoves DEF Goes
      <3>3. ~proc[p].holds  BY <3>1, <3>2 DEF GoroutineOK, At, Closing
      <3>4. Holding' = Holding \ {o}  BY <1>1, <1>14, <2>3, <3>2, <3>3, HoldsGive
      <3> QED  BY <3>4 DEF Holding
    <2> QED  BY <2>2, <2>3
  <1>15. ASSUME NEW q \in Procs, SaveStart(q)  PROVE FALSE
    <2>1. Only(q) /\ proc'[q].pc \in {"submit", "enqueue", "finish"} /\ q \in Workers
      BY <1>15, StartTyped
    <2>2. q # p  BY <2>1 DEF Closing
    <2>3. Starts(proc[q])  BY <1>15 DEF SaveStart, At, Starts
    <2>4. ~Holds(o) /\ proc[p].order = o  BY <1>1, <1>3, <2>1, <2>2 DEF Only
    <2>5. proc[q].order # o
      <3>1. CASE p \in Workers  BY <1>1, <2>1, <2>2, <2>3, <2>4, <3>1, SoleWorker
      <3>2. CASE p \in Crons  BY <1>1, <2>1, <2>4, <3>2 DEF AloneOn, Unattended
      <3> QED  BY <3>1, <3>2
    <2>6. Holding' \subseteq Holding \cup {proc[q].order}  BY <1>1, <1>15, HoldsStart
    <2> QED  BY <2>4, <2>5, <2>6 DEF Holding
  <1>16. ASSUME NEW q \in Procs, Submit(q) \/ EnqueueCheck(q)  PROVE FALSE
    <2>1. Only(q) /\ proc'[q].pc \in {"submit", "enqueue", "finish"}  BY <1>16, StartTyped
    <2>2. Holding' = Holding
      <3>1. UNCHANGED <<demo, ghosts>>  BY <1>16 DEF Submit, EnqueueCheck, history
      <3> QED  BY <3>1, HoldsSame
    <2> QED  BY <1>4, <1>5, <2>1, <2>2 DEF Closing
  <1> QED
    BY <1>6, <1>7, <1>8, <1>9, <1>10, <1>11, <1>12, <1>13, <1>14, <1>15, <1>16, StepIs

\* Slots change hands one at a time.
LEMMA HandMoves ==
  ASSUME NEW p \in Procs, Only(p)
  PROVE  /\ proc'[p].holds = proc[p].holds => InHand' = InHand
         /\ ~proc'[p].holds => InHand' = InHand \ {p}
         /\ proc'[p].holds => InHand' = InHand \cup {p}
  BY DEF Only, InHand

\* What moves no slot keeps the books.
LEMMA BooksKept ==
  ASSUME Books, \A o \in ghosts' : Running(demo'[o]),
         Singing' = Singing, Holding' = Holding, InHand' = InHand,
         UNCHANGED <<slots, leaked, stolen>>, cleared \subseteq cleared'
  PROVE  Books'
  BY DEF Books, Used

\* The songs in work are told from the songs.
LEMMA SingingSame ==
  ASSUME song' = song
  PROVE  Singing' = Singing
  BY DEF Singing

\* The song takes a slot when it is submitted, and gives it back as it ends.
LEMMA BooksSong ==
  ASSUME Typed, Books, NEW o \in Orders, SongSteps(o)
  PROVE  Books'
  <1>1. /\ Holding' = Holding /\ InHand' = InHand /\ UNCHANGED <<leaked, stolen, cleared>>
        /\ \A x \in ghosts' : Running(demo'[x])
        /\ \A x \in Orders \ {o} : song'[x] = song[x]
    <2>1. UNCHANGED <<demo, ghosts, proc>>  BY SongIs
    <2> QED  BY <2>1, SongIs, HoldsSame DEF InHand, Books
  <1>2. song \in [Orders -> SongRow] /\ slots \in Nat  BY DEF Typed, SongsOK
  <1>3. CASE SubmitSong(o)
    <2>1. /\ slots < MaxSlots /\ slots' = slots + 1 /\ song[o].state = "paid"
          /\ song'[o].state = "submitted"
      BY <1>2, <1>3 DEF SubmitSong, SongRow
    <2>2. Singing' = Singing \cup {o} /\ o \notin Singing  BY <1>1, <2>1 DEF Singing
    <2>3. IsFiniteSet(Singing') /\ Cardinality(Singing') = Cardinality(Singing) + 1
      BY <2>2, FS_AddElement DEF Books
    <2>4. Used' = Used + 1 /\ Used' \in Nat  BY <1>1, <2>3, UsedIs DEF Used
    <2>5. slots' <= MaxSlots  BY <1>2, <2>1, DemoNumbers
    <2>6. leaked \in Nat  BY DEF Typed, StoreOK
    <2>7. ~stolen' => slots' >= Used' /\ (cleared' = {} => slots' = Used' + leaked')
      BY <1>1, <1>2, <2>1, <2>4, <2>6, UsedIs DEF Books
    <2> QED  BY <1>1, <2>3, <2>5, <2>7 DEF Books
  <1>4. CASE CompleteSong(o) \/ FailSong(o)
    <2>1. /\ slots' = Less(slots, 1) /\ song[o].state = "uploading"
          /\ song'[o].state \in {"completed", "failed"}
      BY <1>2, <1>4 DEF CompleteSong, FailSong, SongRow
    <2>2. Singing' = Singing \ {o} /\ o \in Singing  BY <1>1, <2>1 DEF Singing
    <2>3. /\ IsFiniteSet(Singing') /\ Cardinality(Singing') = Cardinality(Singing) - 1
          /\ Cardinality(Singing') \in Nat
      BY <2>2, FS_RemoveElement, FS_CardinalityType DEF Books
    <2>4. slots' <= MaxSlots  BY <1>2, <2>1, DemoNumbers DEF Books, Less
    <2>5. ~stolen => slots' = slots - 1
      BY <1>2, <2>1, <2>3, UsedIs DEF Books, Used, Less
    <2> QED  BY <1>1, <1>2, <2>3, <2>4, <2>5, UsedIs DEF Books, Used, Typed, StoreOK
  <1>5. CASE PaySong(o) \/ PollSong(o)
    <2>1. /\ slots' = slots
          /\ song[o].state \in {"submitted", "uploading"}
               <=> song'[o].state \in {"submitted", "uploading"}
      BY <1>2, <1>5 DEF PaySong, PollSong, MarkPaid, SongRow
    <2>2. Singing' = Singing  BY <1>1, <2>1 DEF Singing
    <2> QED  BY <1>1, <2>1, <2>2, BooksKept
  <1> QED  BY <1>3, <1>4, <1>5 DEF SongSteps, Song

\* A worker takes a slot with the account.
LEMMA BooksLock ==
  ASSUME Typed, Books, NEW p \in Procs, LockAccount(p)
  PROVE  Books'
  <1>1. /\ Only(p) /\ UNCHANGED <<demo, ghosts, leaked, stolen, cleared, song>>
        /\ proc'[p].holds /\ ~proc[p].holds
    <2>1. Jump(p) /\ At(p, "lock")  BY DEF Jump, LockAccount
    <2>2. ~GiveBack(p)  BY <2>1 DEF GiveBack, At
    <2>3. slots' # slots  BY DEF LockAccount, Typed, SongsOK
    <2> QED  BY <2>1, <2>2, <2>3, JumpOthers
  <1>2. slots < MaxSlots /\ slots' = slots + 1 /\ slots \in Nat  BY DEF LockAccount, Typed, SongsOK
  <1>3. InHand' = InHand \cup {p} /\ p \notin InHand  BY <1>1, HandMoves DEF InHand
  <1>4. IsFiniteSet(InHand') /\ Cardinality(InHand') = Cardinality(InHand) + 1
    BY <1>3, FS_AddElement DEF Books
  <1>5. Singing' = Singing /\ Holding' = Holding  BY <1>1, HoldsSame, SingingSame
  <1>6. \A x \in ghosts' : Running(demo'[x])  BY <1>1 DEF Books
  <1>7. slots' <= MaxSlots  BY <1>2, DemoNumbers
  <1> QED  BY <1>1, <1>2, <1>4, <1>5, <1>6, <1>7, UsedIs DEF Books, Used, Typed, StoreOK

\* A slot given back was owed, or the books are not to be trusted; one that the database
\* does not give back is counted as a leak.
LEMMA BooksGive ==
  ASSUME Typed, Books, NEW p \in Procs, GiveBack(p)
  PROVE  Books'
  <1> DEFINE owed == proc[p].holds \/ Holds(proc[p].order)
  <1>1. /\ Only(p) /\ ~proc'[p].holds /\ proc[p].order \in Orders
        /\ proc[p].holds => Holding' = Holding
        /\ ~proc[p].holds => Holding' = Holding \ {proc[p].order}
        /\ \A x \in ghosts' : Running(demo'[x])
    BY HoldsGive DEF Books
  <1>2. /\ song' = song /\ cleared' = cleared
        /\ \/ /\ slots' = Less(slots, 1) /\ stolen' = (stolen \/ (~owed /\ slots > 0))
              /\ leaked' = leaked
           \/ /\ leaked' = (IF owed THEN Leak(leaked) ELSE leaked)
              /\ slots' = slots /\ stolen' = stolen
    BY DEF GiveBack, Spared
  <1>3. Singing' = Singing  BY <1>2, SingingSame
  <1>4. InHand' = InHand \ {p}  BY <1>1, HandMoves
  <1>5. slots \in Nat /\ leaked \in Nat /\ stolen \in BOOLEAN  BY DEF Typed, SongsOK, StoreOK
  <1>6. IsFiniteSet(InHand') /\ IsFiniteSet(Holding')
    <2>1. IsFiniteSet(InHand) /\ IsFiniteSet(Holding)  BY DEF Books
    <2>2. IsFiniteSet(InHand')  BY <1>4, <2>1, FS_RemoveElement
    <2>3. CASE proc[p].holds  BY <1>1, <2>1, <2>2, <2>3
    <2>4. CASE ~proc[p].holds
      <3>1. IsFiniteSet(Holding \ {proc[p].order})  BY <2>1, FS_RemoveElement
      <3>2. Holding' = Holding \ {proc[p].order}  BY <1>1, <2>4
      <3> QED  BY <2>2, <3>1, <3>2
    <2> QED  BY <2>3, <2>4
  <1>7. /\ owed => Used' = Used - 1
        /\ ~owed => Used' = Used
        /\ Used' \in Nat
    <2>1. CASE proc[p].holds
      <3>1. p \in InHand  BY <2>1 DEF InHand
      <3>2. Cardinality(InHand') = Cardinality(InHand) - 1
        BY <1>4, <3>1, FS_RemoveElement DEF Books
      <3>3. Cardinality(InHand') \in Nat  BY <1>6, FS_CardinalityType
      <3> QED  BY <1>1, <1>3, <2>1, <3>2, <3>3, UsedIs DEF Used
    <2>2. CASE ~proc[p].holds /\ Holds(proc[p].order)
      <3>1. proc[p].order \in Holding  BY <1>1, <2>2 DEF Holding
      <3>2. Cardinality(Holding') = Cardinality(Holding) - 1
        BY <1>1, <2>2, <3>1, FS_RemoveElement DEF Books
      <3>3. InHand' = InHand  BY <1>4, <2>2 DEF InHand
      <3>4. Cardinality(Holding') \in Nat  BY <1>6, FS_CardinalityType
      <3> QED  BY <1>3, <2>2, <3>2, <3>3, <3>4, UsedIs DEF Used
    <2>3. CASE ~proc[p].holds /\ ~Holds(proc[p].order)
      <3>1. Holding' = Holding /\ InHand' = InHand  BY <1>1, <1>4, <2>3 DEF Holding, InHand
      <3> QED  BY <1>3, <2>3, <3>1, UsedIs DEF Used
    <2> QED  BY <2>1, <2>2, <2>3
  <1> HIDE DEF owed
  <1>8. slots' <= MaxSlots  BY <1>2, <1>5, DemoNumbers DEF Books, Less
  <1>9. ~stolen' => slots' >= Used' /\ (cleared' = {} => slots' = Used' + leaked')
    <2> SUFFICES ASSUME ~stolen'
                 PROVE  slots' >= Used' /\ (cleared' = {} => slots' = Used' + leaked')
      OBVIOUS
    <2>1. ~stolen  BY <1>2
    <2>2. slots >= Used /\ (cleared = {} => slots = Used + leaked)  BY <2>1 DEF Books
    <2>3. CASE /\ slots' = Less(slots, 1) /\ leaked' = leaked
               /\ stolen' = (stolen \/ (~owed /\ slots > 0))
      <3>1. CASE owed  BY <1>2, <1>5, <1>7, <2>2, <2>3, <3>1, UsedIs DEF Less
      <3>2. CASE ~owed
        <4>1. ~(slots > 0)  BY <2>3, <3>2, ZenonT(20)
        <4>2. slots = 0 /\ slots' = 0  BY <1>5, <2>3, <4>1 DEF Less
        <4> QED  BY <1>2, <1>5, <1>7, <2>2, <2>3, <3>2, <4>2, UsedIs
      <3> QED  BY <3>1, <3>2
    <2>4. CASE leaked' = (IF owed THEN Leak(leaked) ELSE leaked) /\ slots' = slots
      <3>1. CASE owed
        <4>1. cleared = {} => leaked' = leaked + 1
          <5>1. cleared = {} => leaked <= MaxSlots  BY <1>5, <2>2, UsedIs, DemoNumbers DEF Books
          <5> QED  BY <2>4, <3>1, <5>1 DEF Leak
        <4> QED  BY <1>2, <1>5, <1>7, <2>2, <2>4, <3>1, <4>1, UsedIs
      <3>2. CASE ~owed  BY <1>2, <1>5, <1>7, <2>2, <2>4, <3>2, UsedIs
      <3> QED  BY <3>1, <3>2
    <2> QED  BY <1>2, <2>3, <2>4
  <1>10. IsFiniteSet(Singing')  BY <1>3 DEF Books
  <1> QED  BY <1>1, <1>6, <1>8, <1>9, <1>10 DEF Books

\* The slot of a worker passes to its order.
LEMMA BooksStart ==
  ASSUME Typed, Alone, Books, NEW p \in Procs, SaveStart(p)
  PROVE  Books'
  <1> DEFINE x == proc[p].order
  <1>1. /\ Holding' \subseteq Holding \cup {x}
        /\ x \notin cleared => x \notin Holding /\ Holding' = Holding \cup {x}
        /\ \A o \in ghosts' : Running(demo'[o])
    BY HoldsStart DEF Books
  <1>2. /\ Only(p) /\ UNCHANGED <<song, slots, leaked, stolen, cleared>> /\ GoroutineOK(proc[p])
        /\ proc \in [Procs -> Goroutine]
    BY StartTyped DEF Typed, ProcsOK
  <1>3. proc[p].holds /\ ~proc'[p].holds
    <2>1. proc[p].holds  BY <1>2 DEF GoroutineOK, SaveStart, At
    <2>2. Goes(p, "submit", proc[p].job, FALSE, proc[p].then)  BY <1>2, SaveStartMoves
    <2> QED  BY <2>1, <2>2 DEF Goes
  <1>4. InHand' = InHand \ {p} /\ p \in InHand  BY <1>2, <1>3, HandMoves DEF InHand
  <1>5. /\ IsFiniteSet(InHand') /\ Cardinality(InHand') = Cardinality(InHand) - 1
        /\ Cardinality(InHand') \in Nat
    BY <1>4, FS_RemoveElement, FS_CardinalityType DEF Books
  <1>6. /\ IsFiniteSet(Holding \cup {x})
        /\ Cardinality(Holding \cup {x}) <= Cardinality(Holding) + 1
        /\ x \notin Holding => Cardinality(Holding \cup {x}) = Cardinality(Holding) + 1
        /\ Cardinality(Holding \cup {x}) \in Nat
    <2>1. IsFiniteSet(Holding)  BY DEF Books
    <2>2. /\ IsFiniteSet(Holding \cup {x})
          /\ Cardinality(Holding \cup {x}) = IF x \in Holding THEN Cardinality(Holding)
                                             ELSE Cardinality(Holding) + 1
      BY <2>1, FS_AddElement
    <2> QED  BY <2>2, UsedIs
  <1>7. /\ IsFiniteSet(Holding') /\ Cardinality(Holding') <= Cardinality(Holding \cup {x})
        /\ Cardinality(Holding') \in Nat
    BY <1>1, <1>6, FS_Subset, FS_CardinalityType
  <1>8. Cardinality(Holding') <= Cardinality(Holding) + 1  BY <1>6, <1>7, UsedIs
  <1>9. cleared = {} => Cardinality(Holding') = Cardinality(Holding) + 1  BY <1>1, <1>6
  <1>10. Singing' = Singing  BY <1>2, SingingSame
  <1>11. slots \in Nat /\ leaked \in Nat  BY DEF Typed, SongsOK, StoreOK
  <1>12. Used' <= Used /\ Used' \in Nat /\ (cleared = {} => Used' = Used)
    BY <1>5, <1>7, <1>8, <1>9, <1>10, UsedIs DEF Used
  <1>13. IsFiniteSet(Singing') /\ slots' <= MaxSlots  BY <1>2, <1>10 DEF Books
  <1>14. ~stolen' => slots' >= Used' /\ (cleared' = {} => slots' = Used' + leaked')
    <2>1. ~stolen => slots >= Used /\ (cleared = {} => slots = Used + leaked)  BY DEF Books
    <2>2. slots' = slots /\ leaked' = leaked /\ stolen' = stolen /\ cleared' = cleared  BY <1>2
    <2> SUFFICES ASSUME ~stolen PROVE slots >= Used' /\ (cleared = {} => slots = Used' + leaked)
      BY <2>2
    <2>3. slots >= Used'  BY <1>11, <1>12, <2>1, UsedIs
    <2>4. cleared = {} => slots = Used' + leaked  BY <1>11, <1>12, <2>1, UsedIs
    <2> QED  BY <2>3, <2>4
  <1> QED  BY <1>1, <1>5, <1>7, <1>13, <1>14 DEF Books

\* A handler that ends has no slot in its hands, unless the pod dies: that one leaks.
LEMMA BooksLeave ==
  ASSUME Typed, Hands, Alone, Given, Books, NEW p \in Procs, Leave(p)
  PROVE  Books'
  <1>1. /\ Holding' \subseteq Holding /\ (cleared' = {} => Holding' = Holding)
        /\ \A o \in ghosts' : Running(demo'[o])
    BY HoldsLeave DEF Books
  <1>2. /\ Only(p) /\ proc'[p] = Idle /\ UNCHANGED <<song, slots>> /\ GoroutineOK(proc[p])
        /\ ~proc'[p].holds
    BY LeaveMoves, IdleIs DEF Typed, ProcsOK
  <1>3. InHand' = InHand \ {p}  BY <1>2, HandMoves
  <1>4. /\ stolen' = stolen /\ cleared \subseteq cleared'
        /\ leaked' = IF proc[p].holds THEN Leak(leaked) ELSE leaked
    <2>1. CASE Crash(p)  BY <2>1 DEF Crash
    <2>2. CASE ~Crash(p)
      <3>1. ~proc[p].holds
        BY <1>2, <2>2 DEF Leave, PoolBusy, MarkLimited, MarkFailed, SaveFailed, Finish, Error,
                          SaveReady, ClearSaved, DeleteFiles, GoroutineOK, At
      <3>2. stolen' = stolen /\ cleared \subseteq cleared' /\ leaked' = leaked
        BY <2>2 DEF Leave, PoolBusy, MarkLimited, MarkFailed, SaveFailed, Finish, Error, SaveReady,
                    ClearSaved, DeleteFiles, history
      <3> QED  BY <3>1, <3>2
    <2> QED  BY <2>1, <2>2
  <1>5. slots \in Nat /\ leaked \in Nat  BY DEF Typed, SongsOK, StoreOK
  <1>6. /\ IsFiniteSet(Holding') /\ Cardinality(Holding') <= Cardinality(Holding)
        /\ Cardinality(Holding') \in Nat
    BY <1>1, FS_Subset, FS_CardinalityType DEF Books
  <1>7. /\ IsFiniteSet(InHand') /\ Cardinality(InHand') \in Nat
        /\ proc[p].holds => Cardinality(InHand') = Cardinality(InHand) - 1
        /\ ~proc[p].holds => Cardinality(InHand') = Cardinality(InHand)
    <2>1. IsFiniteSet(InHand)  BY DEF Books
    <2>2. /\ IsFiniteSet(InHand')
          /\ Cardinality(InHand') = IF p \in InHand THEN Cardinality(InHand) - 1
                                    ELSE Cardinality(InHand)
      BY <1>3, <2>1, FS_RemoveElement
    <2> QED  BY <2>2, FS_CardinalityType DEF InHand
  <1>8. Singing' = Singing  BY <1>2, SingingSame
  <1>9. /\ Used' \in Nat /\ Used' <= Used
        /\ cleared' = {} => Used' = IF proc[p].holds THEN Used - 1 ELSE Used
    BY <1>1, <1>6, <1>7, <1>8, UsedIs DEF Used
  <1>10. ~stolen' => slots' >= Used' /\ (cleared' = {} => slots' = Used' + leaked')
    <2> SUFFICES ASSUME ~stolen PROVE slots >= Used' /\ (cleared' = {} => slots = Used' + leaked')
      BY <1>2, <1>4
    <2>1. slots >= Used /\ (cleared = {} => slots = Used + leaked)  BY DEF Books
    <2>2. slots >= Used'  BY <1>5, <1>9, <2>1, UsedIs
    <2>3. ASSUME cleared' = {}  PROVE slots = Used' + leaked'
      <3>1. slots = Used + leaked  BY <1>4, <2>1, <2>3
      <3>2. leaked <= MaxSlots  BY <1>5, <3>1, UsedIs, DemoNumbers DEF Books
      <3>3. leaked' = IF proc[p].holds THEN leaked + 1 ELSE leaked  BY <1>4, <3>2 DEF Leak
      <3> QED  BY <1>5, <1>9, <2>3, <3>1, <3>3, UsedIs
    <2> QED  BY <2>2, <2>3
  <1>11. IsFiniteSet(Singing') /\ slots' <= MaxSlots  BY <1>2, <1>8 DEF Books
  <1> QED  BY <1>1, <1>6, <1>7, <1>10, <1>11 DEF Books

\* The books are balanced at the start.
LEMMA BooksInit == Init => Books
  <1> SUFFICES ASSUME Init PROVE Books  OBVIOUS
  <1>1. Singing = {} /\ Holding = {} /\ InHand = {}
    BY IdleIs DEF Init, Singing, Holding, InHand, Holds, Running, NoDemo, NewSong
  <1>2. Used = 0  BY <1>1, FS_EmptySet DEF Used
  <1>3. slots = 0 /\ leaked = 0 /\ ghosts = {}  BY DEF Init
  <1> QED  BY <1>1, <1>2, <1>3, FS_EmptySet, DemoNumbers DEF Books

\* Every step balances the books.
LEMMA BooksStep ==
  ASSUME Typed, Hands, Alone, Given, Books, [Next]_vars
  PROVE  Books'
  <1>1. cleared \subseteq cleared' /\ \A o \in ghosts : Running(demo[o])
    BY ClearedStep DEF Books
  <1>2. ASSUME UNCHANGED <<demo, ghosts, song, slots, leaked, stolen>>, InHand' = InHand
        PROVE  Books'
    BY <1>1, <1>2, BooksKept, HoldsSame, SingingSame
  <1>3. CASE UNCHANGED vars  BY <1>2, <1>3 DEF vars, history, InHand
  <1>4. ASSUME NEW x \in Orders, TriggerDemo(x) \/ PayDemo(x)  PROVE Books'
    <2>1. InHand' = InHand /\ UNCHANGED <<song, slots, leaked, stolen>>
      BY <1>4, ClientIs DEF InHand
    <2> QED  BY <1>1, <1>4, <2>1, HoldsClient, SingingSame, BooksKept
  <1>5. ASSUME NEW x \in Orders, GoQuiet(x)  PROVE Books'
    BY <1>2, <1>5, GoQuietIs DEF InHand
  <1>6. ASSUME NEW p \in Procs, Only(p), proc'[p].holds = proc[p].holds
        PROVE  InHand' = InHand
    BY <1>6, HandMoves
  <1>7. \A p \in Procs : proc[p].pc = "idle" => ~proc[p].holds
    BY DEF Typed, ProcsOK, GoroutineOK
  <1>8. ASSUME NEW p \in Procs, Only(p), proc[p].pc = "idle", ~proc'[p].holds
        PROVE  InHand' = InHand
    BY <1>7, <1>8 DEF InHand, Only
  <1>9. ASSUME NEW p \in Procs, NEW x \in Orders,
               TakeDemo(p, x) \/ StartRecover(p, x) \/ StartDelete(p, x)
        PROVE  Books'
    <2>1. InHand' = InHand
      <3>1. \/ proc' = proc
            \/ Only(p) /\ proc[p].pc = "idle" /\ ~proc'[p].holds
        BY <1>9, TakeDemoIs, RecoverIs, DeleteIs DEF Begins
      <3> QED  BY <1>8, <3>1 DEF InHand
    <2> QED  BY <1>2, <1>9, <2>1, TakeDemoIs, RecoverIs, DeleteIs
  <1>10. ASSUME NEW p \in Procs, NEW t \in checks, TakeCheck(p, t)  PROVE Books'
    <2>1. InHand' = InHand
      <3>1. \/ proc' = proc
            \/ Only(p) /\ proc[p].pc = "idle" /\ ~proc'[p].holds
        BY <1>10, TakeCheckIs DEF Begins
      <3> QED  BY <1>8, <3>1 DEF InHand
    <2> QED  BY <1>2, <1>10, <2>1, TakeCheckIs
  <1>11. ASSUME NEW p \in Procs, DeleteFiles(p) /\ Goto(p, "clear")  PROVE Books'
    <2>1. InHand' = InHand  BY <1>6, <1>11, FilesGone DEF Goes
    <2> QED  BY <1>2, <1>11, <2>1, FilesGone
  <1>12. ASSUME NEW p \in Procs, Jump(p)  PROVE Books'
    <2>1. CASE LockAccount(p) \/ GiveBack(p)  BY <2>1, BooksLock, BooksGive
    <2>2. CASE ~LockAccount(p) /\ ~GiveBack(p)
      <3>1. /\ Only(p) /\ UNCHANGED <<demo, ghosts, leaked, stolen, song, slots>>
            /\ proc'[p].holds = proc[p].holds
        BY <1>12, <2>2, JumpOthers
      <3> QED  BY <1>2, <1>6, <3>1
    <2> QED  BY <2>1, <2>2
  <1>13. ASSUME NEW p \in Procs, Submit(p) \/ EnqueueCheck(p)  PROVE Books'
    <2>1. UNCHANGED <<demo, ghosts, song, slots, leaked, stolen>> /\ Only(p)
      BY <1>13, StartTyped DEF Submit, EnqueueCheck, history
    <2>2. proc'[p].holds = proc[p].holds
      <3>1. proc \in [Procs -> Goroutine] /\ proc[p].order \in Orders
        BY <1>13, StartTyped DEF Typed, ProcsOK
      <3>2. submitted[proc[p].order] + 1 \in Nat  BY <3>1 DEF Typed, QueueOK
      <3>3. \/ Become(p, [proc[p] EXCEPT !.pc = "enqueue", !.job = submitted[proc[p].order] + 1])
            \/ Become(p, [proc[p] EXCEPT !.pc = "finish", !.job = 0])
        BY <1>13 DEF Submit, EnqueueCheck
      <3> QED  BY <3>1, <3>2, <3>3, JobMoves DEF Goes, PCs
    <2> QED  BY <1>2, <1>6, <2>1, <2>2
  <1> QED
    BY <1>3, <1>4, <1>5, <1>9, <1>10, <1>11, <1>12, <1>13, StepIs, BooksSong, BooksStart, BooksLeave

\* The slots of the account are those of the songs and demos in work, of a worker about
\* to store one, and of those a crash or a failed write forgets, until SaveReadyFails and
\* a second releaseDemoSlot give back somebody else's: a slot is never free twice, and
\* none is lost in silence while the admin deletes no demo in work.
THEOREM SlotsAccounted ==
  ASSUME SoleTicker, PollsInTime
  PROVE  Spec => []SlotsAccountedFor
  <1>1. Books => SlotsAccountedFor  BY DEF Books, Used, Holding, InHand, SlotsAccountedFor
  <1>2. /\ Init => Typed /\ Hands /\ Alone /\ Given /\ Books
        /\ Typed /\ Hands /\ Alone /\ Given /\ Books /\ [Next]_vars =>
             (Typed /\ Hands /\ Alone /\ Given /\ Books)'
    BY TypesInit, HandsInit, AloneInit, GivenInit, BooksInit, TypesStep, HandsStep, AloneStep,
       GivenStep, BooksStep
  <1> QED  BY <1>1, <1>2, PTL DEF Spec
=============================================================================
