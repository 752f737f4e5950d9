--------------------------- MODULE RequestsProofs ---------------------------
(* Requests and limits for any clients, keys, workers and limits.          *)
EXTENDS Requests, TLAPS, FiniteSetTheorems

\* A request before the line where it triggers its demo.
Early == {"get", "reserve", "create", "activate", "allow", "enqueue", "limited"}

\* A worker in work has the task of an order to itself, and a request that has not
\* triggered its demo has neither task nor demo.
TasksInHand ==
  /\ \A w \in Workers : ~Doing(w, "idle") =>
       work[w].order \in Attempts /\ task[work[w].order] = "active"
  /\ \A w, v \in Workers :
       ~Doing(w, "idle") /\ ~Doing(v, "idle") /\ work[w].order = work[v].order => w = v
  /\ \A r \in Attempts : req[r].pc \in Early => task[r] = "none" /\ demo[r] = "none"

\* Whoever is about to take a demo off the counter has counted it.
CountCovers == IsFiniteSet(Reserving) /\ Cardinality(Reserving) <= count

-----------------------------------------------------------------------------
(* Finite sets that change by one member.                                  *)

\* A part of a finite set is no larger.
LEMMA PartOfSet ==
  ASSUME NEW S, IsFiniteSet(S), NEW T, T \subseteq S
  PROVE  /\ IsFiniteSet(T) /\ Cardinality(T) \in Nat /\ Cardinality(S) \in Nat
         /\ Cardinality(T) <= Cardinality(S)
  BY FS_Subset, FS_CardinalityType

\* A set with a new member is larger by one.
LEMMA SetWith ==
  ASSUME NEW S, IsFiniteSet(S), NEW x, x \notin S
  PROVE  /\ IsFiniteSet(S \cup {x}) /\ Cardinality(S) \in Nat
         /\ Cardinality(S \cup {x}) = Cardinality(S) + 1
  BY FS_AddElement, FS_CardinalityType

\* A set without one of its members is smaller by one.
LEMMA SetWithout ==
  ASSUME NEW S, IsFiniteSet(S), NEW x \in S
  PROVE  /\ IsFiniteSet(S \ {x}) /\ Cardinality(S) \in Nat
         /\ Cardinality(S \ {x}) = Cardinality(S) - 1
  BY FS_RemoveElement, FS_CardinalityType

-----------------------------------------------------------------------------
(* Types.                                                                  *)

\* A failed call changes what it says.
LEMMA CallFailsType ==
  ASSUME TypeOK, NEW r \in Attempts, NEW c \in {"hangup", "redis", "database", "crash"},
         CallFails(r, c)
  PROVE  /\ faults' \in 0 .. MaxFaults
         /\ excuse' \in [Keys -> SUBSET {"hangup", "redis", "database", "crash"}]
  BY RequestsNumbers DEF CallFails, Excuse, TypeOK

\* The types that the variables of the requests have by TypeOK.
RequestType == [
  pc : Early \cup {"complete", "delete", "over"}, alive : BOOLEAN, reserved : BOOLEAN,
  order : Order, answer : {"none", "created", "replayed", "conflict", "refused", "failed"}]
EntryType == [state : {"free", "running", "done"}, order : Order]

\* A request changes no worker, and gives its order a task or a demo it had not.
RequestEffect(r) ==
  /\ req' \in [Attempts -> RequestType]
  /\ \A q \in Attempts \ {r} : req'[q] = req[q]
  /\ entry' \in [Keys -> EntryType]
  /\ order' \in [Attempts -> {"none", "unpaid", "free"}]
  /\ excuse' \in [Keys -> SUBSET {"hangup", "redis", "database", "crash"}]
  /\ faults' \in 0 .. MaxFaults /\ ipCount' \in Nat
  /\ UNCHANGED <<key, email, before, owner, count, work, granted, slips>>
  /\ req'[r].pc \in Early => req[r].pc \in Early /\ task' = task /\ demo' = demo
  /\ \/ task' = task
     \/ req[r].pc \in Early /\ task' = [task EXCEPT ![r] = "pending"]
  /\ demo' = demo \/ demo' = [demo EXCEPT ![r] = "limited"]

\* An answer ends the handler and no other request.
LEMMA AnswerType ==
  ASSUME TypeOK, NEW r \in Attempts, NEW p \in {"over", "complete", "delete"},
         NEW a \in {"none", "created", "refused", "failed"}, NEW o \in Order,
         req' = [req EXCEPT ![r].pc = p, ![r].answer = a, ![r].order = o]
  PROVE  /\ req' \in [Attempts -> RequestType] /\ req'[r].pc \notin Early
         /\ \A q \in Attempts \ {r} : req'[q] = req[q]
<1>1. req \in [Attempts -> RequestType]
  BY DEF TypeOK, RequestType, Early
<1>2. req' \in [Attempts -> RequestType] /\ req'[r].pc = p
  BY <1>1 DEF RequestType
<1> QED
  BY <1>1, <1>2 DEF Early

\* So does the answer the middleware looks at.
LEMMA RespondType ==
  ASSUME TypeOK, NEW r \in Attempts, NEW a \in {"created", "refused", "failed"}, Respond(r, a)
  PROVE  /\ req' \in [Attempts -> RequestType] /\ req'[r].pc \notin Early
         /\ \A q \in Attempts \ {r} : req'[q] = req[q]
<1>1. PICK p \in {"over", "complete", "delete"}, o \in Order :
        req' = [req EXCEPT ![r].pc = p, ![r].answer = a, ![r].order = o]
  BY DEF Respond, Order
<1> QED
  BY <1>1, AnswerType

\* What a request may do disturbs neither types nor tasks nor the counter.
LEMMA RequestKeeps ==
  ASSUME TypeOK, TasksInHand, CountCovers, NEW r \in Attempts, RequestEffect(r)
  PROVE  TypeOK' /\ TasksInHand' /\ CountCovers'
<1> USE DEF RequestEffect
<1>1. TypeOK'
  <2>1. req' \in [Attempts -> [
       pc : {"get", "reserve", "create", "activate", "allow", "enqueue", "limited",
             "complete", "delete", "over"},
       alive : BOOLEAN, reserved : BOOLEAN, order : Order,
       answer : {"none", "created", "replayed", "conflict", "refused", "failed"}]]
    <3>1. Early \cup {"complete", "delete", "over"} =
            {"get", "reserve", "create", "activate", "allow", "enqueue", "limited",
             "complete", "delete", "over"}
      BY DEF Early
    <3> QED
      BY <3>1 DEF RequestType
  <2> QED
    BY <2>1 DEF TypeOK, EntryType
<1>2. TasksInHand'
  <2>1. task \in [Attempts -> {"none", "pending", "active", "done"}]
        /\ demo \in [Attempts -> {"none", "limited", "started"}]
    BY DEF TypeOK
  <2>2. \A q \in Attempts : req'[q].pc \in Early => task'[q] = "none" /\ demo'[q] = "none"
    BY <2>1 DEF TasksInHand
  <2>3. \A o \in Attempts : task[o] = "active" => task'[o] = "active"
    BY <2>1 DEF TasksInHand
  <2> QED
    BY <2>2, <2>3 DEF TasksInHand, Doing
<1>3. CountCovers'
  BY DEF CountCovers, Reserving, Doing
<1> QED
  BY <1>1, <1>2, <1>3

(* Every variable has its type.  That the counter of the day is no negative *)
(* number needs the workers in the act of taking a demo off it.            *)
THEOREM RequestsTypeCorrect == Spec => [](TypeOK /\ TasksInHand /\ CountCovers)
<1> DEFINE Inv == TypeOK /\ TasksInHand /\ CountCovers
<1> USE RequestsNumbers, RequestsAbsent DEF Early
<1>1. Init => Inv
  <2> SUFFICES ASSUME Init PROVE Inv
    OBVIOUS
  <2>1. TypeOK /\ TasksInHand
    BY DEF Init, TypeOK, TasksInHand, NewRequest, NewWork, Free, Order, Doing
  <2>2. Reserving = {}
    BY DEF Init, Reserving, Doing, NewWork
  <2> QED
    BY <2>1, <2>2, FS_EmptySet DEF CountCovers, TypeOK
<1>2. Inv /\ [Next]_vars => Inv'
  <2> SUFFICES ASSUME TypeOK, TasksInHand, CountCovers, [Next]_vars PROVE Inv'
    OBVIOUS
  <2>w. ASSUME UNCHANGED work, UNCHANGED count PROVE CountCovers'
    BY <2>w DEF CountCovers, Reserving, Doing
  <2>0. CASE UNCHANGED vars
    BY <2>0 DEF vars, client, limits, history, TypeOK, TasksInHand, CountCovers, Reserving, Doing
  <2>1. ASSUME NEW r \in Attempts, RequestStep(r) \/ HangUp(r) \/ Die(r)
        PROVE  RequestEffect(r)
    <3>t. /\ req \in [Attempts -> RequestType] /\ entry \in [Keys -> EntryType]
          /\ order \in [Attempts -> {"none", "unpaid", "free"}]
          /\ excuse \in [Keys -> SUBSET {"hangup", "redis", "database", "crash"}]
          /\ faults \in 0 .. MaxFaults /\ ipCount \in Nat
          /\ task \in [Attempts -> {"none", "pending", "active", "done"}]
          /\ demo \in [Attempts -> {"none", "limited", "started"}]
      BY DEF TypeOK, RequestType, EntryType
    <3> USE <3>t DEF RequestEffect, RequestType, EntryType, At, Goto, Answer, history, limits, client
    <3>1. CASE Get(r)
      <4>1. Stored(r).order \in Order \/ key[r] = NoKey
        BY <3>1 DEF Get, Stored
      <4>2. \/ Goto(r, "create") \/ Goto(r, "reserve") \/ Answer(r, "conflict", NoOrder)
            \/ key[r] \in Keys /\ Answer(r, "replayed", Stored(r).order)
        BY <3>1 DEF Get
      <4> QED
        BY <3>1, <4>1, <4>2 DEF Get, Order
    <3>2. CASE Reserve(r)
      BY <3>2 DEF Reserve, Hold, Sentinel, Order
    <3>3. CASE FailOpen(r)
      BY <3>3, CallFailsType DEF FailOpen
    <3>4. CASE Reject(r) \/ Activate(r)
      BY <3>4, RespondType DEF Reject, Activate
    <3>5. CASE CreateOrder(r)
      BY <3>5 DEF CreateOrder
    <3>6. CASE CreateFails(r) \/ ActivateFails(r)
      <4>1. CASE CreateFails(r)
        <5>1. order' \in [Attempts -> {"none", "unpaid", "free"}]
          BY <4>1 DEF CreateFails
        <5> QED
          BY <4>1, <5>1, CallFailsType, RespondType DEF CreateFails
      <4>2. CASE ActivateFails(r)
        BY <4>2, CallFailsType, RespondType DEF ActivateFails
      <4> QED
        BY <3>6, <4>1, <4>2
    <3>7. CASE AllowIP(r)
      BY <3>7 DEF AllowIP
    <3>8. CASE AllowFails(r) \/ EndFails(r)
      <4>1. CASE AllowFails(r)
        <5>1. req' = [req EXCEPT ![r].pc = "enqueue"] /\ req[r].pc = "allow"
          BY <4>1 DEF AllowFails
        <5>2. req' \in [Attempts -> RequestType]
          BY <5>1
        <5> QED
          BY <4>1, <5>1, <5>2, CallFailsType DEF AllowFails
      <4>2. CASE EndFails(r)
        BY <4>2, CallFailsType DEF EndFails
      <4> QED
        BY <3>8, <4>1, <4>2
    <3>9. CASE EnqueueDemoTask(r) \/ LimitByIP(r)
      <4>1. CASE EnqueueDemoTask(r)
        BY <4>1, RespondType DEF EnqueueDemoTask
      <4>2. CASE LimitByIP(r)
        BY <4>2, RespondType DEF LimitByIP
      <4> QED
        BY <3>9, <4>1, <4>2
    <3>10. CASE TriggerFails(r)
      BY <3>10, CallFailsType, RespondType DEF TriggerFails
    <3>11. CASE Complete(r) \/ Delete(r)
      <4>1. CASE Complete(r)
        <5>1. Done(r) \in EntryType
          BY DEF Done, Order
        <5>2. entry' \in [Keys -> EntryType]
          BY <4>1, <5>1 DEF Complete
        <5> QED
          BY <4>1, <5>2 DEF Complete
      <4>2. CASE Delete(r)
        <5>1. Free \in EntryType
          BY DEF Free, Order
        <5>2. entry' \in [Keys -> EntryType]
          BY <4>2, <5>1 DEF Delete
        <5> QED
          BY <4>2, <5>2 DEF Delete
      <4> QED
        BY <3>11, <4>1, <4>2
    <3>12. CASE HangUp(r)
      <4>1. req' \in [Attempts -> RequestType] /\ req'[r].pc = req[r].pc
        <5>1. req[r] \in RequestType
          OBVIOUS
        <5>2. [req[r] EXCEPT !.alive = FALSE] \in RequestType
          BY <5>1
        <5>3. req' = [req EXCEPT ![r] = [req[r] EXCEPT !.alive = FALSE]]
          BY <3>12 DEF HangUp
        <5> HIDE DEF RequestType
        <5> QED
          BY <5>1, <5>2, <5>3
      <4> QED
        BY <3>12, <4>1 DEF HangUp
    <3>13. CASE Die(r)
      <4>1. /\ req' \in [Attempts -> RequestType] /\ req'[r].pc \notin Early
            /\ \A q \in Attempts \ {r} : req'[q] = req[q]
        <5>1. req' = [req EXCEPT ![r].pc = "over", ![r].answer = "none", ![r].order = NoOrder]
          BY <3>13 DEF Die
        <5>2. NoOrder \in Order
          BY DEF Order
        <5> HIDE DEF Early, RequestType
        <5> QED
          BY <5>1, <5>2, AnswerType
      <4>2. excuse' \in [Keys -> SUBSET {"hangup", "redis", "database", "crash"}]
        BY <3>13 DEF Die, Excuse
      <4> QED
        BY <3>13, <4>1, <4>2 DEF Die
    <3> QED
      BY <2>1, <3>1, <3>2, <3>3, <3>4, <3>5, <3>6, <3>7, <3>8, <3>9, <3>10, <3>11, <3>12,
         <3>13
      DEF RequestStep
  <2>2. ASSUME NEW r \in Attempts, RequestEffect(r) PROVE Inv'
    BY <2>2, RequestKeeps
  <2>3. ASSUME NEW k \in Keys, Expire(k) PROVE Inv'
    <3>1. CountCovers'
      BY <2>3, <2>w DEF Expire, limits
    <3> QED
      BY <2>3, <3>1 DEF Expire, client, limits, history, TypeOK, TasksInHand, Doing, Free, Order
  <2>k. ASSUME count' = count, Reserving' \subseteq Reserving PROVE CountCovers'
    BY <2>k, PartOfSet DEF CountCovers, TypeOK
  <2>4. ASSUME NEW w \in Workers, WorkStep(w) PROVE Inv'
    <3> USE DEF TypeOK, TasksInHand, Doing, Proceed, Rest, NewWork, Order, requests, client, limits
    <3>1. ASSUME NEW o \in Attempts, TakeDemo(w, o) PROVE Inv'
      <4>1. CountCovers'
        BY <2>k, <3>1 DEF TakeDemo, Reserving
      <4> QED
        BY <3>1, <4>1 DEF TakeDemo
    <3>2. CASE ClaimEmail(w)
      <4>1. CountCovers'
        BY <2>k, <3>2 DEF ClaimEmail, Claim, Reserving
      <4>2. CASE Claim(w)
        <5>1. work[w].order \in Attempts
          BY <3>2 DEF ClaimEmail
        <5>2. owner' \in [Emails -> Order]
          BY <4>2, <5>1 DEF Claim
        <5> QED
          BY <3>2, <4>1, <4>2, <5>2 DEF ClaimEmail, Claim
      <4>3. CASE Proceed(w, "owner") /\ UNCHANGED owner
        BY <3>2, <4>1, <4>3 DEF ClaimEmail
      <4> QED
        BY <3>2, <4>2, <4>3 DEF ClaimEmail
    <3>3. CASE ReadOwner(w)
      <4>1. CountCovers'
        BY <2>k, <3>3 DEF ReadOwner, Grant, Reserving
      <4>2. CASE Grant(w) /\ UNCHANGED task
        BY <3>3, <4>1, <4>2 DEF ReadOwner, Grant
      <4>3. CASE Proceed(w, "limit") /\ UNCHANGED <<task, granted>>
        BY <3>3, <4>1, <4>3 DEF ReadOwner
      <4>4. CASE /\ task' = [task EXCEPT ![work[w].order] = "done"] /\ Rest(w)
                 /\ UNCHANGED granted
        BY <3>3, <4>1, <4>4 DEF ReadOwner
      <4> QED
        BY <3>3, <4>2, <4>3, <4>4 DEF ReadOwner
    <3>4. CASE CountDemo(w)
      <4>1. w \notin Reserving /\ count' = count + 1 /\ Reserving' \subseteq Reserving \cup {w}
        BY <3>4 DEF CountDemo, Grant, Reserving
      <4>2. CountCovers'
        <5>1. /\ IsFiniteSet(Reserving \cup {w})
              /\ Cardinality(Reserving \cup {w}) = Cardinality(Reserving) + 1
          BY <4>1, SetWith DEF CountCovers
        <5>2. /\ IsFiniteSet(Reserving') /\ Cardinality(Reserving') \in Nat
              /\ Cardinality(Reserving') <= Cardinality(Reserving \cup {w})
              /\ Cardinality(Reserving \cup {w}) \in Nat
          BY <4>1, <5>1, PartOfSet
        <5>3. Cardinality(Reserving) \in Nat
          BY FS_CardinalityType DEF CountCovers
        <5>4. Cardinality(Reserving') <= count'
          BY <4>1, <5>1, <5>2, <5>3 DEF CountCovers
        <5> QED
          BY <5>2, <5>4 DEF CountCovers
      <4>3. CASE Proceed(w, "uncount") /\ UNCHANGED granted
        BY <3>4, <4>2, <4>3 DEF CountDemo
      <4>4. CASE Grant(w)
        BY <3>4, <4>2, <4>4 DEF CountDemo, Grant
      <4> QED
        BY <3>4, <4>3, <4>4 DEF CountDemo
    <3>5. CASE Uncount(w)
      <4>1. w \in Reserving /\ count' = count - 1 /\ Reserving' \subseteq Reserving \ {w}
        BY <3>5 DEF Uncount, Reserving
      <4>2. CountCovers' /\ count' \in Nat
        <5>1. /\ IsFiniteSet(Reserving \ {w}) /\ Cardinality(Reserving) \in Nat
              /\ Cardinality(Reserving \ {w}) = Cardinality(Reserving) - 1
          BY <4>1, SetWithout DEF CountCovers
        <5>2. /\ IsFiniteSet(Reserving') /\ Cardinality(Reserving') \in Nat
              /\ Cardinality(Reserving') <= Cardinality(Reserving \ {w})
              /\ Cardinality(Reserving \ {w}) \in Nat
          BY <4>1, <5>1, PartOfSet
        <5>3. count \in Nat /\ Cardinality(Reserving) <= count
          BY DEF CountCovers
        <5>4. Cardinality(Reserving') <= count' /\ count' \in Nat
          BY <4>1, <5>1, <5>2, <5>3
        <5> QED
          BY <5>2, <5>4 DEF CountCovers
      <4> QED
        BY <3>5, <4>2 DEF Uncount
    <3>6. CASE RollbackEmail(w)
      <4>1. CountCovers'
        BY <2>k, <3>6 DEF RollbackEmail, Reserving
      <4>2. owner' \in [Emails -> Order]
        BY <3>6 DEF RollbackEmail
      <4> QED
        BY <3>6, <4>1, <4>2 DEF RollbackEmail
    <3>7. CASE ReserveFails(w)
      <4>1. CountCovers'
        BY <2>k, <3>7 DEF ReserveFails, Reserving
      <4>2. owner' = owner \/ owner' = [owner EXCEPT ![Mail(w)] = NoOrder]
        BY <3>7 DEF ReserveFails
      <4>3. CASE task' = [task EXCEPT ![work[w].order] = "done"] /\ Rest(w)
        BY <3>7, <4>1, <4>2, <4>3 DEF ReserveFails
      <4>4. CASE ~Doing(w, "idle") /\ Proceed(w, "rollback") /\ UNCHANGED task
        BY <3>7, <4>1, <4>2, <4>4 DEF ReserveFails
      <4>5. CASE ~Doing(w, "idle") /\ Proceed(w, "limit") /\ UNCHANGED task
        BY <3>7, <4>1, <4>2, <4>5 DEF ReserveFails
      <4> QED
        BY <3>7, <4>3, <4>4, <4>5 DEF ReserveFails
    <3>8. CASE MarkLimited(w)
      <4>1. CountCovers'
        BY <2>k, <3>8 DEF MarkLimited, Reserving
      <4> QED
        BY <3>8, <4>1 DEF MarkLimited
    <3>9. CASE StartDemo(w)
      <4>1. CountCovers'
        BY <2>k, <3>9 DEF StartDemo, Reserving
      <4> QED
        BY <3>9, <4>1 DEF StartDemo
    <3> QED
      BY <2>4, <3>1, <3>2, <3>3, <3>4, <3>5, <3>6, <3>7, <3>8, <3>9 DEF WorkStep
  <2>5. ASSUME NEW w \in Workers, DieWorking(w) PROVE Inv'
    <3>1. CountCovers'
      BY <2>k, <2>5 DEF DieWorking, Reserving, limits, Doing, Rest, NewWork, TypeOK
    <3> QED
      BY <2>5, <3>1 DEF DieWorking, TypeOK, TasksInHand, Doing, Rest, NewWork, Order,
        requests, client, limits
  <2> QED
    BY <2>0, <2>1, <2>2, <2>3, <2>4, <2>5 DEF Next
<1> QED
  BY <1>1, <1>2, PTL DEF Spec

-----------------------------------------------------------------------------
(* The limit of an email.                                                  *)

\* The key of an email names the order that has got its demo, or the one whose worker
\* has claimed it and goes on to count, or to give it back.
Claiming(w) == work[w].pc \in {"count", "uncount", "rollback"}
EmailsInOrder ==
  /\ \A o \in granted : owner[email[o]] = o
  /\ \A w \in Workers : Claiming(w) =>
       work[w].claimed /\ work[w].order \notin granted /\ owner[Mail(w)] = work[w].order

\* Requests have no part in the demos given.
LEMMA RequestsGiveNoDemo ==
  ASSUME NEW r \in Attempts, RequestStep(r) \/ HangUp(r) \/ Die(r)
  PROVE  UNCHANGED <<email, before, owner, count, work, granted, slips>>
<1>1. RequestStep(r) => UNCHANGED <<email, before, owner, count, work, granted, slips>>
  BY DEF RequestStep, Get, Reserve, FailOpen, Reject, CreateOrder, CreateFails, Activate,
    ActivateFails, AllowIP, AllowFails, EnqueueDemoTask, LimitByIP, TriggerFails, Complete, Delete,
    EndFails, client, limits, history
<1> QED
  BY <1>1 DEF HangUp, Die, client, limits, history

(* OneDemoPerEmail: SETNX gives an email to one order, and the rollback     *)
(* takes it only from an order that has no demo.                           *)
THEOREM OneDemoPerEmailHolds == Spec => [](EmailsInOrder /\ OneDemoPerEmail)
<1> USE RequestsAbsent
<1>1. Init => EmailsInOrder
  BY DEF Init, EmailsInOrder, Claiming, NewWork
<1>2. TypeOK /\ TasksInHand /\ EmailsInOrder /\ [Next]_vars => EmailsInOrder'
  <2> SUFFICES ASSUME TypeOK, TasksInHand, EmailsInOrder, [Next]_vars PROVE EmailsInOrder'
    OBVIOUS
  <2>t. /\ email \in [Attempts -> Emails] /\ owner \in [Emails -> Order] /\ granted \subseteq Attempts
        /\ work \in [Workers -> [
             pc : {"idle", "claim", "owner", "count", "uncount", "rollback", "limit", "start"},
             order : Order, claimed : BOOLEAN]]
        /\ NoOrder \notin Attempts
    BY DEF TypeOK
  <2>a. /\ \A w \in Workers : work[w].pc # "idle" => work[w].order \in Attempts
        /\ \A w, v \in Workers : work[w].pc # "idle" /\ work[v].pc # "idle"
                                   /\ work[w].order = work[v].order => w = v
    BY DEF TasksInHand, Doing
  <2> USE DEF EmailsInOrder, Claiming, Doing, Proceed, Rest, NewWork, Mail, requests, client, limits
  <2>0. CASE UNCHANGED <<email, owner, work, granted>>
    BY <2>0
  <2>1. ASSUME NEW w \in Workers, NEW o \in Attempts, TakeDemo(w, o) PROVE EmailsInOrder'
    BY <2>1, <2>t DEF TakeDemo
  <2>2. ASSUME NEW w \in Workers, ClaimEmail(w) PROVE EmailsInOrder'
    <3>1. CASE owner[Mail(w)] = NoOrder /\ Claim(w)
      <4>1. work[w].order \in Attempts /\ email' = email /\ granted' = granted
        BY <2>2, <2>a DEF ClaimEmail
      <4>2. \A o \in granted : email[o] # Mail(w) /\ o # work[w].order
        BY <3>1, <2>t
      <4>3. \A v \in Workers : Claiming(v) => email[work[v].order] # Mail(w)
        BY <3>1, <2>t, <2>a
      <4> QED
        BY <3>1, <4>1, <4>2, <4>3, <2>t, <2>a DEF Claim
    <3>2. CASE Proceed(w, "owner") /\ UNCHANGED owner
      BY <3>2, <2>2, <2>t DEF ClaimEmail
    <3> QED
      BY <2>2, <3>1, <3>2 DEF ClaimEmail
  <2>3. ASSUME NEW w \in Workers, ReadOwner(w) PROVE EmailsInOrder'
    <3>1. CASE owner[Mail(w)] = work[w].order /\ Grant(w)
      <4>1. UNCHANGED <<email, owner>> /\ work[w].pc = "owner"
        BY <2>3 DEF ReadOwner
      <4>2. \A v \in Workers : Claiming(v) => work[v].order # work[w].order
        BY <4>1, <2>a
      <4> QED
        BY <3>1, <4>1, <4>2, <2>t DEF Grant
    <3>2. CASE Proceed(w, "limit") /\ UNCHANGED granted
      BY <3>2, <2>3, <2>t DEF ReadOwner
    <3>3. CASE Rest(w) /\ UNCHANGED granted
      BY <3>3, <2>3, <2>t DEF ReadOwner
    <3> QED
      BY <2>3, <3>1, <3>2, <3>3 DEF ReadOwner
  <2>4. ASSUME NEW w \in Workers, CountDemo(w) PROVE EmailsInOrder'
    <3>1. CASE Proceed(w, "uncount") /\ UNCHANGED granted
      BY <3>1, <2>4, <2>t DEF CountDemo
    <3>2. CASE Grant(w)
      <4>1. UNCHANGED <<email, owner>> /\ work[w].pc = "count" /\ owner[Mail(w)] = work[w].order
        BY <2>4 DEF CountDemo
      <4>2. \A v \in Workers : Claiming(v) /\ v # w => work[v].order # work[w].order
        BY <4>1, <2>a
      <4> QED
        BY <3>2, <4>1, <4>2, <2>t DEF Grant
    <3> QED
      BY <2>4, <3>1, <3>2 DEF CountDemo
  <2>5. ASSUME NEW w \in Workers, Uncount(w) PROVE EmailsInOrder'
    BY <2>5, <2>t DEF Uncount
  \* Giving back the email of w touches no demo and no other worker.
  <2>6. ASSUME NEW w \in Workers, Claiming(w), owner' = [owner EXCEPT ![Mail(w)] = NoOrder],
               UNCHANGED <<email, granted>>,
               Proceed(w, "limit") \/ Rest(w)
        PROVE  EmailsInOrder'
    <3>1. \A o \in granted : email[o] # Mail(w)
      BY <2>6, <2>t
    <3>2. \A v \in Workers : Claiming(v) /\ v # w => email[work[v].order] # Mail(w)
      BY <2>6, <2>t, <2>a
    <3>3. /\ ~(work'[w].pc \in {"count", "uncount", "rollback"})
          /\ \A v \in Workers : v # w => work'[v] = work[v]
      BY <2>6, <2>t
    <3> QED
      BY <2>6, <3>1, <3>2, <3>3, <2>t
  <2>7. ASSUME NEW w \in Workers, RollbackEmail(w) PROVE EmailsInOrder'
    BY <2>7, <2>6 DEF RollbackEmail
  <2>8. ASSUME NEW w \in Workers, ReserveFails(w) PROVE EmailsInOrder'
    <3>0. UNCHANGED <<email, granted>>
      BY <2>8 DEF ReserveFails
    <3>1. CASE owner' = owner /\ Rest(w)
      BY <3>0, <3>1, <2>t
    <3>2. CASE owner' = [owner EXCEPT ![Mail(w)] = NoOrder] /\ Doing(w, "count") /\ Rest(w)
      BY <3>0, <3>2, <2>6
    <3>3. CASE owner' = owner /\ Doing(w, "uncount") /\ Proceed(w, "rollback")
      BY <3>0, <3>3, <2>t
    <3>4. CASE owner' = owner /\ Proceed(w, "limit")
      BY <3>0, <3>4, <2>t
    <3> QED
      BY <2>8, <3>1, <3>2, <3>3, <3>4 DEF ReserveFails
  <2>9. ASSUME NEW w \in Workers, MarkLimited(w) \/ StartDemo(w) \/ DieWorking(w)
        PROVE  EmailsInOrder'
    <3>1. UNCHANGED <<email, owner, granted>> /\ Rest(w)
      BY <2>9 DEF MarkLimited, StartDemo, DieWorking
    <3> QED
      BY <3>1, <2>t
  <2>10. ASSUME NEW r \in Attempts, RequestStep(r) \/ HangUp(r) \/ Die(r) PROVE EmailsInOrder'
    BY <2>10, <2>0, RequestsGiveNoDemo
  <2>11. ASSUME NEW k \in Keys, Expire(k) PROVE EmailsInOrder'
    BY <2>11, <2>0 DEF Expire, history
  <2>12. CASE UNCHANGED vars
    BY <2>12, <2>0 DEF vars, history
  <2> QED
    BY <2>1, <2>2, <2>3, <2>4, <2>5, <2>7, <2>8, <2>9, <2>10, <2>11, <2>12 DEF Next, WorkStep
<1>3. EmailsInOrder => OneDemoPerEmail
  BY DEF EmailsInOrder, OneDemoPerEmail
<1> QED
  BY <1>1, <1>2, <1>3, RequestsTypeCorrect, PTL DEF Spec

-----------------------------------------------------------------------------
(* Idempotency keys.                                                       *)

\* The order of a request exists from CreateOrder on; what ends by Complete or Delete
\* has reserved its key.
Made(r) == order[r] # "none"
Stages ==
  /\ \A r \in Attempts : req[r].reserved => key[r] \in Keys /\ req[r].pc \notin {"get", "reserve"}
  /\ \A r \in Attempts : req[r].pc = "reserve" => key[r] \in Keys
  /\ \A r \in Attempts : req[r].pc \in {"complete", "delete"} => req[r].reserved
  /\ \A r \in Attempts : req[r].pc \in {"get", "reserve", "create"} => ~Made(r)
  /\ \A r \in Attempts :
       req[r].pc \in {"activate", "allow", "enqueue", "limited", "complete"} => Made(r)

\* A key is reserved by one attempt at a time, whose sentinel is there as long as it
\* runs; an answer that is kept names an order of the key, and is kept for good.
Running(r) == req[r].reserved /\ req[r].pc # "over"
KeysInOrder ==
  /\ \A r \in Attempts : Running(r) => entry[key[r]] = Sentinel
  /\ \A r, q \in Attempts : Running(r) /\ Running(q) /\ key[r] = key[q] => r = q
  /\ \A k \in Keys : entry[k].state = "done" =>
       entry[k].order \in Attempts /\ key[entry[k].order] = k /\ Made(entry[k].order)
  /\ \A r \in Attempts : req[r].answer = "replayed" =>
       key[r] \in Keys /\ entry[key[r]] = Done(req[r].order)

\* While nothing has gone wrong with a key: whoever works under it has reserved it, the
\* sentinel belongs to one who runs, and an order of the key is the one that is kept
\* or the one of the attempt that runs.
InGoodOrder(k) ==
  /\ \A r \in Attempts : key[r] = k /\ req[r].pc \notin {"get", "reserve", "over"} => req[r].reserved
  /\ entry[k] = Sentinel => Holding(k)
  /\ \A r \in Attempts : key[r] = k /\ Made(r) =>
       entry[k] = Done(r) \/ (Running(r) /\ req[r].pc # "delete")
Unexcused == \A k \in Keys : excuse[k] = {} => InGoodOrder(k)

\* What goes wrong is an excuse for its key and for no other; a call that fails is one.
LEMMA Excused ==
  ASSUME TypeOK, NEW r \in Attempts, NEW c \in {"hangup", "redis", "database", "crash"},
         Excuse(key[r], c)
  PROVE  /\ key[r] \in Keys => excuse'[key[r]] # {}
         /\ \A k \in Keys : k # key[r] => excuse'[k] = excuse[k]
<1>1. excuse \in [Keys -> SUBSET {"hangup", "redis", "database", "crash"}]
  BY DEF TypeOK
<1>2. CASE key[r] \in Keys
  <2>1. excuse' = [excuse EXCEPT ![key[r]] = excuse[key[r]] \cup {c}]
    BY <1>2 DEF Excuse
  <2>2. excuse'[key[r]] = excuse[key[r]] \cup {c}
    BY <1>1, <1>2, <2>1
  <2>3. c \in excuse'[key[r]]
    BY <2>2
  <2> QED
    BY <1>1, <2>1, <2>3
<1>3. CASE key[r] \notin Keys
  BY <1>3 DEF Excuse
<1> QED
  BY <1>2, <1>3

\* A call that fails is an excuse, whether the client is gone or the server.
LEMMA FailureExcuses ==
  ASSUME TypeOK, NEW r \in Attempts, NEW c \in {"redis", "database"}, CallFails(r, c)
  PROVE  /\ key[r] \in Keys => excuse'[key[r]] # {}
         /\ \A k \in Keys : k # key[r] => excuse'[k] = excuse[k]
<1>1. PICK d \in {"hangup", "redis", "database", "crash"} : Excuse(key[r], d)
  BY DEF CallFails
<1> QED
  BY <1>1, Excused

\* The handler has answered: only an order that is created keeps the key.
LEMMA Responded ==
  ASSUME TypeOK, NEW r \in Attempts, NEW a \in {"created", "refused", "failed"}, Respond(r, a)
  PROVE  /\ req'[r].reserved = req[r].reserved /\ req'[r].answer = a
         /\ req'[r].pc \in {"over", "complete", "delete"}
         /\ req'[r].pc = "over" <=> ~req[r].reserved
         /\ req'[r].pc = "complete" => a = "created"
         /\ req'[r].pc = "delete" => a # "created"
         /\ \A q \in Attempts : q # r => req'[q] = req[q]
<1>1. req \in [Attempts -> RequestType]
  BY DEF TypeOK, RequestType, Early
<1> DEFINE p == IF ~req[r].reserved THEN "over" ELSE IF a = "created" THEN "complete" ELSE "delete"
           o == IF a = "created" THEN r ELSE NoOrder
<1>2. req' = [req EXCEPT ![r].pc = p, ![r].answer = a, ![r].order = o]
  BY DEF Respond
<1>3. /\ req'[r].reserved = req[r].reserved /\ req'[r].answer = a /\ req'[r].pc = p
      /\ \A q \in Attempts : q # r => req'[q] = req[q]
  BY <1>1, <1>2 DEF RequestType
<1> QED
  BY <1>3

(* OneOrderPerKey, HeldWhileRunning and ReplayIsTheOrder: SETNX lets one    *)
(* attempt in, and its sentinel outlasts it only by an accident.           *)
THEOREM KeysAreHeld ==
  Spec => [](OneOrderPerKey /\ HeldWhileRunning /\ ReplayIsTheOrder)
<1> DEFINE Inv == Stages /\ KeysInOrder /\ Unexcused
<1> USE RequestsAbsent
<1>1. Init => Inv
  <2> SUFFICES ASSUME Init PROVE Inv
    OBVIOUS
  <2>1. /\ \A r \in Attempts : req[r].pc = "get" /\ req[r].reserved = FALSE
                                /\ req[r].answer = "none" /\ ~Made(r)
        /\ \A k \in Keys : entry[k].state = "free"
    BY DEF Init, NewRequest, Made, Free
  <2> QED
    BY <2>1 DEF Stages, KeysInOrder, Unexcused, InGoodOrder, Running, Sentinel
<1>2. TypeOK /\ TypeOK' /\ Inv /\ [Next]_vars => Inv'
  <2> SUFFICES ASSUME TypeOK, TypeOK', Inv, [Next]_vars PROVE Inv'
    OBVIOUS
  <2>t. /\ req \in [Attempts -> RequestType] /\ entry \in [Keys -> EntryType]
        /\ order \in [Attempts -> {"none", "unpaid", "free"}]
        /\ key \in [Attempts -> Keys \cup {NoKey}]
        /\ NoKey \notin Keys
    BY DEF TypeOK, RequestType, EntryType, Early
  <2> USE DEF Stages, KeysInOrder, Unexcused, InGoodOrder, Running, Made, Holding, Over
  <2>0. CASE UNCHANGED <<key, entry, req, order, excuse>>
    BY <2>0
  <2>1. ASSUME NEW r \in Attempts, Get(r) PROVE Inv'
    <3>1. CASE key[r] = NoKey /\ Goto(r, "create")
      BY <2>1, <3>1, <2>t DEF Get, Goto, At, client, history
    <3>2. CASE key[r] \in Keys /\ Stored(r).state = "done" /\ Answer(r, "replayed", Stored(r).order)
      <4>1. entry[key[r]] = Done(Stored(r).order)
        BY <3>2, <2>t DEF Stored, Done, EntryType
      <4>2. /\ req[r].pc = "get" /\ req'[r].pc = "over" /\ req'[r].order = Stored(r).order
            /\ req'[r].reserved = req[r].reserved
            /\ \A q \in Attempts : q # r => req'[q] = req[q]
        BY <2>1, <3>2, <2>t DEF Get, At, Answer, RequestType
      <4>3. UNCHANGED <<key, entry, order, excuse>>
        BY <2>1 DEF Get, client, history
      <4> QED
        BY <3>2, <4>1, <4>2, <4>3, <2>t
    <3>3. CASE Answer(r, "conflict", NoOrder)
      BY <2>1, <3>3, <2>t DEF Get, Answer, At, client, history
    <3>4. CASE key[r] \in Keys /\ Goto(r, "reserve")
      BY <2>1, <3>4, <2>t DEF Get, Goto, At, client, history
    <3> QED
      BY <2>1, <3>1, <3>2, <3>3, <3>4 DEF Get
  <2>2. ASSUME NEW r \in Attempts, Reserve(r) PROVE Inv'
    <3>1. CASE entry[key[r]] = Free /\ Hold(r)
      <4>1. /\ req[r].pc = "reserve" /\ req'[r].pc = "create" /\ req'[r].reserved = TRUE
            /\ req'[r].answer = req[r].answer /\ req'[r].order = req[r].order
            /\ \A q \in Attempts : q # r => req'[q] = req[q]
        BY <2>2, <3>1, <2>t DEF Reserve, Hold, At, RequestType
      <4>2. UNCHANGED <<key, order, excuse>> /\ ~Made(r)
        BY <2>2 DEF Reserve, client, history, At
      <4>3. key[r] \in Keys
        BY <2>2 DEF Reserve, At
      <4>4. /\ entry'[key[r]] = Sentinel
            /\ \A k \in Keys : k # key[r] => entry'[k] = entry[k]
        BY <3>1, <4>3, <2>t DEF Hold
      <4>5. Free # Sentinel /\ Sentinel.state # "done" /\ \A o : Free # Done(o) /\ Sentinel # Done(o)
        BY DEF Free, Sentinel, Done
      <4>6. Stages'
        BY <4>1, <4>2, <4>3
      <4>7. KeysInOrder'
        BY <3>1, <4>1, <4>2, <4>3, <4>4, <4>5, <2>t
      <4>8. Unexcused'
        BY <3>1, <4>1, <4>2, <4>3, <4>4, <4>5, <2>t
      <4> QED
        BY <4>6, <4>7, <4>8
    <3>2. CASE Answer(r, "conflict", NoOrder) /\ UNCHANGED entry
      BY <2>2, <3>2, <2>t DEF Reserve, Answer, At, client, history
    <3> QED
      BY <2>2, <3>1, <3>2 DEF Reserve
  <2>3. ASSUME NEW r \in Attempts, FailOpen(r) PROVE Inv'
    <3>1. excuse'[key[r]] # {} /\ \A k \in Keys : k # key[r] => excuse'[k] = excuse[k]
      BY <2>3, FailureExcuses DEF FailOpen
    <3> QED
      BY <2>3, <3>1, <2>t DEF FailOpen, Goto, At, client
  <2>4. ASSUME NEW r \in Attempts, Reject(r) PROVE Inv'
    BY <2>4, <2>t DEF Reject, Respond, At, client, history
  <2>5. ASSUME NEW r \in Attempts, CreateOrder(r) PROVE Inv'
    BY <2>5, <2>t DEF CreateOrder, Goto, At, client, history
  <2>6. ASSUME NEW r \in Attempts, CreateFails(r) PROVE Inv'
    <3>1. /\ key[r] \in Keys => excuse'[key[r]] # {}
          /\ \A k \in Keys : k # key[r] => excuse'[k] = excuse[k]
      BY <2>6, FailureExcuses DEF CreateFails
    <3>2. /\ req'[r].reserved = req[r].reserved /\ req'[r].answer = "failed"
          /\ req'[r].pc \in {"over", "delete"}
          /\ req'[r].pc = "over" <=> ~req[r].reserved
          /\ \A q \in Attempts : q # r => req'[q] = req[q]
      BY <2>6, Responded DEF CreateFails
    <3>3. /\ UNCHANGED <<key, entry>> /\ ~Made(r) /\ req[r].pc = "create"
          /\ \A q \in Attempts : q # r => order'[q] = order[q]
      BY <2>6, <2>t DEF CreateFails, client, At
    <3>5. Stages'
      BY <3>1, <3>2, <3>3, <2>t
    <3>6. KeysInOrder'
      BY <3>1, <3>2, <3>3, <2>t
    <3>7. Unexcused'
      BY <3>1, <3>2, <3>3, <2>t
    <3> QED
      BY <3>5, <3>6, <3>7
  <2>7. ASSUME NEW r \in Attempts, Activate(r) \/ EnqueueDemoTask(r) \/ LimitByIP(r) PROVE Inv'
    <3>1. /\ req'[r].reserved = req[r].reserved /\ req'[r].answer = "created"
          /\ req'[r].pc \in {"over", "complete"}
          /\ req'[r].pc = "over" <=> ~req[r].reserved
          /\ \A q \in Attempts : q # r => req'[q] = req[q]
      BY <2>7, Responded DEF Activate, EnqueueDemoTask, LimitByIP
    <3>2. /\ UNCHANGED <<key, entry, order, excuse>>
          /\ Made(r) /\ req[r].pc \in {"activate", "enqueue", "limited"}
      BY <2>7 DEF Activate, EnqueueDemoTask, LimitByIP, client, history, At
    <3>5. Stages'
      BY <3>1, <3>2, <2>t
    <3>6. KeysInOrder'
      BY <3>1, <3>2, <2>t
    <3>7. Unexcused'
      BY <3>1, <3>2, <2>t
    <3> QED
      BY <3>5, <3>6, <3>7
  <2>8. ASSUME NEW r \in Attempts, ActivateFails(r) \/ TriggerFails(r) PROVE Inv'
    <3>1. /\ key[r] \in Keys => excuse'[key[r]] # {}
          /\ \A k \in Keys : k # key[r] => excuse'[k] = excuse[k]
      BY <2>8, FailureExcuses DEF ActivateFails, TriggerFails
    <3>2. \E a \in {"created", "failed"} : Respond(r, a)
      BY <2>8 DEF ActivateFails, TriggerFails
    <3>3. /\ req'[r].reserved = req[r].reserved /\ req'[r].answer \in {"created", "failed"}
          /\ req'[r].pc \in {"over", "complete", "delete"}
          /\ req'[r].pc = "over" <=> ~req[r].reserved
          /\ \A q \in Attempts : q # r => req'[q] = req[q]
      BY <3>2, Responded
    <3>4. /\ UNCHANGED <<key, entry, order>>
          /\ Made(r) /\ req[r].pc \in {"activate", "enqueue", "limited"}
      BY <2>8 DEF ActivateFails, TriggerFails, client, At
    <3>5. Stages'
      BY <3>1, <3>3, <3>4, <2>t
    <3>6. KeysInOrder'
      BY <3>1, <3>3, <3>4, <2>t
    <3>7. Unexcused'
      BY <3>1, <3>3, <3>4, <2>t
    <3> QED
      BY <3>5, <3>6, <3>7
  <2>9. ASSUME NEW r \in Attempts, AllowIP(r) \/ AllowFails(r) PROVE Inv'
    <3>1. CASE AllowIP(r)
      <4>1. PICK p \in {"enqueue", "limited"} : Goto(r, p)
        BY <3>1 DEF AllowIP
      <4> QED
        BY <3>1, <4>1, <2>t DEF AllowIP, Goto, At, client, history
    <3>2. CASE AllowFails(r)
      <4>1. /\ key[r] \in Keys => excuse'[key[r]] # {}
            /\ \A k \in Keys : k # key[r] => excuse'[k] = excuse[k]
        BY <3>2, FailureExcuses DEF AllowFails
      <4> QED
        BY <3>2, <4>1, <2>t DEF AllowFails, Goto, At, client
    <3> QED
      BY <2>9, <3>1, <3>2
  <2>10. ASSUME NEW r \in Attempts, Complete(r) PROVE Inv'
    BY <2>10, <2>t DEF Complete, Goto, At, client, history, Done, Sentinel
  <2>11. ASSUME NEW r \in Attempts, Delete(r) PROVE Inv'
    BY <2>11, <2>t DEF Delete, Goto, At, client, history, Free, Sentinel, Done
  <2>12. ASSUME NEW r \in Attempts, EndFails(r) PROVE Inv'
    BY <2>12, <2>t, FailureExcuses DEF EndFails, Goto, At, client
  <2>13. ASSUME NEW r \in Attempts, HangUp(r) PROVE Inv'
    BY <2>13, <2>t DEF HangUp, client, history
  <2>14. ASSUME NEW r \in Attempts, Die(r) PROVE Inv'
    <3>1. /\ key[r] \in Keys => excuse'[key[r]] # {}
          /\ \A k \in Keys : k # key[r] => excuse'[k] = excuse[k]
      BY <2>14, Excused DEF Die
    <3>2. /\ req'[r].pc = "over" /\ req'[r].answer = "none" /\ req'[r].reserved = req[r].reserved
          /\ \A q \in Attempts : q # r => req'[q] = req[q]
      BY <2>14, <2>t DEF Die, Answer, RequestType
    <3>3. /\ UNCHANGED <<key, entry, order>> /\ req[r].pc \notin {"get", "reserve", "over"}
      BY <2>14 DEF Die, Started, client
    <3> QED
      BY <3>1, <3>2, <3>3, <2>t
  <2>15. ASSUME NEW k \in Keys, Expire(k) PROVE Inv'
    BY <2>15, <2>t DEF Expire, client, history, Sentinel, Free, Done
  <2>16. ASSUME NEW w \in Workers, WorkStep(w) \/ DieWorking(w) PROVE Inv'
    <3>1. UNCHANGED requests
      BY <2>16 DEF WorkStep, TakeDemo, ClaimEmail, ReadOwner, CountDemo, Uncount, RollbackEmail,
        ReserveFails, MarkLimited, StartDemo, DieWorking
    <3> QED
      BY <2>0, <3>1 DEF requests, client
  <2>17. CASE UNCHANGED vars
    BY <2>0, <2>17 DEF vars, client, history
  <2> QED
    BY <2>1, <2>2, <2>3, <2>4, <2>5, <2>6, <2>7, <2>8, <2>9, <2>10, <2>11, <2>12, <2>13, <2>14,
       <2>15, <2>16, <2>17 DEF Next, RequestStep
<1>3. TypeOK /\ Inv => OneOrderPerKey /\ HeldWhileRunning /\ ReplayIsTheOrder
  <2> SUFFICES ASSUME TypeOK, Inv PROVE OneOrderPerKey /\ HeldWhileRunning /\ ReplayIsTheOrder
    OBVIOUS
  <2>1. ASSUME NEW k \in Keys, excuse[k] = {} PROVE Cardinality(OrdersOf(k)) <= 1
    <3>1. ASSUME NEW r \in OrdersOf(k), NEW q \in OrdersOf(k) PROVE r = q
      <4>1. /\ r \in Attempts /\ key[r] = k /\ (entry[k] = Done(r) \/ Running(r))
            /\ q \in Attempts /\ key[q] = k /\ (entry[k] = Done(q) \/ Running(q))
        BY <2>1 DEF OrdersOf, Made, Unexcused, InGoodOrder
      <4>2. /\ Running(r) => entry[k] = Sentinel
            /\ Running(q) => entry[k] = Sentinel
            /\ Running(r) /\ Running(q) => r = q
        BY <4>1 DEF KeysInOrder
      <4>3. Done(r) # Sentinel /\ Done(q) # Sentinel /\ (Done(r) = Done(q) => r = q)
        BY DEF Done, Sentinel
      <4> QED
        BY <4>1, <4>2, <4>3
    <3>2. CASE OrdersOf(k) = {}
      BY <3>2, FS_EmptySet
    <3>3. CASE OrdersOf(k) # {}
      <4>1. PICK r : OrdersOf(k) = {r}
        BY <3>1, <3>3
      <4> QED
        BY <4>1, FS_Singleton
    <3> QED
      BY <3>2, <3>3
  <2>2. HeldWhileRunning
    BY DEF HeldWhileRunning, Unexcused, InGoodOrder
  <2>3. ReplayIsTheOrder
    <3>1. ASSUME NEW r \in Attempts, req[r].answer = "replayed"
          PROVE  /\ key[r] \in Keys /\ entry[key[r]] = Done(req[r].order)
                 /\ req[r].order \in OrdersOf(key[r])
      <4>1. key[r] \in Keys /\ entry[key[r]] = Done(req[r].order)
        BY <3>1 DEF KeysInOrder
      <4>2. entry[key[r]].state = "done" /\ entry[key[r]].order = req[r].order
        BY <4>1 DEF Done
      <4> QED
        BY <4>1, <4>2 DEF KeysInOrder, OrdersOf, Made
    <3>2. \A o, p : Done(o) = Done(p) => o = p
      BY DEF Done
    <3> QED
      BY <3>1, <3>2 DEF ReplayIsTheOrder
  <2> QED
    BY <2>1, <2>2, <2>3 DEF OneOrderPerKey
<1> QED
  BY <1>1, <1>2, <1>3, RequestsTypeCorrect, PTL DEF Spec

(* OneOrderPerKey: retries and double clicks make one order.               *)
THEOREM OneOrderPerKeyHolds == Spec => []OneOrderPerKey
  BY KeysAreHeld, PTL

(* HeldWhileRunning: nobody is told to wait for a request that has ended.   *)
THEOREM HeldWhileRunningHolds == Spec => []HeldWhileRunning
  BY KeysAreHeld, PTL

(* ReplayIsTheOrder: a replayed answer names the order of its key, and so   *)
(* does every later one, whatever else goes wrong.                         *)
THEOREM ReplayIsTheOrderHolds == Spec => []ReplayIsTheOrder
  BY KeysAreHeld, PTL

-----------------------------------------------------------------------------
(* The limit of the day.                                                   *)

\* Orders that hold their email with nobody at work to count or to give it back: a call
\* of Reserve was cut short, and a retry will be granted without being counted.
Stranded == {o \in Attempts :
  owner[email[o]] = o /\ o \notin granted /\ \A w \in Workers : Claiming(w) => work[w].order # o}

\* Of the demos given, k were counted, and there were slips for the rest and for those
\* that may come uncounted; without a slip the counter is exact.
DayInOrder ==
  /\ IsFiniteSet(granted) /\ IsFiniteSet(Stranded) /\ IsFiniteSet(Reserving)
  /\ \E k \in 0 .. (DailyLimit - before) :
       /\ Cardinality(granted) + Cardinality(Stranded) <= slips + k
       /\ k + before + Cardinality(Reserving) <= count
  /\ slips = 0 => /\ Stranded = {}
                  /\ count = before + Cardinality(granted) + Cardinality(Reserving)

\* An order that the limits refuse does not hold its email: one without a task never
\* did, one with a worker has given it back, and a refused order gets no other task.
RefusedInOrder ==
  /\ \A o \in Attempts : owner[email[o]] = o => task[o] # "none"
  /\ \A o \in Attempts : demo[o] = "limited" => task[o] \in {"none", "done"}
  /\ slips = 0 =>
       /\ \A o \in Attempts : demo[o] = "limited" => owner[email[o]] # o
       /\ \A w \in Workers : Doing(w, "limit") => owner[Mail(w)] # work[w].order

\* What the numbers of the day are, for the lemmas below.
DayType == /\ before \in Nat /\ count \in Nat /\ slips \in Nat /\ DailyLimit \in Nat
           /\ before <= DailyLimit /\ before' = before
\* The type invariant gives them.
LEMMA DayTyped ==
  ASSUME TypeOK, before' = before
  PROVE  DayType
  BY RequestsNumbers DEF TypeOK, DayType

\* Nothing is counted or given, and an email may be claimed or given back.
LEMMA DayKept ==
  ASSUME DayType, DayInOrder, granted' = granted, count' = count, slips' = slips,
         Stranded' \subseteq Stranded, Reserving' \subseteq Reserving, Reserving \subseteq Reserving'
  PROVE  DayInOrder'
<1>1. Reserving' = Reserving
  OBVIOUS
<1>2. /\ IsFiniteSet(Stranded') /\ Cardinality(Stranded') \in Nat /\ Cardinality(Stranded) \in Nat
      /\ Cardinality(Stranded') <= Cardinality(Stranded)
  BY PartOfSet DEF DayInOrder
<1>3. Cardinality(granted) \in Nat /\ Cardinality(Reserving) \in Nat
  BY FS_CardinalityType DEF DayInOrder
<1>4. PICK k \in 0 .. (DailyLimit - before) :
        /\ Cardinality(granted) + Cardinality(Stranded) <= slips + k
        /\ k + before + Cardinality(Reserving) <= count
  BY DEF DayInOrder
<1>5. /\ Cardinality(granted) + Cardinality(Stranded') <= slips' + k
      /\ k + before' + Cardinality(Reserving) <= count'
  BY <1>2, <1>3, <1>4 DEF DayType
<1> QED
  BY <1>1, <1>2, <1>4, <1>5 DEF DayInOrder, DayType

\* A demo is given that was counted before a slip.
LEMMA DayRegranted ==
  ASSUME DayType, DayInOrder, NEW o \in Stranded, o \notin granted, granted' = granted \cup {o},
         count' = count, slips' = slips, Stranded' \subseteq Stranded \ {o}, Reserving' = Reserving
  PROVE  DayInOrder'
<1>1. /\ IsFiniteSet(Stranded \ {o}) /\ Cardinality(Stranded) \in Nat
      /\ Cardinality(Stranded \ {o}) = Cardinality(Stranded) - 1
  BY SetWithout DEF DayInOrder
<1>2. /\ IsFiniteSet(Stranded') /\ Cardinality(Stranded') \in Nat
      /\ Cardinality(Stranded \ {o}) \in Nat
      /\ Cardinality(Stranded') <= Cardinality(Stranded \ {o})
  BY <1>1, PartOfSet
<1>3. /\ IsFiniteSet(granted') /\ Cardinality(granted) \in Nat
      /\ Cardinality(granted') = Cardinality(granted) + 1
  BY SetWith DEF DayInOrder
<1>4. PICK k \in 0 .. (DailyLimit - before) :
        /\ Cardinality(granted) + Cardinality(Stranded) <= slips + k
        /\ k + before + Cardinality(Reserving) <= count
  BY DEF DayInOrder
<1>5. /\ Cardinality(granted') + Cardinality(Stranded') <= slips' + k
      /\ k + before' + Cardinality(Reserving') <= count'
  BY <1>1, <1>2, <1>3, <1>4 DEF DayType
<1>6. slips # 0
  BY DEF DayInOrder
<1> QED
  BY <1>2, <1>3, <1>4, <1>5, <1>6 DEF DayInOrder, DayType

\* A demo is counted and given.
LEMMA DayGranted ==
  ASSUME DayType, DayInOrder, NEW o, o \notin granted, granted' = granted \cup {o},
         count' = count + 1, count' <= DailyLimit, slips' = slips,
         Stranded' \subseteq Stranded, Reserving' = Reserving
  PROVE  DayInOrder'
<1>1. /\ IsFiniteSet(Stranded') /\ Cardinality(Stranded') \in Nat /\ Cardinality(Stranded) \in Nat
      /\ Cardinality(Stranded') <= Cardinality(Stranded)
  BY PartOfSet DEF DayInOrder
<1>2. /\ IsFiniteSet(granted') /\ Cardinality(granted) \in Nat
      /\ Cardinality(granted') = Cardinality(granted) + 1
  BY SetWith DEF DayInOrder
<1>3. IsFiniteSet(Reserving) /\ Cardinality(Reserving) \in Nat
  BY FS_CardinalityType DEF DayInOrder
<1>4. PICK k \in 0 .. (DailyLimit - before) :
        /\ Cardinality(granted) + Cardinality(Stranded) <= slips + k
        /\ k + before + Cardinality(Reserving) <= count
  BY DEF DayInOrder
<1>5. /\ Cardinality(granted') + Cardinality(Stranded') <= slips' + (k + 1)
      /\ (k + 1) + before' + Cardinality(Reserving') <= count'
      /\ k + 1 \in 0 .. (DailyLimit - before')
  BY <1>1, <1>2, <1>3, <1>4 DEF DayType
<1>6. slips' = 0 => /\ Stranded' = {}
                    /\ count' = before' + Cardinality(granted') + Cardinality(Reserving')
  BY <1>2, <1>3 DEF DayInOrder, DayType
<1> QED
  BY <1>1, <1>2, <1>3, <1>5, <1>6 DEF DayInOrder

\* A demo over the limit is counted, and is taken off again.
LEMMA DayExceeded ==
  ASSUME DayType, DayInOrder, NEW w, w \notin Reserving, Reserving' = Reserving \cup {w},
         count' = count + 1, slips' = slips, granted' = granted, Stranded' \subseteq Stranded
  PROVE  DayInOrder'
<1>1. /\ IsFiniteSet(Stranded') /\ Cardinality(Stranded') \in Nat /\ Cardinality(Stranded) \in Nat
      /\ Cardinality(Stranded') <= Cardinality(Stranded)
  BY PartOfSet DEF DayInOrder
<1>2. /\ IsFiniteSet(Reserving') /\ Cardinality(Reserving) \in Nat
      /\ Cardinality(Reserving') = Cardinality(Reserving) + 1
  BY SetWith DEF DayInOrder
<1>3. IsFiniteSet(granted) /\ Cardinality(granted) \in Nat
  BY FS_CardinalityType DEF DayInOrder
<1>4. PICK k \in 0 .. (DailyLimit - before) :
        /\ Cardinality(granted) + Cardinality(Stranded) <= slips + k
        /\ k + before + Cardinality(Reserving) <= count
  BY DEF DayInOrder
<1>5. /\ Cardinality(granted') + Cardinality(Stranded') <= slips' + k
      /\ k + before' + Cardinality(Reserving') <= count'
  BY <1>1, <1>2, <1>3, <1>4 DEF DayType
<1>6. slips' = 0 => /\ Stranded' = {}
                    /\ count' = before' + Cardinality(granted') + Cardinality(Reserving')
  BY <1>2, <1>3 DEF DayInOrder, DayType
<1> QED
  BY <1>1, <1>2, <1>3, <1>4, <1>5, <1>6 DEF DayInOrder, DayType

\* The demo over the limit is off the counter again.
LEMMA DayTakenOff ==
  ASSUME DayType, DayInOrder, NEW w \in Reserving, Reserving' = Reserving \ {w},
         count' = count - 1, slips' = slips, granted' = granted, Stranded' \subseteq Stranded
  PROVE  DayInOrder'
<1>1. /\ IsFiniteSet(Stranded') /\ Cardinality(Stranded') \in Nat /\ Cardinality(Stranded) \in Nat
      /\ Cardinality(Stranded') <= Cardinality(Stranded)
  BY PartOfSet DEF DayInOrder
<1>2. /\ IsFiniteSet(Reserving') /\ Cardinality(Reserving) \in Nat
      /\ Cardinality(Reserving') = Cardinality(Reserving) - 1
  BY SetWithout DEF DayInOrder
<1>3. IsFiniteSet(granted) /\ Cardinality(granted) \in Nat
  BY FS_CardinalityType DEF DayInOrder
<1>4. PICK k \in 0 .. (DailyLimit - before) :
        /\ Cardinality(granted) + Cardinality(Stranded) <= slips + k
        /\ k + before + Cardinality(Reserving) <= count
  BY DEF DayInOrder
<1>5. /\ Cardinality(granted') + Cardinality(Stranded') <= slips' + k
      /\ k + before' + Cardinality(Reserving') <= count'
  BY <1>1, <1>2, <1>3, <1>4 DEF DayType
<1>6. slips' = 0 => /\ Stranded' = {}
                    /\ count' = before' + Cardinality(granted') + Cardinality(Reserving')
  BY <1>2, <1>3 DEF DayInOrder, DayType
<1> QED
  BY <1>1, <1>2, <1>3, <1>4, <1>5, <1>6 DEF DayInOrder, DayType

\* A call of Reserve is cut short: one order more may be left with its email.
LEMMA DaySlipped ==
  ASSUME DayType, DayInOrder, NEW o, Stranded' \subseteq Stranded \cup {o},
         Reserving' \subseteq Reserving, slips' = slips + 1, count' = count, granted' = granted
  PROVE  DayInOrder'
<1>1. /\ IsFiniteSet(Stranded \cup {o}) /\ Cardinality(Stranded) \in Nat
      /\ Cardinality(Stranded \cup {o}) <= Cardinality(Stranded) + 1
  <2>1. IsFiniteSet(Stranded) /\ Cardinality(Stranded) \in Nat
    BY FS_CardinalityType DEF DayInOrder
  <2>2. CASE o \in Stranded
    <3>1. Stranded \cup {o} = Stranded
      BY <2>2
    <3>2. Cardinality(Stranded) <= Cardinality(Stranded) + 1
      BY <2>1
    <3> QED
      BY <2>1, <3>1, <3>2
  <2>3. CASE o \notin Stranded
    <3>1. /\ IsFiniteSet(Stranded \cup {o})
          /\ Cardinality(Stranded \cup {o}) = Cardinality(Stranded) + 1
      BY <2>1, <2>3, SetWith
    <3> QED
      BY <2>1, <3>1
  <2> QED
    BY <2>2, <2>3
<1>2. /\ IsFiniteSet(Stranded') /\ Cardinality(Stranded') \in Nat
      /\ Cardinality(Stranded \cup {o}) \in Nat
      /\ Cardinality(Stranded') <= Cardinality(Stranded \cup {o})
  BY <1>1, PartOfSet
<1>3. /\ IsFiniteSet(Reserving') /\ Cardinality(Reserving') \in Nat
      /\ Cardinality(Reserving) \in Nat /\ Cardinality(Reserving') <= Cardinality(Reserving)
  BY PartOfSet DEF DayInOrder
<1>4. IsFiniteSet(granted) /\ Cardinality(granted) \in Nat
  BY FS_CardinalityType DEF DayInOrder
<1>5. PICK k \in 0 .. (DailyLimit - before) :
        /\ Cardinality(granted) + Cardinality(Stranded) <= slips + k
        /\ k + before + Cardinality(Reserving) <= count
  BY DEF DayInOrder
<1>6. /\ Cardinality(granted') + Cardinality(Stranded') <= slips' + k
      /\ k + before' + Cardinality(Reserving') <= count'
  BY <1>1, <1>2, <1>3, <1>4, <1>5 DEF DayType
<1>7. slips' # 0
  BY DEF DayType
<1> QED
  BY <1>2, <1>3, <1>4, <1>5, <1>6, <1>7 DEF DayInOrder, DayType

(* RefusalsCostNothing and WithinDailyLimit: the counter is raised before   *)
(* it is compared, so no demo is given beyond the limit but one that was   *)
(* claimed and cut short before it was counted.                            *)
THEOREM DayIsCounted == Spec => [](RefusalsCostNothing /\ WithinDailyLimit)
<1> DEFINE Inv == DayInOrder /\ RefusedInOrder
<1> USE RequestsAbsent
<1>1. Init => Inv
  <2> SUFFICES ASSUME Init PROVE Inv
    OBVIOUS
  <2>1. granted = {} /\ Stranded = {} /\ Reserving = {}
    BY DEF Init, Stranded, Reserving, Doing, NewWork
  <2>2. DailyLimit - before \in Nat /\ before \in Nat /\ count = before /\ slips = 0
    BY RequestsNumbers DEF Init
  <2>3. DayInOrder
    <3>1. 0 \in 0 .. (DailyLimit - before) /\ 0 + before + 0 <= count /\ 0 + 0 <= slips + 0
      BY <2>2
    <3> QED
      BY <2>1, <2>2, <3>1, FS_EmptySet DEF DayInOrder
  <2>4. RefusedInOrder
    BY DEF Init, RefusedInOrder, Doing, NewWork
  <2> QED
    BY <2>3, <2>4
<1>2. /\ TypeOK /\ TasksInHand /\ EmailsInOrder /\ EmailsInOrder' /\ Inv /\ [Next]_vars
      => Inv'
  <2> SUFFICES ASSUME TypeOK, TasksInHand, EmailsInOrder, EmailsInOrder', Inv, [Next]_vars
               PROVE Inv'
    OBVIOUS
  <2>t. /\ email \in [Attempts -> Emails] /\ owner \in [Emails -> Order] /\ granted \subseteq Attempts
        /\ work \in [Workers -> [
             pc : {"idle", "claim", "owner", "count", "uncount", "rollback", "limit", "start"},
             order : Order, claimed : BOOLEAN]]
        /\ task \in [Attempts -> {"none", "pending", "active", "done"}]
        /\ demo \in [Attempts -> {"none", "limited", "started"}]
        /\ NoOrder \notin Attempts /\ slips \in Nat
    BY DEF TypeOK
  <2>a. /\ \A w \in Workers : work[w].pc # "idle" =>
             work[w].order \in Attempts /\ task[work[w].order] = "active"
        /\ \A w, v \in Workers : work[w].pc # "idle" /\ work[v].pc # "idle"
                                   /\ work[w].order = work[v].order => w = v
        /\ \A r \in Attempts : req[r].pc \in Early => task[r] = "none" /\ demo[r] = "none"
    BY DEF TasksInHand, Doing
  <2>d. before' = before => DayType
    BY DayTyped
  <2> USE DEF Claiming, Doing, Proceed, Rest, NewWork, Mail, requests, client, limits
  \* A step that leaves workers, emails and counters alone.
  <2>0. ASSUME UNCHANGED <<email, before, owner, count, work, granted, slips>> PROVE DayInOrder'
    <3>1. Stranded' = Stranded /\ Reserving' = Reserving
      BY <2>0 DEF Stranded, Reserving
    <3> QED
      BY <2>0, <3>1, <2>d, DayKept
  <2>1. ASSUME NEW w \in Workers, NEW o \in Attempts, TakeDemo(w, o) PROVE Inv'
    <3>1. Stranded' \subseteq Stranded /\ Reserving' = Reserving
      BY <2>1, <2>t DEF TakeDemo, Stranded, Reserving
    <3>2. DayInOrder'
      BY <2>1, <3>1, <2>d, DayKept DEF TakeDemo
    <3>3. RefusedInOrder'
      BY <2>1, <2>t DEF TakeDemo, RefusedInOrder
    <3> QED
      BY <3>2, <3>3
  <2>2. ASSUME NEW w \in Workers, ClaimEmail(w) PROVE Inv'
    <3>1. CASE owner[Mail(w)] = NoOrder /\ Claim(w)
      <4>1. /\ work[w].order \in Attempts /\ task[work[w].order] = "active" /\ work[w].pc = "claim"
            /\ UNCHANGED <<email, before, task, demo, count, granted, slips>>
        BY <2>2, <2>a DEF ClaimEmail
      <4>2. /\ owner' = [owner EXCEPT ![Mail(w)] = work[w].order] /\ work'[w].pc = "count"
            /\ work'[w].order = work[w].order /\ \A v \in Workers : v # w => work'[v] = work[v]
        BY <3>1, <2>t DEF Claim
      <4>3. Stranded' \subseteq Stranded /\ Reserving' = Reserving
        BY <4>1, <4>2, <2>t DEF Stranded, Reserving
      <4>4. DayInOrder'
        BY <4>1, <4>3, <2>d, DayKept
      <4>5. RefusedInOrder'
        BY <4>1, <4>2, <2>t, <2>a DEF RefusedInOrder
      <4> QED
        BY <4>4, <4>5
    <3>2. CASE Proceed(w, "owner") /\ UNCHANGED owner
      <4>1. Stranded' \subseteq Stranded /\ Reserving' = Reserving
        BY <3>2, <2>2, <2>t DEF ClaimEmail, Stranded, Reserving
      <4>2. DayInOrder'
        BY <2>2, <4>1, <2>d, DayKept DEF ClaimEmail
      <4>3. RefusedInOrder'
        BY <3>2, <2>2, <2>t DEF ClaimEmail, RefusedInOrder
      <4> QED
        BY <4>2, <4>3
    <3> QED
      BY <2>2, <3>1, <3>2 DEF ClaimEmail
  <2>3. ASSUME NEW w \in Workers, ReadOwner(w) PROVE Inv'
    <3>0. UNCHANGED <<email, before, owner, count, demo, slips>> /\ work[w].pc = "owner"
      BY <2>3 DEF ReadOwner
    <3>1. CASE owner[Mail(w)] = work[w].order /\ Grant(w) /\ UNCHANGED task
      <4>1. Reserving' = Reserving
        BY <3>0, <3>1, <2>t DEF Grant, Reserving
      <4>2. Stranded' \subseteq Stranded \ {work[w].order}
        BY <3>0, <3>1, <2>t DEF Grant, Stranded
      <4>3. ASSUME work[w].order \in granted PROVE DayInOrder'
        <5>1. granted' = granted /\ Stranded' \subseteq Stranded
          BY <3>1, <4>2, <4>3 DEF Grant
        <5> QED
          BY <3>0, <4>1, <5>1, <2>d, DayKept
      <4>4. ASSUME work[w].order \notin granted PROVE DayInOrder'
        <5>1. work[w].order \in Stranded
          BY <3>0, <3>1, <4>4, <2>a DEF Stranded
        <5> QED
          BY <3>0, <3>1, <4>1, <4>2, <4>4, <5>1, <2>d, DayRegranted DEF Grant
      <4>5. RefusedInOrder'
        BY <3>0, <3>1, <2>t DEF Grant, RefusedInOrder
      <4>6. DayInOrder'
        BY <4>3, <4>4
      <4> QED
        BY <4>5, <4>6
    <3>2. CASE /\ owner[Mail(w)] # work[w].order /\ UNCHANGED granted
               /\ \/ Proceed(w, "limit") /\ UNCHANGED task
                  \/ task' = [task EXCEPT ![work[w].order] = "done"] /\ Rest(w)
      <4>1. Stranded' \subseteq Stranded /\ Reserving' = Reserving
        BY <3>0, <3>2, <2>t DEF Stranded, Reserving
      <4>2. DayInOrder'
        BY <3>0, <3>2, <4>1, <2>d, DayKept
      <4>3. RefusedInOrder'
        BY <3>0, <3>2, <2>t, <2>a DEF RefusedInOrder
      <4> QED
        BY <4>2, <4>3
    <3> QED
      BY <2>3, <3>1, <3>2, <2>a, <3>0 DEF ReadOwner
  <2>4. ASSUME NEW w \in Workers, CountDemo(w) PROVE Inv'
    <3>0. /\ UNCHANGED <<email, before, owner, task, demo, slips>>
          /\ work[w].pc = "count" /\ count' = count + 1
      BY <2>4 DEF CountDemo
    <3>1. CASE Proceed(w, "uncount") /\ UNCHANGED granted
      <4>1. Stranded' \subseteq Stranded /\ Reserving' = Reserving \cup {w} /\ w \notin Reserving
        BY <3>0, <3>1, <2>t DEF Stranded, Reserving
      <4>2. DayInOrder'
        BY <3>0, <3>1, <4>1, <2>d, DayExceeded
      <4>3. RefusedInOrder'
        BY <3>0, <3>1, <2>t DEF RefusedInOrder
      <4> QED
        BY <4>2, <4>3
    <3>2. CASE count' <= DailyLimit /\ Grant(w)
      <4>1. Stranded' \subseteq Stranded /\ Reserving' = Reserving
        BY <3>0, <3>2, <2>t DEF Stranded, Reserving, Grant
      <4>2. work[w].order \notin granted
        BY <3>0 DEF EmailsInOrder
      <4>3. DayInOrder'
        BY <3>0, <3>2, <4>1, <4>2, <2>d, DayGranted DEF Grant
      <4>4. RefusedInOrder'
        BY <3>0, <3>2, <2>t DEF RefusedInOrder, Grant
      <4> QED
        BY <4>3, <4>4
    <3>3. count' > DailyLimit \/ count' <= DailyLimit
      BY <3>0, RequestsNumbers DEF TypeOK
    <3> QED
      BY <2>4, <3>1, <3>2, <3>3 DEF CountDemo
  <2>5. ASSUME NEW w \in Workers, Uncount(w) PROVE Inv'
    <3>1. Stranded' \subseteq Stranded /\ Reserving' = Reserving \ {w} /\ w \in Reserving
      BY <2>5, <2>t DEF Uncount, Stranded, Reserving
    <3>2. DayInOrder'
      BY <2>5, <3>1, <2>d, DayTakenOff DEF Uncount
    <3>3. RefusedInOrder'
      BY <2>5, <2>t DEF Uncount, RefusedInOrder
    <3> QED
      BY <3>2, <3>3
  <2>6. ASSUME NEW w \in Workers, RollbackEmail(w) PROVE Inv'
    <3>0. /\ UNCHANGED <<email, before, count, granted, task, demo, slips>> /\ Proceed(w, "limit")
          /\ work[w].pc = "rollback" /\ owner' = [owner EXCEPT ![Mail(w)] = NoOrder]
      BY <2>6 DEF RollbackEmail, EmailsInOrder
    <3>1. Stranded' \subseteq Stranded /\ Reserving' = Reserving
      BY <3>0, <2>t, <2>a DEF Stranded, Reserving
    <3>2. DayInOrder'
      BY <3>0, <3>1, <2>d, DayKept
    <3>3. RefusedInOrder'
      BY <3>0, <2>t, <2>a DEF RefusedInOrder
    <3> QED
      BY <3>2, <3>3
  \* A run of Reserve that ends before its time, with its email or without.
  <2>7. ASSUME NEW w \in Workers, work[w].pc # "idle", slips' = slips + 1,
               UNCHANGED <<email, before, count, granted, demo>>,
               owner' = owner \/ owner' = [owner EXCEPT ![Mail(w)] = NoOrder],
               \/ Rest(w) \/ Proceed(w, "limit")
               \/ Doing(w, "uncount") /\ Proceed(w, "rollback"),
               \E s \in {"active", "done", "pending"} :
                 task' = [task EXCEPT ![work[w].order] = s]
        PROVE  Inv'
    <3>1. Stranded' \subseteq Stranded \cup {work[w].order}
      BY <2>7, <2>t, <2>a DEF Stranded
    <3>2. Reserving' \subseteq Reserving
      BY <2>7, <2>t DEF Reserving
    <3>3. DayInOrder'
      BY <2>7, <3>1, <3>2, <2>d, DaySlipped
    <3>4. RefusedInOrder'
      BY <2>7, <2>t, <2>a DEF RefusedInOrder
    <3> QED
      BY <3>3, <3>4
  <2>8. ASSUME NEW w \in Workers, ReserveFails(w) PROVE Inv'
    <3>0. /\ UNCHANGED <<email, before, count, granted, demo>> /\ slips' = slips + 1
          /\ work[w].pc # "idle"
      BY <2>8 DEF ReserveFails
    <3>1. owner' = owner \/ owner' = [owner EXCEPT ![Mail(w)] = NoOrder]
      BY <2>8 DEF ReserveFails
    <3>2. \/ Rest(w) \/ Proceed(w, "limit")
          \/ Doing(w, "uncount") /\ Proceed(w, "rollback")
      BY <2>8 DEF ReserveFails
    <3>3. task' = [task EXCEPT ![work[w].order] = "done"] \/ task' = task
      BY <2>8 DEF ReserveFails
    <3>4. task = [task EXCEPT ![work[w].order] = "active"]
      BY <3>0, <2>t, <2>a
    <3> QED
      BY <2>7, <3>0, <3>1, <3>2, <3>3, <3>4
  <2>9. ASSUME NEW w \in Workers, DieWorking(w) PROVE Inv'
    BY <2>9, <2>7 DEF DieWorking
  <2>10. ASSUME NEW w \in Workers, MarkLimited(w) \/ StartDemo(w) PROVE Inv'
    <3>1. /\ UNCHANGED <<email, before, owner, count, granted, slips>> /\ Rest(w)
          /\ ~Claiming(w)
      BY <2>10 DEF MarkLimited, StartDemo
    <3>2. Stranded' \subseteq Stranded /\ Reserving' = Reserving
      BY <3>1, <2>t DEF Stranded, Reserving
    <3>3. DayInOrder'
      BY <3>1, <3>2, <2>d, DayKept
    <3>4. CASE MarkLimited(w)
      BY <3>1, <3>3, <3>4, <2>t, <2>a DEF MarkLimited, RefusedInOrder
    <3>5. CASE StartDemo(w)
      BY <3>1, <3>3, <3>5, <2>t, <2>a DEF StartDemo, RefusedInOrder
    <3> QED
      BY <2>10, <3>4, <3>5
  <2>11. ASSUME NEW r \in Attempts, RequestStep(r) \/ HangUp(r) \/ Die(r) PROVE Inv'
    <3>1. UNCHANGED <<email, before, owner, count, work, granted, slips>>
      BY <2>11, RequestsGiveNoDemo
    <3>2. /\ task' = task
             \/ (req[r].pc \in Early /\ task' = [task EXCEPT ![r] = "pending"] /\ demo' = demo)
          /\ demo' = demo
             \/ (req[r].pc \in Early /\ demo' = [demo EXCEPT ![r] = "limited"] /\ task' = task)
      BY <2>11 DEF RequestStep, Get, Reserve, FailOpen, Reject, CreateOrder, CreateFails, Activate,
        ActivateFails, AllowIP, AllowFails, EnqueueDemoTask, LimitByIP, TriggerFails, Complete, Delete,
        EndFails, HangUp, Die, At, Early
    <3>3. RefusedInOrder'
      BY <3>1, <3>2, <2>t, <2>a DEF RefusedInOrder
    <3> QED
      BY <3>1, <3>3, <2>0
  <2>12. ASSUME NEW k \in Keys, Expire(k) PROVE Inv'
    BY <2>12, <2>0 DEF Expire, history, RefusedInOrder
  <2>13. CASE UNCHANGED vars
    BY <2>13, <2>0 DEF vars, history, RefusedInOrder
  <2> QED
    BY <2>1, <2>2, <2>3, <2>4, <2>5, <2>6, <2>8, <2>9, <2>10, <2>11, <2>12, <2>13
    DEF Next, WorkStep
<1>3. TypeOK /\ Inv => RefusalsCostNothing /\ WithinDailyLimit
  <2> SUFFICES ASSUME TypeOK, Inv PROVE RefusalsCostNothing /\ WithinDailyLimit
    OBVIOUS
  <2>1. RefusalsCostNothing
    BY DEF RefusalsCostNothing, DayInOrder, RefusedInOrder
  <2>2. PICK k \in 0 .. (DailyLimit - before) :
          Cardinality(granted) + Cardinality(Stranded) <= slips + k
    BY DEF DayInOrder
  <2>3. /\ Cardinality(granted) \in Nat /\ Cardinality(Stranded) \in Nat
        /\ DailyLimit \in Nat /\ before \in Nat /\ slips \in Nat
    BY RequestsNumbers, FS_CardinalityType DEF DayInOrder, TypeOK
  <2>4. Cardinality(granted) <= DailyLimit - before + slips
    BY <2>2, <2>3
  <2> QED
    BY <2>1, <2>4 DEF WithinDailyLimit
<1> QED
  BY <1>1, <1>2, <1>3, RequestsTypeCorrect, OneDemoPerEmailHolds, PTL DEF Spec

(* RefusalsCostNothing: without a slip the counter is exact, and an order   *)
(* that is refused does not hold its email.                                *)
THEOREM RefusalsCostNothingHolds == Spec => []RefusalsCostNothing
  BY DayIsCounted, PTL

(* WithinDailyLimit: only a slip lets a demo pass beside the counter.       *)
THEOREM WithinDailyLimitHolds == Spec => []WithinDailyLimit
  BY DayIsCounted, PTL
=============================================================================
