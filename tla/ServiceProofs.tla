--------------------------- MODULE ServiceProofs ----------------------------
(* Starting processes and their migrations, for any instances, images,     *)
(* settings and bounds.                                                    *)
EXTENDS Service, TLAPS, FiniteSetTheorems, SequenceTheorems,
  WellFoundedInduction

Most == Max({PingTries, LockTries})
Stages == {"down", "load", "keys", "postgres", "lock", "versions", "migrate", "redis",
           "serve", "work", "drain"}
Process == [
  pc : Stages, image : 0 .. Images, tries : 0 .. Most - 1, todo : SUBSET Migrations,
  alive : BOOLEAN, requests : 0 .. MaxRequests]

\* Whoever migrates over a session that lives holds the lock, and there is one.
LockHeld == \A i \in Instances : Migrating(i) => lock = i

\* The schema is the first migrations in their order, and the table has their rows.
InOrder ==
  /\ versions = 1 .. Len(schema)
  /\ schema = [n \in 1 .. Len(schema) |-> n]

\* What an instance has still to apply is what is missing: exactly while its session
\* lives, at least afterwards; and behind it nothing is missing.
Lacking(i) == (1 .. inst[i].image) \ versions
Past(i) == inst[i].pc \in {"redis", "serve", "work", "drain"}
Complete(i) ==
  /\ At(i, "migrate") => Lacking(i) \subseteq inst[i].todo
  /\ At(i, "migrate") /\ inst[i].alive => inst[i].todo = Lacking(i)
  /\ Past(i) => 1 .. inst[i].image \subseteq versions
NothingMissing == \A i \in Instances : Complete(i)

\* The larger of two numbers of tries.
LEMMA MostTries ==
  Most \in Nat \ {0} /\ PingTries <= Most /\ LockTries <= Most
<1>1. \E x \in {PingTries, LockTries} : \A y \in {PingTries, LockTries} : x >= y
  BY ServiceNumbers
<1>2. Most \in {PingTries, LockTries} /\ \A y \in {PingTries, LockTries} : Most >= y
  BY <1>1, Zenon DEF Most, Max
<1> QED
  BY <1>2, ServiceNumbers

\* A set of numbers that is not empty has a least one.
LEMMA LeastNumber ==
  ASSUME NEW S \in SUBSET Nat, S # {}
  PROVE  Min(S) \in S /\ \A x \in S : Min(S) <= x
<1> DEFINE R == {ss \in Nat \X Nat : ss[1] < ss[2]}
<1>1. IsWellFoundedOn(R, Nat)
  BY NatLessThanWellFounded DEF OpToRel
<1>2. PICK x \in S : \A y \in S : ~ (<<y, x>> \in R)
  <2> HIDE DEF R
  <2> QED
    BY <1>1, WFMin
<1>3. ASSUME NEW y \in S PROVE x <= y
  <2>1. ~ (<<y, x>> \in R) /\ x \in Nat /\ y \in Nat
    BY <1>2
  <2> QED
    BY <2>1
<1>4. \E z \in S : \A y \in S : z <= y
  BY <1>3
<1> QED
  BY <1>4, Zenon DEF Min

\* A process stays one when a step changes its fields.
LEMMA ProcessFields ==
  ASSUME NEW b \in Process
  PROVE  /\ \A pc \in Stages : [b EXCEPT !.pc = pc, !.tries = 0] \in Process
         /\ [b EXCEPT !.pc = "lock", !.tries = 0, !.alive = TRUE] \in Process
         /\ [b EXCEPT !.alive = FALSE] \in Process
         /\ \A n \in 0 .. Most - 1 : [b EXCEPT !.tries = n] \in Process
         /\ \A n \in 0 .. MaxRequests : [b EXCEPT !.requests = n] \in Process
         /\ \A files \in SUBSET Migrations : /\ [b EXCEPT !.todo = files] \in Process
                                             /\ [b EXCEPT !.pc = "migrate", !.todo = files] \in Process
         /\ \A v \in Migrations : [b EXCEPT !.pc = "load", !.image = v] \in Process
<1>1. 0 \in 0 .. Most - 1 /\ Migrations \subseteq 0 .. Images
  BY MostTries, ServiceNumbers DEF Migrations
<1> QED
  BY <1>1 DEF Process, Stages

(* Every variable has its type.                                            *)
THEOREM ServiceTypeCorrect == Spec => []TypeOK
<1> USE ServiceNumbers, ServiceAbsent, MostTries
<1>1. Init => TypeOK
  <2>1. Down \in Process
    BY DEF Down, Process, Stages
  <2>2. Init => inst \in [Instances -> Process]
    BY <2>1 DEF Init
  <2> QED
    <3> SUFFICES ASSUME Init PROVE TypeOK
      OBVIOUS
    <3>1. inst \in [Instances -> Process]
      BY <2>2
    <3>2. schema \in Seq(Migrations) /\ versions \subseteq Migrations
      BY EmptySeq DEF Init
    <3>3. /\ lock \in Instances \cup {Nobody, Orphan} /\ up \subseteq Servers
          /\ setting \in [Instances -> Settings] /\ image \in [Instances -> Migrations]
          /\ deploys \in 0 .. MaxDeploys /\ faults \in 0 .. MaxFaults
      BY DEF Init
    <3> QED
      BY <3>1, <3>2, <3>3 DEF TypeOK, Process, Stages, Most
<1>2. TypeOK /\ [Next]_vars => TypeOK'
  <2> SUFFICES ASSUME TypeOK, [Next]_vars PROVE TypeOK'
    OBVIOUS
  <2>t. /\ inst \in [Instances -> Process] /\ lock \in Instances \cup {Nobody, Orphan}
        /\ setting \in [Instances -> Settings] /\ image \in [Instances -> Migrations]
        /\ schema \in Seq(Migrations) /\ versions \subseteq Migrations /\ up \subseteq Servers
        /\ deploys \in 0 .. MaxDeploys /\ faults \in 0 .. MaxFaults
    BY DEF TypeOK, Process, Stages, Most
  <2>q. ASSUME inst' \in [Instances -> Process], lock' \in Instances \cup {Nobody, Orphan},
               UNCHANGED <<database, setting, image>>, up' \subseteq Servers,
               deploys' \in 0 .. MaxDeploys, faults' \in 0 .. MaxFaults
        PROVE  TypeOK'
    BY <2>t, <2>q DEF TypeOK, Process, Stages, Most, database
  <2>d. Down \in Process /\ \A v \in Migrations : [Down EXCEPT !.pc = "load", !.image = v] \in Process
    <3>1. Down \in Process
      BY DEF Down, Process, Stages
    <3> QED
      BY <3>1, ProcessFields
  <2>e. ASSUME NEW i \in Instances, Exit(i)
        PROVE  inst' \in [Instances -> Process] /\ lock' \in Instances \cup {Nobody, Orphan}
    BY <2>t, <2>d, <2>e DEF Exit
  <2>g. ASSUME NEW i \in Instances, Again(i, PingTries) \/ Again(i, LockTries)
        PROVE  inst' \in [Instances -> Process] /\ lock' \in Instances \cup {Nobody, Orphan}
    <3>1. CASE Exit(i)
      BY <3>1, <2>e
    <3>2. CASE /\ inst' = [inst EXCEPT ![i].tries = @ + 1] /\ UNCHANGED lock
               /\ inst[i].tries + 1 < PingTries \/ inst[i].tries + 1 < LockTries
      <4>1. inst[i].tries + 1 \in 0 .. Most - 1
        BY <3>2, <2>t DEF Process
      <4> QED
        BY <3>2, <4>1, <2>t, ProcessFields
    <3> QED
      BY <2>g, <3>1, <3>2 DEF Again
  <2>h. ASSUME NEW i \in Instances,
               NEW pc \in {"keys", "postgres", "versions", "migrate", "redis", "serve", "work", "drain"},
               Goto(i, pc)
        PROVE  inst' \in [Instances -> Process]
    BY <2>h, <2>t, ProcessFields DEF Goto, Stages
  <2>0. CASE UNCHANGED vars
    BY <2>0 DEF vars, TypeOK, database
  <2>1. ASSUME NEW i \in Instances, Boot(i) PROVE TypeOK'
    <3>1. CASE Start(i)
      BY <3>1, <2>t, <2>d, <2>q DEF Start, outside
    <3>2. CASE LoadConfig(i)
      BY <3>2, <2>t, <2>e, <2>h, <2>q DEF LoadConfig, outside
    <3>3. CASE BuildKeys(i)
      BY <3>3, <2>t, <2>e, <2>h, <2>q DEF BuildKeys, outside
    <3>4. CASE PingPostgres(i)
      <4>1. [inst EXCEPT ![i].pc = "lock", ![i].tries = 0, ![i].alive = TRUE] \in [Instances -> Process]
        BY <2>t, ProcessFields
      <4> QED
        BY <3>4, <4>1, <2>t, <2>g, <2>q DEF PingPostgres, outside
    <3>5. CASE AcquireLock(i)
      BY <3>5, <2>t, <2>h, <2>q DEF AcquireLock, TryLock, outside
    <3>6. CASE LockIsTaken(i)
      BY <3>6, <2>t, <2>g, <2>q DEF LockIsTaken, outside
    <3>7. CASE AppliedVersions(i)
      <4>1. (1 .. inst[i].image) \ versions \in SUBSET Migrations
        BY <2>t DEF Process, Migrations
      <4>2. inst' \in [Instances -> Process]
        BY <3>7, <4>1, <2>t, ProcessFields DEF AppliedVersions
      <4> QED
        BY <3>7, <4>2, <2>t, <2>q DEF AppliedVersions, outside
    <3>8. CASE ApplyMigration(i)
      <4>1. PICK m \in Migrations : /\ schema' = Append(schema, m) /\ versions' = versions \cup {m}
                                    /\ inst' = [inst EXCEPT ![i].todo = @ \ {m}]
        <5>1. inst[i].todo \subseteq Migrations /\ inst[i].todo # {}
          BY <3>8, <2>t DEF ApplyMigration, Process
        <5>2. NextFile(inst[i].todo) \in inst[i].todo
          BY <5>1, LeastNumber DEF Migrations, NextFile
        <5> QED
          BY <3>8, <5>1, <5>2 DEF ApplyMigration
      <4>2. inst' \in [Instances -> Process]
        <5>1. inst[i].todo \ {m} \in SUBSET Migrations
          BY <2>t DEF Process
        <5> QED
          BY <4>1, <5>1, <2>t, ProcessFields
      <4>3. schema' \in Seq(Migrations)
        BY <4>1, <2>t, AppendProperties
      <4> QED
        BY <3>8, <4>1, <4>2, <4>3, <2>t DEF ApplyMigration, TypeOK, Process, Stages, Most, outside
    <3>9. CASE FinishRun(i)
      BY <3>9, <2>t, <2>h, <2>q DEF FinishRun, outside
    <3>10. CASE ConnectionLost(i)
      BY <3>10, <2>t, <2>e, <2>q DEF ConnectionLost, outside
    <3>11. CASE PingRedis(i)
      BY <3>11, <2>t, <2>g, <2>h, <2>q DEF PingRedis, outside
    <3>12. CASE Shutdown(i)
      BY <3>12, <2>t, <2>e, <2>q DEF Shutdown, outside
    <3> QED
      BY <2>1, <3>1, <3>2, <3>3, <3>4, <3>5, <3>6, <3>7, <3>8, <3>9, <3>10, <3>11, <3>12 DEF Boot
  <2>2. ASSUME NEW i \in Instances, AcceptRequest(i) \/ AnswerRequest(i) PROVE TypeOK'
    <3>1. inst[i].requests \in 0 .. MaxRequests
      BY <2>t DEF Process
    <3>2. CASE AcceptRequest(i)
      <4>1. inst[i].requests + 1 \in 0 .. MaxRequests
        BY <3>1, <3>2 DEF AcceptRequest
      <4>2. inst' \in [Instances -> Process]
        BY <3>2, <4>1, <2>t, ProcessFields DEF AcceptRequest
      <4> QED
        BY <3>2, <4>2, <2>t, <2>q DEF AcceptRequest, outside
    <3>3. CASE AnswerRequest(i)
      <4>1. inst[i].requests - 1 \in 0 .. MaxRequests
        BY <3>1, <3>3 DEF AnswerRequest
      <4>2. inst' \in [Instances -> Process]
        BY <3>3, <4>1, <2>t, ProcessFields DEF AnswerRequest
      <4> QED
        BY <3>3, <4>2, <2>t, <2>q DEF AnswerRequest, outside
    <3> QED
      BY <2>2, <3>2, <3>3
  <2>3. ASSUME NEW i \in Instances, ServeFails(i) PROVE TypeOK'
    BY <2>3, <2>t, <2>e, <2>q DEF ServeFails
  <2>4. ASSUME NEW i \in Instances, NEW v \in Migrations, Signal(i, v) PROVE TypeOK'
    <3>1. inst' \in [Instances -> Process] /\ lock' \in Instances \cup {Nobody, Orphan}
      BY <2>4, <2>t, <2>e, <2>h DEF Signal
    <3>2. image' \in [Instances -> Migrations] /\ deploys' \in 0 .. MaxDeploys
      BY <2>4, <2>t DEF Signal
    <3> QED
      BY <2>4, <3>1, <3>2, <2>t DEF Signal, TypeOK, Process, Stages, Most, database
  <2>5. ASSUME NEW i \in Instances, Kill(i) PROVE TypeOK'
    <3>1. inst' \in [Instances -> Process] /\ lock' \in Instances \cup {Nobody, Orphan}
      BY <2>5, <2>t, <2>d DEF Kill
    <3> QED
      BY <2>5, <3>1, <2>t, <2>q DEF Kill
  <2>6. ASSUME NEW i \in Instances, Recycle(i) PROVE TypeOK'
    BY <2>6, <2>t, <2>q DEF Recycle, outside
  <2>7. CASE Reap
    BY <2>7, <2>t, <2>q DEF Reap, outside
  <2>8. ASSUME NEW s \in Servers, Outage(s) PROVE TypeOK'
    <3>1. inst' \in [Instances -> Process] /\ lock' \in Instances \cup {Nobody, Orphan}
      <4>1. \A i \in Instances : [inst[i] EXCEPT !.alive = FALSE] \in Process
        BY <2>t, ProcessFields
      <4> QED
        BY <2>8, <4>1, <2>t DEF Outage
    <3> QED
      BY <2>8, <3>1, <2>t, <2>q DEF Outage
  <2>9. ASSUME NEW s \in Servers, ComesBack(s) PROVE TypeOK'
    BY <2>9, <2>t, <2>q DEF ComesBack
  <2> QED
    BY <2>0, <2>1, <2>2, <2>3, <2>4, <2>5, <2>6, <2>7, <2>8, <2>9 DEF Next
<1> QED
  BY <1>1, <1>2, PTL DEF Spec

-----------------------------------------------------------------------------
(* The lock and the schema.                                                *)

\* Under the lock, the next file is the first that the schema lacks.
LEMMA NextFileIsNext ==
  ASSUME TypeOK, InOrder, NothingMissing, NEW i \in Instances,
         At(i, "migrate"), inst[i].alive, inst[i].todo # {}
  PROVE  NextFile(inst[i].todo) = Len(schema) + 1
<1>1. inst[i].image \in Nat /\ Len(schema) \in Nat
  BY LenProperties, ServiceNumbers DEF TypeOK
<1>2. inst[i].todo = (1 .. inst[i].image) \ (1 .. Len(schema))
  BY DEF NothingMissing, Complete, Lacking, InOrder
<1>3. Min(inst[i].todo) \in inst[i].todo /\ \A x \in inst[i].todo : Min(inst[i].todo) <= x
  BY <1>1, <1>2, LeastNumber
<1>4. Len(schema) + 1 \in inst[i].todo
  BY <1>1, <1>2
<1> QED
  <2> DEFINE m == Min(inst[i].todo)
  <2>1. m <= Len(schema) + 1
    BY <1>3, <1>4
  <2>2. m \in (1 .. inst[i].image) \ (1 .. Len(schema))
    BY <1>2, <1>3
  <2> HIDE DEF m
  <2>3. m = Len(schema) + 1
    BY <1>1, <2>1, <2>2
  <2> QED
    BY <2>3 DEF m, NextFile

(* OneMigrator: the lock is taken when it is free, and whoever loses it has *)
(* lost its session or stopped migrating.                                  *)
THEOREM OneMigratorHolds == Spec => [](LockHeld /\ OneMigrator)
<1> USE ServiceAbsent DEF At
<1>1. Init => LockHeld
  BY DEF Init, LockHeld, Migrating, Down
<1>2. TypeOK /\ LockHeld /\ [Next]_vars => LockHeld'
  <2> SUFFICES ASSUME TypeOK, LockHeld, [Next]_vars, NEW j \in Instances, Migrating(j)'
               PROVE  lock' = j
    BY DEF LockHeld
  <2>t. inst \in [Instances -> Process]
    BY DEF TypeOK, Process, Stages, Most
  <2>h. Migrating(j) => lock = j
    BY DEF LockHeld
  <2>e. ASSUME NEW i \in Instances, Exit(i) PROVE lock' = j
    BY <2>e, <2>t, <2>h DEF Exit, Migrating, Down
  <2>g. ASSUME NEW i \in Instances, NEW most, Again(i, most) PROVE lock' = j
    <3>1. CASE Exit(i)
      BY <3>1, <2>e
    <3>2. CASE inst' = [inst EXCEPT ![i].tries = @ + 1] /\ UNCHANGED lock
      BY <3>2, <2>t, <2>h DEF Migrating
    <3> QED
      BY <2>g, <3>1, <3>2 DEF Again
  <2>m. ASSUME NEW i \in Instances, UNCHANGED lock,
               NEW pc \in {"keys", "postgres", "migrate", "redis", "serve", "work", "drain"},
               Goto(i, pc), pc = "migrate" => At(i, "versions")
        PROVE  lock' = j
    BY <2>m, <2>t, <2>h DEF Goto, Migrating
  <2>0. CASE UNCHANGED vars
    BY <2>0, <2>h DEF vars, Migrating
  <2>1. ASSUME NEW i \in Instances, Boot(i) PROVE lock' = j
    <3>1. CASE Start(i) \/ AppliedVersions(i) \/ FinishRun(i)
      <4>1. CASE Start(i)
        BY <4>1, <2>t, <2>h DEF Start, Migrating, Down
      <4>2. CASE AppliedVersions(i)
        BY <4>2, <2>t, <2>h DEF AppliedVersions, Migrating
      <4>3. CASE FinishRun(i)
        BY <4>3, <2>m DEF FinishRun
      <4> QED
        BY <3>1, <4>1, <4>2, <4>3
    <3>2. CASE LoadConfig(i) \/ BuildKeys(i)
      BY <3>2, <2>e, <2>m DEF LoadConfig, BuildKeys
    <3>3. CASE PingPostgres(i) \/ LockIsTaken(i) \/ PingRedis(i)
      <4>1. CASE PingPostgres(i)
        <5>1. CASE Again(i, PingTries)
          BY <5>1, <2>g
        <5>2. CASE /\ inst' = [inst EXCEPT ![i].pc = "lock", ![i].tries = 0, ![i].alive = TRUE]
                   /\ UNCHANGED lock
          BY <5>2, <2>t, <2>h DEF Migrating, Process
        <5> QED
          BY <4>1, <5>1, <5>2 DEF PingPostgres
      <4>2. CASE LockIsTaken(i)
        BY <4>2, <2>g DEF LockIsTaken
      <4>3. CASE PingRedis(i)
        BY <4>3, <2>g, <2>m DEF PingRedis
      <4> QED
        BY <3>3, <4>1, <4>2, <4>3
    <3>4. CASE AcquireLock(i)
      BY <3>4, <2>t, <2>h DEF AcquireLock, TryLock, Goto, Migrating
    <3>5. CASE ApplyMigration(i)
      BY <3>5, <2>t, <2>h DEF ApplyMigration, Migrating
    <3>6. CASE ConnectionLost(i) \/ Shutdown(i)
      BY <3>6, <2>e DEF ConnectionLost, Shutdown
    <3> QED
      BY <2>1, <3>1, <3>2, <3>3, <3>4, <3>5, <3>6 DEF Boot
  <2>2. ASSUME NEW i \in Instances, AcceptRequest(i) \/ AnswerRequest(i) PROVE lock' = j
    <3>1. CASE AcceptRequest(i)
      BY <3>1, <2>t, <2>h DEF AcceptRequest, Migrating
    <3>2. CASE AnswerRequest(i)
      BY <3>2, <2>t, <2>h DEF AnswerRequest, Migrating
    <3> QED
      BY <2>2, <3>1, <3>2
  <2>3. ASSUME NEW i \in Instances,
               ServeFails(i) \/ \E v \in Migrations : Signal(i, v)
        PROVE  lock' = j
    <3>1. CASE ServeFails(i)
      BY <3>1, <2>e DEF ServeFails
    <3>2. ASSUME NEW v \in Migrations, Signal(i, v) PROVE lock' = j
      <4>1. CASE Exit(i)
        BY <4>1, <2>e
      <4>2. CASE Goto(i, "drain") /\ UNCHANGED lock
        BY <4>2, <2>t, <2>h DEF Goto, Migrating
      <4> QED
        BY <3>2, <4>1, <4>2 DEF Signal
    <3> QED
      BY <2>3, <3>1, <3>2
  <2>4. ASSUME NEW i \in Instances, Kill(i) \/ Recycle(i) PROVE lock' = j
    BY <2>4, <2>t, <2>h DEF Kill, Recycle, Migrating, Down
  <2>5. CASE Reap
    BY <2>5, <2>h DEF Reap, Migrating
  <2>6. ASSUME NEW s \in Servers, Outage(s) \/ ComesBack(s) PROVE lock' = j
    <3>1. CASE Outage(s)
      <4>1. CASE s = "postgres"
        <5>1. inst'[j] = [inst[j] EXCEPT !.alive = FALSE] /\ inst[j] \in Process
          BY <3>1, <4>1, <2>t DEF Outage
        <5>2. ~ inst'[j].alive
          BY <5>1 DEF Process
        <5> QED
          BY <5>2 DEF Migrating
      <4>2. CASE s # "postgres"
        BY <3>1, <4>2, <2>h DEF Outage, Migrating
      <4> QED
        BY <4>1, <4>2
    <3>2. CASE ComesBack(s)
      BY <3>2, <2>t, <2>h DEF ComesBack, Migrating
    <3> QED
      BY <2>6, <3>1, <3>2
  <2> QED
    BY <2>0, <2>1, <2>2, <2>3, <2>4, <2>5, <2>6 DEF Next
<1>3. LockHeld => OneMigrator
  BY DEF LockHeld, OneMigrator
<1> QED
  BY <1>1, <1>2, <1>3, ServiceTypeCorrect, PTL DEF Spec

\* The sequence of the first numbers, with the next one behind it.
LEMMA OneMigrationMore ==
  ASSUME NEW S, schema \in Seq(S), InOrder, Len(schema) + 1 \in S,
         schema' = Append(schema, Len(schema) + 1),
         versions' = versions \cup {Len(schema) + 1}
  PROVE  InOrder'
<1>1. Len(schema) \in Nat /\ Len(schema') = Len(schema) + 1 /\ schema' \in Seq(S)
  BY LenProperties, AppendProperties
<1>2. versions' = 1 .. Len(schema')
  BY <1>1 DEF InOrder
<1>3. \A n \in 1 .. Len(schema') : schema'[n] = n
  <2> SUFFICES ASSUME NEW n \in 1 .. Len(schema') PROVE schema'[n] = n
    OBVIOUS
  <2>1. CASE n = Len(schema) + 1
    BY <1>1, <2>1, AppendProperties
  <2>2. CASE n \in 1 .. Len(schema)
    BY <1>1, <2>2, AppendProperties DEF InOrder
  <2> QED
    BY <1>1, <2>1, <2>2
<1>4. schema' \in [1 .. Len(schema') -> S]
  BY <1>1, LenProperties
<1>5. schema' = [n \in 1 .. Len(schema') |-> n]
  BY <1>3, <1>4
<1> QED
  BY <1>2, <1>5 DEF InOrder

(* AppliedOnce and ServesMigrated: only the holder of the lock adds to the  *)
(* schema, the file that comes next, and an instance goes on when none of  *)
(* its own is missing.                                                     *)
THEOREM MigrationsInOrder == Spec => [](InOrder /\ NothingMissing)
<1> USE ServiceNumbers, ServiceAbsent DEF At
<1> DEFINE Inv == InOrder /\ NothingMissing
<1>1. Init => Inv
  <2> SUFFICES ASSUME Init PROVE Inv
    OBVIOUS
  <2>1. InOrder
    BY EmptySeq DEF Init, InOrder
  <2>2. NothingMissing
    BY DEF Init, NothingMissing, Complete, Past, Down
  <2> QED
    BY <2>1, <2>2
<1>2. TypeOK /\ LockHeld /\ Inv /\ [Next]_vars => Inv'
  <2> SUFFICES ASSUME TypeOK, LockHeld, Inv, [Next]_vars PROVE Inv'
    OBVIOUS
  <2>t. inst \in [Instances -> Process]
    BY DEF TypeOK, Process, Stages, Most
  <2>d. UNCHANGED database => InOrder'
    BY DEF database, InOrder
  <2>1. ASSUME NEW i \in Instances, ApplyMigration(i) PROVE Inv'
    <3> DEFINE m == Len(schema) + 1
    <3>1. /\ At(i, "migrate") /\ inst[i].alive /\ inst[i].todo # {}
          /\ schema' = Append(schema, m) /\ versions' = versions \cup {m}
          /\ inst' = [inst EXCEPT ![i].todo = @ \ {m}]
      BY <2>1, NextFileIsNext DEF ApplyMigration
    <3>2. InOrder'
      <4>1. NextFile(inst[i].todo) \in inst[i].todo /\ inst[i].todo \subseteq Migrations
        <5>1. inst[i].todo \subseteq Migrations
          BY <2>t DEF Process
        <5> QED
          BY <3>1, <5>1, LeastNumber DEF NextFile, Migrations
      <4>2. m \in Migrations
        BY <3>1, <4>1, NextFileIsNext
      <4>3. schema \in Seq(Migrations)
        BY DEF TypeOK
      <4> QED
        BY <3>1, <4>2, <4>3, OneMigrationMore
    <3>3. ASSUME NEW j \in Instances PROVE Complete(j)'
      <4>1. Complete(j) /\ Complete(i) /\ (j # i /\ At(j, "migrate") => ~inst[j].alive)
        BY <3>1 DEF NothingMissing, LockHeld, Migrating
      <4>2. CASE j = i
        BY <3>1, <4>1, <4>2, <2>t DEF Complete, Lacking, Past, Process
      <4>3. CASE j # i
        BY <3>1, <4>1, <4>3, <2>t DEF Complete, Lacking, Past
      <4> QED
        BY <4>2, <4>3
    <3> QED
      BY <3>2, <3>3 DEF NothingMissing
  <2>2. ASSUME UNCHANGED database, NEW j \in Instances PROVE Complete(j)'
    <3>c. Complete(j) /\ inst[j] \in Process
      BY <2>t DEF NothingMissing
    <3>v. versions' = versions
      BY <2>2 DEF database
    <3>s. ASSUME inst'[j].image = inst[j].image, Past(j)' => Past(j),
                 At(j, "migrate")' => /\ At(j, "migrate") /\ inst'[j].todo = inst[j].todo
                                      /\ inst'[j].alive => inst[j].alive
          PROVE  Complete(j)'
      BY <3>c, <3>v, <3>s DEF Complete, Lacking
    <3>n. ASSUME inst'[j].pc \notin {"migrate", "redis", "serve", "work", "drain"}
          PROVE  Complete(j)'
      BY <3>n DEF Complete, Past
    <3>e. ASSUME NEW i \in Instances, Exit(i) PROVE Complete(j)'
      BY <3>e, <3>s, <3>n, <2>t DEF Exit, Down, Past
    <3>g. ASSUME NEW i \in Instances, Again(i, PingTries) \/ Again(i, LockTries)
          PROVE  Complete(j)'
      <4>1. CASE Exit(i)
        BY <4>1, <3>e
      <4>2. CASE inst' = [inst EXCEPT ![i].tries = @ + 1]
        BY <4>2, <3>s, <2>t DEF Past, Process
      <4> QED
        BY <3>g, <4>1, <4>2 DEF Again
    <3>m. ASSUME NEW i \in Instances,
                 NEW pc \in {"keys", "postgres", "versions", "serve", "work", "drain"},
                 Goto(i, pc), pc \in {"serve", "work", "drain"} => Past(i)
          PROVE  Complete(j)'
      BY <3>m, <3>s, <3>n, <2>t DEF Goto, Past, Process
    <3>0. CASE UNCHANGED vars
      BY <3>0, <3>s DEF vars, Past
    <3>1. ASSUME NEW i \in Instances, Boot(i), ~ApplyMigration(i) PROVE Complete(j)'
      <4>1. CASE Start(i)
        BY <4>1, <3>s, <3>n, <2>t DEF Start, Down, Past
      <4>2. CASE LoadConfig(i) \/ BuildKeys(i)
        BY <4>2, <3>e, <3>m DEF LoadConfig, BuildKeys
      <4>3. CASE PingPostgres(i)
        <5>1. CASE inst' = [inst EXCEPT ![i].pc = "lock", ![i].tries = 0, ![i].alive = TRUE]
          BY <5>1, <3>s, <3>n, <2>t DEF Past, Process
        <5> QED
          BY <4>3, <5>1, <3>g DEF PingPostgres
      <4>4. CASE AcquireLock(i) \/ LockIsTaken(i)
        BY <4>4, <3>g, <3>m DEF AcquireLock, LockIsTaken
      <4>5. CASE AppliedVersions(i)
        <5>1. inst' = [inst EXCEPT ![i].pc = "migrate", ![i].todo = Lacking(i)]
          BY <4>5 DEF AppliedVersions, Lacking
        <5>2. CASE j = i
          BY <5>1, <5>2, <3>c, <3>v, <2>t DEF Complete, Past, Lacking, Process
        <5>3. CASE j # i
          BY <5>1, <5>3, <3>s, <2>t DEF Past
        <5> QED
          BY <5>2, <5>3
      <4>6. CASE FinishRun(i)
        <5>1. CASE j = i
          BY <4>6, <5>1, <3>c, <3>v, <2>t DEF FinishRun, Goto, Complete, Past, Lacking, Process
        <5>2. CASE j # i
          BY <4>6, <5>2, <3>s, <2>t DEF FinishRun, Goto, Past
        <5> QED
          BY <5>1, <5>2
      <4>7. CASE ConnectionLost(i) \/ Shutdown(i)
        BY <4>7, <3>e DEF ConnectionLost, Shutdown
      <4>8. CASE PingRedis(i)
        BY <4>8, <3>g, <3>m DEF PingRedis, Past
      <4> QED
        BY <3>1, <4>1, <4>2, <4>3, <4>4, <4>5, <4>6, <4>7, <4>8 DEF Boot
    <3>2. ASSUME NEW i \in Instances, AcceptRequest(i) PROVE Complete(j)'
      BY <3>2, <3>s, <2>t DEF AcceptRequest, Past, Process
    <3>3. ASSUME NEW i \in Instances, AnswerRequest(i) PROVE Complete(j)'
      BY <3>3, <3>s, <2>t DEF AnswerRequest, Past, Process
    <3>4. ASSUME NEW i \in Instances, ServeFails(i) PROVE Complete(j)'
      BY <3>4, <3>e DEF ServeFails
    <3>5. ASSUME NEW i \in Instances, NEW v \in Migrations, Signal(i, v) PROVE Complete(j)'
      BY <3>5, <3>e, <3>m DEF Signal, Past
    <3>6. ASSUME NEW i \in Instances, Kill(i) PROVE Complete(j)'
      BY <3>6, <3>s, <3>n, <2>t DEF Kill, Down, Past
    <3>7. ASSUME inst' = inst PROVE Complete(j)'
      BY <3>7, <3>s DEF Past
    <3>8. ASSUME NEW s \in Servers, Outage(s) PROVE Complete(j)'
      <4>1. CASE s = "postgres"
        <5>1. inst'[j] = [inst[j] EXCEPT !.alive = FALSE]
          BY <3>8, <4>1 DEF Outage
        <5> QED
          BY <5>1, <3>c, <3>s DEF Past, Process
      <4>2. CASE s # "postgres"
        BY <3>8, <4>2, <3>7 DEF Outage
      <4> QED
        BY <4>1, <4>2
    <3> QED
      <4>1. ASSUME NEW i \in Instances, ApplyMigration(i) PROVE Complete(j)'
        BY <4>1, <2>1 DEF NothingMissing
      <4> QED
        BY <4>1, <3>0, <3>1, <3>2, <3>3, <3>4, <3>5, <3>6, <3>7, <3>8
        DEF Next, Recycle, Reap, ComesBack
  <2>3. UNCHANGED database \/ \E i \in Instances : ApplyMigration(i)
    BY DEF Next, vars, Boot, Start, LoadConfig, BuildKeys, PingPostgres, AcquireLock, LockIsTaken,
      AppliedVersions, FinishRun, ConnectionLost, PingRedis, Shutdown, AcceptRequest,
      AnswerRequest, ServeFails, Signal, Kill, Recycle, Reap, Outage, ComesBack, database
  <2> QED
    BY <2>d, <2>1, <2>2, <2>3 DEF NothingMissing
<1> QED
  BY <1>1, <1>2, OneMigratorHolds, ServiceTypeCorrect, PTL DEF Spec

(* AppliedOnce: the SQL of each migration once, in order, as recorded.      *)
THEOREM AppliedOnceHolds == Spec => []AppliedOnce
<1>1. TypeOK /\ InOrder => AppliedOnce
  <2> SUFFICES ASSUME TypeOK, InOrder PROVE AppliedOnce
    OBVIOUS
  <2>1. Len(schema) \in Nat
    BY LenProperties DEF TypeOK
  <2>2. Cardinality(versions) = Len(schema)
    <3>1. Cardinality(1 .. Len(schema)) = IF 1 > Len(schema) THEN 0 ELSE Len(schema) - 1 + 1
      BY <2>1, FS_Interval
    <3> QED
      BY <2>1, <3>1 DEF InOrder
  <2> QED
    BY <2>2 DEF InOrder, AppliedOnce
<1> QED
  BY <1>1, ServiceTypeCorrect, MigrationsInOrder, PTL

(* ServesMigrated: nobody serves over a schema older than its image.        *)
THEOREM ServesMigratedHolds == Spec => []ServesMigrated
<1>1. TypeOK /\ InOrder /\ NothingMissing => ServesMigrated
  <2> SUFFICES ASSUME TypeOK, InOrder, NothingMissing, NEW i \in Instances, Serving(i)
               PROVE  1 .. inst[i].image \subseteq Range(schema)
    BY DEF ServesMigrated
  <2>1. 1 .. inst[i].image \subseteq versions
    BY DEF NothingMissing, Complete, Past, Serving
  <2>2. \A n \in versions : n \in DOMAIN schema /\ schema[n] = n
    BY LenProperties DEF InOrder, TypeOK
  <2> QED
    BY <2>1, <2>2 DEF Range
<1> QED
  BY <1>1, ServiceTypeCorrect, MigrationsInOrder, PTL
=============================================================================
