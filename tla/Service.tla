------------------------------ MODULE Service ------------------------------
(***************************************************************************)
(* The life of the service's processes: run of cmd/server/main.go, from    *)
(* the configuration to the graceful shutdown, and pkg/migrate between.    *)
(*                                                                         *)
(* Every instance migrates the database when it starts, under an advisory  *)
(* lock of Postgres that belongs to a session, which is a connection of    *)
(* the pool of the instance.  An instance that cannot go on exits, and     *)
(* Docker starts it again.                                                 *)
(*                                                                         *)
(* The migrations are numbered in the order of their file names; image n   *)
(* carries the first n of them, and a deploy may go back to an older one.  *)
(***************************************************************************)
EXTENDS Integers, Sequences, FiniteSets, FiniteSetsExt, Functions

CONSTANTS
  Instances,
  Images,       \* the newest image
  Settings,     \* the environments an instance may be started with
  LockTries,    \* tries of the lock before giving up (30, one a second)
  PingTries,    \* pings of Postgres or Redis before giving up (5)
  MaxRequests,  \* bound: requests an instance answers at a time
  MaxDeploys,   \* bound: signals and deploys
  MaxFaults,    \* bound: kills, outages, ports that are taken
  Nobody,       \* the holder of a free lock
  Orphan        \* a session whose process is dead and that Postgres still keeps

ASSUME ServiceNumbers ==
  /\ {Images, LockTries, PingTries} \subseteq Nat \ {0}
  /\ {MaxRequests, MaxDeploys, MaxFaults} \subseteq Nat
ASSUME ServiceAbsent == {Nobody, Orphan} \cap Instances = {} /\ Nobody # Orphan

Secrets == {"own", "unset", "malformed"}
Setting == [
  env : {"dev", "prod"}, mode : {"all", "api", "worker", "unknown"},
  password : {"own", "unset", "test"},   \* of Robokassa
  session : Secrets, admin : Secrets,    \* the two keys
  rest : BOOLEAN]                        \* every other variable production requires

ASSUME ServiceSettings == Settings \subseteq Setting

VARIABLES
  schema,    \* the migrations whose SQL was committed, in that order
  versions,  \* the rows of schema_migrations
  lock,      \* the advisory lock: the instance whose session holds it
  up,        \* the servers that answer, of "postgres" and "redis"
  setting, image,   \* what the next start of an instance runs with
  inst,      \* the processes
  deploys, faults

vars == <<schema, versions, lock, up, setting, image, inst, deploys, faults>>
database == <<schema, versions>>
outside == <<up, setting, image, deploys, faults>>

Servers == {"postgres", "redis"}
Migrations == 1 .. Images

\* A process: the image it runs, the tries of the step it is at, the migrations it has
\* still to apply, whether its session is alive, the requests it answers.
Down == [pc |-> "down", image |-> 0, tries |-> 0, todo |-> {}, alive |-> FALSE, requests |-> 0]

Init ==
  /\ schema = <<>> /\ versions = {}
  /\ lock = Nobody /\ up = Servers
  /\ setting \in [Instances -> Settings]
  /\ image \in [Instances -> Migrations]
  /\ inst = [i \in Instances |-> Down]
  /\ deploys = 0 /\ faults = 0

-----------------------------------------------------------------------------

At(i, pc) == inst[i].pc = pc
Goto(i, pc) == inst' = [inst EXCEPT ![i].pc = pc, ![i].tries = 0]

\* run returns: the deferred calls close the pools, and with them the session.
Exit(i) ==
  /\ inst' = [inst EXCEPT ![i] = Down]
  /\ lock' = IF lock = i THEN Nobody ELSE lock

\* Another try of a step, or the end of the process.
Again(i, most) ==
  IF inst[i].tries + 1 < most
    THEN inst' = [inst EXCEPT ![i].tries = @ + 1] /\ UNCHANGED lock
    ELSE Exit(i)

\* Docker starts the container.
Start(i) ==
  /\ At(i, "down")
  /\ inst' = [inst EXCEPT ![i] = [Down EXCEPT !.pc = "load", !.image = image[i]]]
  /\ UNCHANGED <<database, lock, outside>>

-----------------------------------------------------------------------------
(* Configuration.                                                          *)

\* getEnv: a variable that is not set has its default, for the passwords of Robokassa
\* the public ones of its test shop.
GetEnv(v) == IF v = "unset" THEN "test" ELSE v

\* decodeHexKeyWithDevFallback: the key, the public key of development, or an error.
DecodeHexKey(v, env) ==
  CASE v = "own" -> "own"
    [] v = "unset" /\ env = "dev" -> "public"
    [] OTHER -> "error"

\* Load of the configuration, which outside development insists on its variables.
Load(s) ==
  /\ s.mode \in {"all", "api", "worker"}
  /\ s.env # "dev" => /\ s.rest /\ "unset" \notin {s.session, s.admin}
                      /\ GetEnv(s.password) # "test"

LoadConfig(i) ==
  /\ At(i, "load")
  /\ IF Load(setting[i]) THEN Goto(i, "keys") /\ UNCHANGED lock ELSE Exit(i)
  /\ UNCHANGED <<database, outside>>

\* buildSessionCipher and buildAdminSessionSecret.
BuildKeys(i) ==
  /\ At(i, "keys")
  /\ LET s == setting[i]
     IN IF "error" \in {DecodeHexKey(s.session, s.env), DecodeHexKey(s.admin, s.env)}
          THEN Exit(i)
          ELSE Goto(i, "postgres") /\ UNCHANGED lock
  /\ UNCHANGED <<database, outside>>

-----------------------------------------------------------------------------
(* Migrations.                                                             *)

\* pingWithRetry; the connection that Run acquires then.
PingPostgres(i) ==
  /\ At(i, "postgres")
  /\ IF "postgres" \in up
       THEN /\ inst' = [inst EXCEPT ![i].pc = "lock", ![i].tries = 0, ![i].alive = TRUE]
            /\ UNCHANGED lock
       ELSE Again(i, PingTries)
  /\ UNCHANGED <<database, outside>>

TryLockAnyway(i) == lock' = i

\* pg_try_advisory_lock, in the session of the instance.
TryLock(i) == lock = Nobody /\ lock' = i

\* acquireLockWithRetry: a try every second, until the time is up.
AcquireLock(i) ==
  /\ At(i, "lock") /\ inst[i].alive
  /\ TryLock(i) /\ Goto(i, "versions")
  /\ UNCHANGED <<database, outside>>

LockIsTakenGoOn(i) ==
  /\ At(i, "lock") /\ inst[i].alive
  /\ lock # Nobody
  /\ IF inst[i].tries + 1 < LockTries THEN Again(i, LockTries)
     ELSE Goto(i, "redis") /\ UNCHANGED lock
  /\ UNCHANGED <<database, outside>>

LockIsTaken(i) ==
  /\ At(i, "lock") /\ inst[i].alive
  /\ lock # Nobody
  /\ Again(i, LockTries)
  /\ UNCHANGED <<database, outside>>

\* The table of versions is created and read: what is left of the sorted files.
AppliedVersions(i) ==
  /\ At(i, "versions") /\ inst[i].alive
  /\ inst' = [inst EXCEPT ![i].pc = "migrate", ![i].todo = (1 .. inst[i].image) \ versions]
  /\ UNCHANGED <<database, lock, outside>>

NextFile(files) == Min(files)

ApplyUnrecorded(i) ==
  /\ At(i, "migrate") /\ inst[i].alive /\ inst[i].todo # {}
  /\ LET m == NextFile(inst[i].todo)
     IN /\ m \notin versions
        /\ schema' = Append(schema, m)
        /\ \/ /\ versions' = versions \cup {m}
              /\ inst' = [inst EXCEPT ![i].todo = @ \ {m}]
              /\ UNCHANGED lock
           \/ Exit(i) /\ UNCHANGED versions
  /\ UNCHANGED outside

\* applyMigration: the SQL of a file and the row of its version, in one transaction.
\* The version is a primary key; under the lock its row is never there before.
ApplyMigration(i) ==
  /\ At(i, "migrate") /\ inst[i].alive /\ inst[i].todo # {}
  /\ LET m == NextFile(inst[i].todo)
     IN /\ m \notin versions
        /\ schema' = Append(schema, m)
        /\ versions' = versions \cup {m}
        /\ inst' = [inst EXCEPT ![i].todo = @ \ {m}]
  /\ UNCHANGED <<lock, outside>>

\* Run returns and gives its connection back to the pool: the session lives on.
FinishRun(i) ==
  /\ At(i, "migrate") /\ inst[i].todo = {}
  /\ Goto(i, "redis")
  /\ UNCHANGED <<database, lock, outside>>

ConnectionLostUnnoticed(i) ==
  /\ inst[i].pc \in {"versions", "migrate"} /\ ~inst[i].alive
  /\ Exit(i)
  /\ UNCHANGED <<database, outside>>

\* A statement on a connection that is lost.
ConnectionLost(i) ==
  /\ inst[i].pc \in {"lock", "versions", "migrate"} /\ ~inst[i].alive
  /\ Exit(i)
  /\ UNCHANGED <<database, outside>>

-----------------------------------------------------------------------------
(* Service and shutdown.                                                   *)

\* pingRedisWithRetry; then the worker server and the tickers start, or the HTTP
\* server, or both, as the mode says.
PingRedis(i) ==
  /\ At(i, "redis")
  /\ IF "redis" \in up
       THEN Goto(i, IF setting[i].mode = "worker" THEN "work" ELSE "serve") /\ UNCHANGED lock
       ELSE Again(i, PingTries)
  /\ UNCHANGED <<database, outside>>

AcceptRequest(i) ==
  /\ At(i, "serve") /\ inst[i].requests < MaxRequests
  /\ inst' = [inst EXCEPT ![i].requests = @ + 1]
  /\ UNCHANGED <<database, lock, outside>>

AnswerRequest(i) ==
  /\ inst[i].requests > 0
  /\ inst' = [inst EXCEPT ![i].requests = @ - 1]
  /\ UNCHANGED <<database, lock, outside>>

\* ListenAndServe fails: the port is taken.
ServeFails(i) ==
  /\ At(i, "serve") /\ faults < MaxFaults /\ faults' = faults + 1
  /\ Exit(i)
  /\ UNCHANGED <<database, up, setting, image, deploys>>

\* SIGTERM, of a deploy of image v: the context of run is cancelled.  Only the HTTP
\* server drains; a process that starts, and a worker, return at once.
Signal(i, v) ==
  /\ deploys < MaxDeploys /\ deploys' = deploys + 1
  /\ inst[i].pc \notin {"down", "drain"}
  /\ image' = [image EXCEPT ![i] = v]
  /\ IF At(i, "serve") THEN Goto(i, "drain") /\ UNCHANGED lock ELSE Exit(i)
  /\ UNCHANGED <<database, up, setting, faults>>

\* Shutdown returns when no request is left, or when its time is up.
Shutdown(i) ==
  /\ At(i, "drain")
  /\ Exit(i)
  /\ UNCHANGED <<database, outside>>

-----------------------------------------------------------------------------
(* Around them.                                                            *)

\* A process is killed.  Postgres closes its session, or finds out later.
Kill(i) ==
  /\ ~At(i, "down") /\ faults < MaxFaults /\ faults' = faults + 1
  /\ inst' = [inst EXCEPT ![i] = Down]
  /\ IF lock = i THEN lock' \in {Nobody, Orphan} ELSE UNCHANGED lock
  /\ UNCHANGED <<database, up, setting, image, deploys>>

Reap ==
  /\ lock = Orphan /\ lock' = Nobody
  /\ UNCHANGED <<database, outside, inst>>

\* The pool closes an old connection that it has back.
Recycle(i) ==
  /\ lock = i /\ inst[i].pc \in {"redis", "serve", "work", "drain"}
  /\ lock' = Nobody
  /\ UNCHANGED <<database, outside, inst>>

\* A server goes away; with Postgres go all its sessions.
Outage(s) ==
  /\ s \in up /\ faults < MaxFaults /\ faults' = faults + 1
  /\ up' = up \ {s}
  /\ IF s = "postgres"
       THEN /\ lock' = Nobody
            /\ inst' = [i \in Instances |-> [inst[i] EXCEPT !.alive = FALSE]]
       ELSE UNCHANGED <<lock, inst>>
  /\ UNCHANGED <<database, setting, image, deploys>>

ComesBack(s) ==
  /\ s \notin up /\ up' = up \cup {s}
  /\ UNCHANGED <<database, lock, setting, image, inst, deploys, faults>>

-----------------------------------------------------------------------------

Boot(i) ==
  \/ Start(i) \/ LoadConfig(i) \/ BuildKeys(i) \/ PingPostgres(i) \/ AcquireLock(i)
  \/ LockIsTaken(i) \/ AppliedVersions(i) \/ ApplyMigration(i)
  \/ FinishRun(i) \/ ConnectionLost(i) \/ PingRedis(i) \/ Shutdown(i)

Next ==
  \/ \E i \in Instances :
       \/ Boot(i) \/ AcceptRequest(i) \/ AnswerRequest(i) \/ ServeFails(i)
       \/ \E v \in Migrations : Signal(i, v)
       \/ Kill(i) \/ Recycle(i)
  \/ Reap \/ \E s \in Servers : Outage(s) \/ ComesBack(s)

Spec == Init /\ [][Next]_vars

\* Processes run, Docker restarts them, servers come back, and Postgres and the pools
\* close dead and old connections.
FairSpec ==
  /\ Spec
  /\ \A i \in Instances : WF_vars(Boot(i)) /\ WF_vars(Recycle(i))
  /\ WF_vars(Reap) /\ \A s \in Servers : WF_vars(ComesBack(s))

-----------------------------------------------------------------------------
(* Properties.                                                             *)

Serving(i) == inst[i].pc \in {"serve", "work", "drain"}
Migrating(i) == inst[i].pc \in {"versions", "migrate"} /\ inst[i].alive

\* Every variable has its type.
TypeOK ==
  /\ schema \in Seq(Migrations) /\ versions \subseteq Migrations
  /\ lock \in Instances \cup {Nobody, Orphan} /\ up \subseteq Servers
  /\ setting \in [Instances -> Settings] /\ image \in [Instances -> Migrations]
  /\ inst \in [Instances -> [
       pc : {"down", "load", "keys", "postgres", "lock", "versions", "migrate", "redis",
             "serve", "work", "drain"},
       image : 0 .. Images, tries : 0 .. Max({PingTries, LockTries}) - 1, todo : SUBSET Migrations,
       alive : BOOLEAN, requests : 0 .. MaxRequests]]
  /\ deploys \in 0 .. MaxDeploys /\ faults \in 0 .. MaxFaults

\* One instance migrates at a time, whatever was killed and whichever sessions were lost.
OneMigrator == \A i, j \in Instances : Migrating(i) /\ Migrating(j) => i = j

\* The SQL of a migration is committed once, in the order of the files, and the table of
\* versions tells exactly which were.
AppliedOnce == schema = [n \in 1 .. Cardinality(versions) |-> n]

\* No request is answered and no task is worked on over a schema that lacks a migration
\* of the instance's own image.
ServesMigrated == \A i \in Instances : Serving(i) => 1 .. inst[i].image \subseteq Range(schema)

\* An instance with a good configuration comes to serve again and again: neither a held
\* lock, nor a dead session, nor an outage stops it for good.
EventuallyServes == \A i \in Instances :
  Load(setting[i]) /\ "malformed" \notin {setting[i].session, setting[i].admin}
    => []<>Serving(i)
=============================================================================
