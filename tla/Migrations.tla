----------------------------- MODULE Migrations ------------------------------
(***************************************************************************)
(* migrate(), which the API and the worker both run as they start.         *)
(*                                                                         *)
(* Postgres is external: a statement of its own, or a transaction, takes   *)
(* effect at once or not at all; DDL on what an open transaction has       *)
(* created or altered waits for that transaction; a create that had waited *)
(* for, or raced with, another one of the same table fails, one that comes *)
(* later finds the table and does nothing; a lost connection rolls its     *)
(* transaction back, or hides that the commit was done.                    *)
(*                                                                         *)
(* Abstractions.  A migration is what it creates and what it alters;       *)
(* columns, types and indices are dropped.                                 *)
(***************************************************************************)
EXTENDS Naturals, FiniteSets

CONSTANTS Proc,        \* the processes that start: the API, the worker
          MaxCrashes   \* bound on crashes and lost connections

ASSUME SomeProcess == Proc # {}
ASSUME CrashAssumption == MaxCrashes \in Nat

\* The migrations in the order they are applied: 0001_init, 0002_review_resolution.
Creates == <<{"policies", "tenants", "job_runs", "review_items", "cost_records", "watermarks"},
             {"resolution of review_items"}>>
Alters == <<{}, {"review_items"}>>
Migration == DOMAIN Creates
Complete == {"schema_migrations"} \cup UNION {Creates[m] : m \in Migration}

VARIABLES
  schema,   \* Postgres: what has been created
  ids,      \* Postgres: the rows of schema_migrations
  boot,     \* the processes, in or past migrate()
  crashes,  \* crashes so far
  applied   \* history: how often a migration's transaction was committed

migrationVars == <<schema, ids, boot, crashes, applied>>

Down == [pc |-> "down", done |-> {}]

MigrationsInit ==
  /\ schema = {}
  /\ ids = {}
  /\ boot = [p \in Proc |-> Down]
  /\ crashes = 0
  /\ applied = [m \in Migration |-> 0]

\* Mutant: the list of migrations is in the wrong order.
Last(S) == CHOOSE m \in S : \A n \in S : n <= m

\* Mutant: one migration a start.
LoopingOnce(done) == [pc |-> IF done # {} THEN "up" ELSE "beginning", done |-> done]

\* The first migration that the process does not know to be applied, and where it is
\* in the loop when it knows of those in done.
First(S) == CHOOSE m \in S : \A n \in S : m <= n
Current(p) == First(Migration \ boot[p].done)
Looping(done) == [pc |-> IF Migration \subseteq done THEN "up" ELSE "beginning", done |-> done]

Boot(p, b) == boot' = [boot EXCEPT ![p] = b]
At(p, pc) == Boot(p, [boot[p] EXCEPT !.pc = pc])

\* An error ends main(), and with it the process; its transaction is rolled back.
Fail(p) == Boot(p, [Down EXCEPT !.pc = "failed"])

\* CREATE TABLE IF NOT EXISTS schema_migrations looks for the table ...
Connect(p) ==
  /\ boot[p].pc \in {"down", "failed"}
  /\ At(p, IF "schema_migrations" \in schema THEN "reading" ELSE "creating")
  /\ UNCHANGED <<schema, ids, crashes, applied>>

\* ... and creates it, unless another process has in the meantime.
CreateTracking(p) ==
  /\ boot[p].pc = "creating"
  /\ IF "schema_migrations" \in schema THEN Fail(p) ELSE At(p, "reading")
  /\ schema' = schema \cup {"schema_migrations"}
  /\ UNCHANGED <<ids, crashes, applied>>

\* Mutant: the ids are not read.
ReadNothing(p) ==
  /\ boot[p].pc = "reading"
  /\ Boot(p, Looping({}))
  /\ UNCHANGED <<schema, ids, crashes, applied>>

ReadApplied(p) ==
  /\ boot[p].pc = "reading"
  /\ Boot(p, Looping(ids))
  /\ UNCHANGED <<schema, ids, crashes, applied>>

\* Does a transaction other than p's hold what p's statement needs?
Locked(p) == \E q \in Proc \ {p} : boot[q].pc \in {"ran", "recorded"}

\* BEGIN and the migration's statements.
RunSql(p) ==
  /\ boot[p].pc = "beginning" /\ ~Locked(p)
  /\ \/ Alters[Current(p)] \subseteq schema /\ At(p, "ran")
     \/ /\ ~(Alters[Current(p)] \subseteq schema) \/ Creates[Current(p)] \subseteq schema
        /\ Fail(p)
  /\ UNCHANGED <<schema, ids, crashes, applied>>

\* Mutant: INSERT ... ON CONFLICT DO NOTHING.
RecordLeniently(p) ==
  /\ boot[p].pc = "ran"
  /\ At(p, "recorded")
  /\ UNCHANGED <<schema, ids, crashes, applied>>

\* INSERT INTO schema_migrations: the id is the primary key.
Record(p) ==
  /\ boot[p].pc = "ran"
  /\ IF Current(p) \in ids THEN Fail(p) ELSE At(p, "recorded")
  /\ UNCHANGED <<schema, ids, crashes, applied>>

\* What COMMIT makes visible.
Persist(p) ==
  /\ schema' = schema \cup Creates[Current(p)]
  /\ ids' = ids \cup {Current(p)}
  /\ applied' = [applied EXCEPT ![Current(p)] = @ + 1]

Commit(p) ==
  /\ boot[p].pc = "recorded"
  /\ Persist(p)
  /\ Boot(p, Looping(boot[p].done \cup {Current(p)}))
  /\ UNCHANGED crashes

Crashes == crashes < MaxCrashes /\ crashes' = crashes + 1

\* The connection breaks after the commit and before its answer.
CommitLost(p) ==
  /\ boot[p].pc = "recorded"
  /\ Crashes
  /\ Persist(p)
  /\ Fail(p)

\* The process ends, or loses its connection, with its transaction rolled back.
Crash(p) ==
  /\ boot[p].pc \notin {"down", "failed"}
  /\ Crashes
  /\ Boot(p, Down)
  /\ UNCHANGED <<schema, ids, applied>>

\* One statement of migrate(), in a process that is started again when it has ended.
Migrate(p) ==
  \/ Connect(p) \/ CreateTracking(p) \/ ReadApplied(p)
  \/ RunSql(p) \/ Record(p) \/ Commit(p)

MigrationsNext == \E p \in Proc : Migrate(p) \/ CommitLost(p) \/ Crash(p)

MigrationsSpec == MigrationsInit /\ [][MigrationsNext]_migrationVars

-----------------------------------------------------------------------------
(* Properties.                                                              *)

BootType == [pc : {"down", "failed", "creating", "reading", "beginning", "ran", "recorded", "up"},
             done : SUBSET Migration]

\* The types of what migrate() keeps.
MigrationsTypeOK ==
  /\ schema \subseteq Complete
  /\ ids \subseteq Migration
  /\ boot \in [Proc -> BootType]
  /\ crashes \in 0..MaxCrashes
  /\ applied \in [Migration -> Nat]

\* A migration is recorded if and only if what it creates is there, its transaction
\* was committed once and only after the earlier ones, whichever processes raced for it
\* or died on it.
AppliedOnceInOrder ==
  \A m \in Migration :
    /\ m \in ids <=> Creates[m] \subseteq schema
    /\ applied[m] = IF m \in ids THEN 1 ELSE 0
    /\ m \in ids => 1..m \subseteq ids

\* A process that has returned from migrate() has the schema that its queries need.
UpMeansMigrated == \A p \in Proc : boot[p].pc = "up" => schema = Complete

\* migrate() implements SchemaVersion: with the version that queries see, the number of
\* migrations whose tables and columns are there, each step of a process is one whole
\* migration, somebody's coming or going, or invisible.  UpMeansMigrated follows.
Applied == {m \in Migration : Creates[m] \subseteq schema}
Up == {p \in Proc : boot[p].pc = "up"}
Versions == INSTANCE SchemaVersion
              WITH LastVersion <- Cardinality(Migration), version <- Cardinality(Applied), ready <- Up
ImplementsVersions == Versions!Spec

\* Losing the race for a migration ends a process, and never the last one: without
\* crashes, some process is still on its way or up.
SomebodySurvives == crashes = 0 => \E p \in Proc : boot[p].pc # "failed"

\* Every process that ends, as the loser of a race or in a crash, is up in the end,
\* if it is started again.
EveryoneBoots == \A p \in Proc : boot[p].pc # "up" ~> boot[p].pc = "up"
=============================================================================
