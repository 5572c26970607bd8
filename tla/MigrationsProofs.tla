-------------------------- MODULE MigrationsProofs ---------------------------
(***************************************************************************)
(* Theorems about migrate() for every set of processes.                    *)
(*                                                                         *)
(* What a process believes to be applied is (Knows), one transaction is    *)
(* open at a time (Alone), and the schema is what the recorded migrations  *)
(* have created, nothing half applied (Whole).                             *)
(***************************************************************************)
EXTENDS Migrations, FiniteSetTheorems, TLAPS

Knows(b) ==
  /\ b.pc \in {"reading", "beginning", "ran", "recorded", "up"} => "schema_migrations" \in schema
  /\ b.pc \in {"beginning", "ran", "recorded", "up"} => b.done \subseteq ids
  /\ b.pc \in {"beginning", "ran", "recorded"} => b.done # Migration
  /\ b.pc = "up" => b.done = Migration
  /\ b.pc = "recorded" => First(Migration \ b.done) \notin ids

Open(p) == boot[p].pc \in {"ran", "recorded"}
Alone == \A p, q \in Proc : p # q => ~(Open(p) /\ Open(q))

Whole ==
  /\ schema \ {"schema_migrations"} = UNION {Creates[m] : m \in ids}
  /\ \A m \in ids : 1..m \subseteq ids
  /\ \A m \in Migration : applied[m] = IF m \in ids THEN 1 ELSE 0

MInv == MigrationsTypeOK /\ Whole /\ Alone /\ \A p \in Proc : Knows(boot[p])

\* A process gives its start up: what an error after migrate() does.
GiveUp(p) == Boot(p, Down) /\ UNCHANGED <<schema, ids, crashes, applied>>

-----------------------------------------------------------------------------
(* The list of migrations.                                                  *)

LEMMA TwoMigrations ==
  /\ Migration = {1, 2} /\ Migration \subseteq Nat
  /\ \A m \in Migration : /\ Creates[m] # {} /\ "schema_migrations" \notin Creates[m]
                          /\ Creates[m] \subseteq Complete
  /\ Creates[1] \cap Creates[2] = {}
  /\ Complete = {"schema_migrations"} \cup Creates[1] \cup Creates[2]
<1>1. Migration = {1, 2}
  BY DEF Migration, Creates
<1>2. /\ \A m \in {1, 2} : Creates[m] # {} /\ "schema_migrations" \notin Creates[m]
      /\ Creates[1] \cap Creates[2] = {}
  <2>1. /\ Creates[1] = {"policies", "tenants", "job_runs", "review_items", "cost_records",
                          "watermarks"}
        /\ Creates[2] = {"resolution of review_items"}
    BY DEF Creates
  <2>2. "schema_migrations" \notin Creates[1] /\ Creates[1] # {}
    BY <2>1
  <2>3. "schema_migrations" \notin Creates[2] /\ Creates[2] # {}
    BY <2>1
  <2>4. "resolution of review_items" \notin Creates[1]
    BY <2>1
  <2> QED BY <2>1, <2>2, <2>3, <2>4
<1>3. UNION {Creates[m] : m \in {1, 2}} = Creates[1] \cup Creates[2]
  OBVIOUS
<1>4. Complete = {"schema_migrations"} \cup Creates[1] \cup Creates[2]
  BY <1>1, <1>3 DEF Complete
<1> QED BY <1>1, <1>2, <1>4

LEMMA FirstOfSome ==
  ASSUME NEW S \in SUBSET Migration, S # {}
  PROVE  First(S) \in S /\ \A n \in S : First(S) <= n
<1>1. \E m \in S : \A n \in S : m <= n
  <2>1. CASE 1 \in S
    BY <2>1, TwoMigrations
  <2>2. CASE 1 \notin S
    <3>1. S = {2}
      BY <2>2, TwoMigrations
    <3> QED BY <3>1
  <2> QED BY <2>1, <2>2
<1> QED BY <1>1, Zenon DEF First

\* The migration that comes next is not known to be applied, and those before it are.
LEMMA CurrentIsNext ==
  ASSUME NEW done \in SUBSET Migration, done # Migration
  PROVE  /\ First(Migration \ done) \in Migration \ done
         /\ \A m \in Migration : m < First(Migration \ done) => m \in done
<1>1. /\ First(Migration \ done) \in Migration \ done
      /\ \A n \in Migration \ done : First(Migration \ done) <= n
  BY FirstOfSome
<1> QED BY <1>1, TwoMigrations

LEMMA SchemaIsIds ==
  ASSUME ids \in SUBSET Migration, Whole
  PROVE  \A m \in Migration : m \in ids <=> Creates[m] \subseteq schema
<1>1. \A m \in Migration : Creates[m] \subseteq schema <=>
        Creates[m] \subseteq UNION {Creates[n] : n \in ids}
  BY TwoMigrations DEF Whole
<1>2. ASSUME NEW m \in Migration, m \notin ids
      PROVE  ~(Creates[m] \subseteq UNION {Creates[n] : n \in ids})
  <2>1. \A n \in ids : Creates[m] \cap Creates[n] = {}
    BY <1>2, TwoMigrations
  <2> QED BY <2>1, TwoMigrations
<1> QED BY <1>1, <1>2

-----------------------------------------------------------------------------
(* The invariant.                                                           *)

LEMMA MInvInit == MigrationsInit => MInv
<1> SUFFICES ASSUME MigrationsInit PROVE MInv
  OBVIOUS
<1>1. MigrationsTypeOK
  BY CrashAssumption DEF MigrationsInit, MigrationsTypeOK, BootType, Down
<1>2. Whole
  BY DEF MigrationsInit, Whole
<1>3. Alone /\ \A p \in Proc : Knows(boot[p])
  BY DEF MigrationsInit, Alone, Open, Knows, Down
<1> QED BY <1>1, <1>2, <1>3 DEF MInv

\* A step that only moves a process, and may create the tracking table.
LEMMA Moves ==
  ASSUME MInv, NEW p \in Proc, NEW b \in BootType,
         boot' = [boot EXCEPT ![p] = b],
         schema' \in {schema, schema \cup {"schema_migrations"}},
         ids' = ids, applied' = applied, crashes' \in 0..MaxCrashes,
         Knows(b)', b.pc \in {"ran", "recorded"} => ~Locked(p)
  PROVE  MInv'
<1>1. MigrationsTypeOK'
  BY DEF MInv, MigrationsTypeOK, Complete
<1>2. Whole'
  BY DEF MInv, Whole
<1>3. Alone'
  BY DEF MInv, Alone, Open, Locked, MigrationsTypeOK
<1>4. \A q \in Proc : Knows(boot[q])'
  BY DEF MInv, Knows, MigrationsTypeOK
<1> QED BY <1>1, <1>2, <1>3, <1>4 DEF MInv

\* What COMMIT does to the tables.
LEMMA PersistKeepsWhole ==
  ASSUME MInv, NEW p \in Proc, boot[p].pc = "recorded", Persist(p)
  PROVE  /\ Whole' /\ ids' \in SUBSET Migration /\ schema' \in SUBSET Complete
         /\ applied' \in [Migration -> Nat]
         /\ Current(p) \in Migration /\ ids \subseteq ids' /\ schema \subseteq schema'
<1>1. /\ Current(p) \in Migration \ boot[p].done /\ Current(p) \notin ids
      /\ \A m \in Migration : m < Current(p) => m \in boot[p].done
  BY CurrentIsNext DEF MInv, Knows, MigrationsTypeOK, BootType, Current
<1>2. boot[p].done \subseteq ids /\ "schema_migrations" \in schema
  BY DEF MInv, Knows
<1>3. schema' \ {"schema_migrations"} = UNION {Creates[m] : m \in ids'}
  BY <1>1, TwoMigrations DEF MInv, Whole, Persist
<1>4. \A m \in ids' : 1..m \subseteq ids'
  BY <1>1, <1>2, TwoMigrations DEF MInv, Whole, Persist, MigrationsTypeOK
<1>5. \A m \in Migration : applied'[m] = IF m \in ids' THEN 1 ELSE 0
  BY <1>1 DEF MInv, Whole, Persist, MigrationsTypeOK
<1>6. schema' \in SUBSET Complete
  <2>1. Creates[Current(p)] \subseteq Complete
    BY <1>1, TwoMigrations
  <2> QED BY <2>1 DEF MInv, Persist, MigrationsTypeOK
<1>7. ids' \in SUBSET Migration /\ applied' \in [Migration -> Nat]
  <2>1. \A m \in Migration : applied[m] + 1 \in Nat
    BY DEF MInv, MigrationsTypeOK
  <2> QED BY <1>1, <2>1 DEF MInv, Persist, MigrationsTypeOK
<1> QED BY <1>1, <1>3, <1>4, <1>5, <1>6, <1>7 DEF Whole, Persist

LEMMA MInvStep ==
  ASSUME MInv,
         MigrationsNext \/ (\E p \in Proc : GiveUp(p)) \/ UNCHANGED migrationVars
  PROVE  MInv'
<1> USE CrashAssumption
<1>0. /\ \A p \in Proc : boot[p] \in BootType
      /\ \A p \in Proc : Knows(boot[p])
      /\ crashes \in 0..MaxCrashes /\ ids \in SUBSET Migration
  BY DEF MInv, MigrationsTypeOK
<1>1. ASSUME NEW p \in Proc, Connect(p) PROVE MInv'
  <2>1. PICK b \in BootType :
          /\ boot' = [boot EXCEPT ![p] = b] /\ b.pc \in {"reading", "creating"}
          /\ b.pc = "reading" => "schema_migrations" \in schema
    <3> DEFINE c == [boot[p] EXCEPT !.pc = IF "schema_migrations" \in schema THEN "reading"
                                           ELSE "creating"]
    <3>1. c \in BootType /\ boot' = [boot EXCEPT ![p] = c] /\ c.pc \in {"reading", "creating"}
          /\ (c.pc = "reading" => "schema_migrations" \in schema)
      BY <1>0, <1>1 DEF Connect, At, Boot, BootType
    <3> HIDE DEF c
    <3> QED BY <3>1
  <2>2. Knows(b)'
    BY <2>1, <1>1 DEF Connect, Knows
  <2> QED BY <1>0, <1>1, <2>1, <2>2, Moves DEF Connect
<1>2. ASSUME NEW p \in Proc, CreateTracking(p) PROVE MInv'
  <2>1. PICK b \in BootType : /\ boot' = [boot EXCEPT ![p] = b]
                              /\ b.pc \in {"failed", "reading"}
    <3>1. CASE "schema_migrations" \in schema
      <4>1. /\ boot' = [boot EXCEPT ![p] = [Down EXCEPT !.pc = "failed"]]
            /\ [Down EXCEPT !.pc = "failed"] \in BootType
            /\ [Down EXCEPT !.pc = "failed"].pc = "failed"
        BY <3>1, <1>2 DEF CreateTracking, Fail, Boot, Down, BootType
      <4> QED BY <4>1
    <3>2. CASE "schema_migrations" \notin schema
      <4>1. /\ boot' = [boot EXCEPT ![p] = [boot[p] EXCEPT !.pc = "reading"]]
            /\ [boot[p] EXCEPT !.pc = "reading"] \in BootType
            /\ [boot[p] EXCEPT !.pc = "reading"].pc = "reading"
        BY <3>2, <1>0, <1>2 DEF CreateTracking, At, Boot, BootType
      <4> QED BY <4>1
    <3> QED BY <3>1, <3>2
  <2>2. Knows(b)'
    BY <2>1, <1>2 DEF CreateTracking, Knows
  <2> QED BY <1>0, <1>2, <2>1, <2>2, Moves DEF CreateTracking
<1>3. ASSUME NEW p \in Proc, ReadApplied(p) PROVE MInv'
  <2>1. Looping(ids) \in BootType /\ Knows(Looping(ids))'
    BY <1>0, <1>3 DEF ReadApplied, Looping, Knows, BootType
  <2>2. Looping(ids).pc \in {"up", "beginning"}
    BY DEF Looping
  <2> QED BY <1>0, <1>3, <2>1, <2>2, Moves DEF ReadApplied, Boot
<1>4. ASSUME NEW p \in Proc, Fail(p), UNCHANGED <<schema, ids, crashes, applied>> PROVE MInv'
  <2>1. /\ [Down EXCEPT !.pc = "failed"] \in BootType
        /\ Knows([Down EXCEPT !.pc = "failed"])'
    BY DEF Down, BootType, Knows
  <2> QED BY <1>0, <1>4, <2>1, Moves DEF Fail, Boot, Down
<1>5. ASSUME NEW p \in Proc, NEW pc \in {"ran", "recorded"}, At(p, pc),
             boot[p].pc \in {"beginning", "ran"}, ~Locked(p),
             pc = "recorded" => Current(p) \notin ids,
             UNCHANGED <<schema, ids, crashes, applied>>
      PROVE  MInv'
  <2>1. PICK b \in BootType : /\ boot' = [boot EXCEPT ![p] = b]
                              /\ b.pc = pc /\ b.done = boot[p].done
    <3> DEFINE c == [boot[p] EXCEPT !.pc = pc]
    <3>1. c \in BootType /\ boot' = [boot EXCEPT ![p] = c] /\ c.pc = pc /\ c.done = boot[p].done
      BY <1>0, <1>5 DEF At, Boot, BootType
    <3> HIDE DEF c
    <3> QED BY <3>1
  <2>2. Knows(b)'
    BY <1>0, <1>5, <2>1 DEF Knows, Current
  <2> QED BY <1>0, <1>5, <2>1, <2>2, Moves
<1>6. ASSUME NEW p \in Proc, RunSql(p) PROVE MInv'
  BY <1>4, <1>5, <1>6 DEF RunSql
<1>7. ASSUME NEW p \in Proc, Record(p) PROVE MInv'
  <2>1. ~Locked(p)
    BY <1>7 DEF Record, MInv, Alone, Open, Locked
  <2> QED BY <1>4, <1>5, <1>7, <2>1 DEF Record
<1>8. ASSUME NEW p \in Proc, NEW b \in BootType, boot[p].pc = "recorded", Persist(p),
             boot' = [boot EXCEPT ![p] = b], crashes' \in 0..MaxCrashes, Knows(b)',
             b.pc \in {"failed", "beginning", "up"}
      PROVE  MInv'
  <2>1. /\ Whole' /\ ids' \in SUBSET Migration /\ schema' \in SUBSET Complete
        /\ applied' \in [Migration -> Nat] /\ ids \subseteq ids' /\ schema \subseteq schema'
    BY <1>8, PersistKeepsWhole
  <2>2. MigrationsTypeOK'
    BY <1>8, <2>1 DEF MInv, MigrationsTypeOK
  <2>3. Alone'
    BY <1>8 DEF MInv, Alone, Open, MigrationsTypeOK
  <2>4. ASSUME NEW q \in Proc, q # p PROVE Knows(boot[q])'
    <3>1. boot'[q] = boot[q] /\ boot[q].pc # "recorded"
      BY <1>8, <2>4 DEF MInv, Alone, Open, MigrationsTypeOK
    <3> QED BY <1>0, <2>1, <3>1 DEF Knows
  <2>5. Knows(boot[p])'
    BY <1>8 DEF MInv, MigrationsTypeOK, Knows
  <2> QED BY <2>1, <2>2, <2>3, <2>4, <2>5 DEF MInv
<1>9. ASSUME NEW p \in Proc, Commit(p) PROVE MInv'
  <2>1. /\ Current(p) \in Migration /\ ids' = ids \cup {Current(p)}
        /\ boot[p].done \subseteq ids /\ "schema_migrations" \in schema /\ schema \subseteq schema'
    BY <1>0, <1>9, PersistKeepsWhole DEF Commit, Persist, Knows
  <2>2. PICK b \in BootType :
          /\ boot' = [boot EXCEPT ![p] = b] /\ b.pc \in {"beginning", "up"}
          /\ b.done \subseteq ids' /\ b.done \subseteq Migration
          /\ (b.pc = "up" => b.done = Migration) /\ (b.pc = "beginning" => b.done # Migration)
    <3> DEFINE c == Looping(boot[p].done \cup {Current(p)})
    <3>1. /\ c \in BootType /\ boot' = [boot EXCEPT ![p] = c] /\ c.pc \in {"beginning", "up"}
          /\ c.done \subseteq ids' /\ c.done \subseteq Migration
          /\ (c.pc = "up" => c.done = Migration) /\ (c.pc = "beginning" => c.done # Migration)
      BY <1>0, <1>9, <2>1 DEF Looping, BootType, Commit, Boot
    <3> HIDE DEF c
    <3> QED BY <3>1
  <2>3. Knows(b)'
    BY <2>1, <2>2 DEF Knows
  <2> QED BY <1>0, <1>8, <1>9, <2>2, <2>3 DEF Commit
<1>10. ASSUME NEW p \in Proc, CommitLost(p) PROVE MInv'
  <2>1. /\ [Down EXCEPT !.pc = "failed"] \in BootType
        /\ Knows([Down EXCEPT !.pc = "failed"])' /\ crashes' \in 0..MaxCrashes
    BY <1>0, <1>10 DEF Down, BootType, Knows, CommitLost, Crashes
  <2> QED BY <1>8, <1>10, <2>1 DEF CommitLost, Fail, Boot, Down
<1>11. ASSUME NEW p \in Proc, Boot(p, Down), crashes' \in 0..MaxCrashes,
              UNCHANGED <<schema, ids, applied>>
       PROVE  MInv'
  <2>1. Down \in BootType /\ Knows(Down)'
    BY DEF Down, BootType, Knows
  <2> QED BY <1>11, <2>1, Moves DEF Boot, Down
<1>12. ASSUME NEW p \in Proc, Crash(p) PROVE MInv'
  BY <1>0, <1>11, <1>12 DEF Crash, Crashes
<1>13. ASSUME NEW p \in Proc, GiveUp(p) PROVE MInv'
  BY <1>0, <1>11, <1>13 DEF GiveUp
<1>14. ASSUME UNCHANGED migrationVars PROVE MInv'
  BY <1>14 DEF migrationVars, MInv, MigrationsTypeOK, Whole, Alone, Open, Knows
<1> QED BY <1>1, <1>2, <1>3, <1>6, <1>7, <1>9, <1>10, <1>12, <1>13, <1>14
        DEF MigrationsNext, Migrate

-----------------------------------------------------------------------------
(* Without crashes a process survives.                                      *)

\* It does not fail in its next step, unless somebody else takes one before.
Safe(p) ==
  \/ boot[p].pc \in {"down", "reading"}
  \/ boot[p].pc = "creating" /\ "schema_migrations" \notin schema
  \/ boot[p].pc \in {"beginning", "ran", "recorded", "up"} /\ boot[p].done = ids

Survivor == crashes = 0 => \E p \in Proc : Safe(p)

\* What a migration alters, earlier ones have created.
LEMMA AltersExist == \A m \in Migration : Alters[m] \subseteq UNION {Creates[n] : n \in 1..(m - 1)}
<1>1. Alters[1] = {} /\ Alters[2] = {"review_items"} /\ "review_items" \in Creates[1]
  BY DEF Alters, Creates
<1> QED BY <1>1, TwoMigrations

\* A process about to commit knows of all that is applied.
LEMMA CommitterIsUpToDate ==
  ASSUME MInv, NEW p \in Proc, boot[p].pc = "recorded"
  PROVE  boot[p].done = ids /\ Current(p) \notin ids
<1>1. boot[p].done \subseteq ids /\ Current(p) \notin ids /\ Current(p) \in Migration
      /\ \A m \in Migration : m < Current(p) => m \in boot[p].done
  BY CurrentIsNext DEF MInv, Knows, MigrationsTypeOK, BootType, Current
<1>2. ASSUME NEW m \in ids PROVE m \in boot[p].done
  <2>1. m \in Migration /\ 1..m \subseteq ids
    BY DEF MInv, MigrationsTypeOK, Whole
  <2> QED BY <1>1, <2>1, TwoMigrations
<1> QED BY <1>1, <1>2

LEMMA SurvivorStep ==
  ASSUME MInv, Survivor,
         MigrationsNext \/ (\E p \in Proc : GiveUp(p)) \/ UNCHANGED migrationVars
  PROVE  Survivor'
<1> SUFFICES ASSUME crashes' = 0 PROVE \E p \in Proc : Safe(p)'
  BY DEF Survivor
<1>0. /\ \A p \in Proc : boot[p] \in BootType /\ Knows(boot[p])
      /\ crashes \in 0..MaxCrashes /\ ids \in SUBSET Migration /\ MaxCrashes \in Nat
      /\ boot \in [Proc -> BootType]
  BY CrashAssumption DEF MInv, MigrationsTypeOK
<1>1. crashes = 0
  <2>1. ASSUME NEW p \in Proc, Migrate(p) \/ GiveUp(p) PROVE crashes = 0
    BY <2>1 DEF Migrate, Connect, CreateTracking, ReadApplied, RunSql, Record, Commit, GiveUp
  <2>2. ASSUME NEW p \in Proc, CommitLost(p) \/ Crash(p) PROVE FALSE
    <3>1. crashes' = crashes + 1 /\ crashes \in Nat
      BY <1>0, <2>2 DEF CommitLost, Crash, Crashes
    <3> QED BY <3>1
  <2> QED BY <2>1, <2>2 DEF MigrationsNext, migrationVars
<1>2. PICK s \in Proc : Safe(s)
  BY <1>1 DEF Survivor
<1>3. ASSUME NEW p \in Proc, Connect(p) PROVE \E q \in Proc : Safe(q)'
  BY <1>0, <1>2, <1>3 DEF Connect, At, Boot, Safe, BootType
<1>4. ASSUME NEW p \in Proc, CreateTracking(p) PROVE \E q \in Proc : Safe(q)'
  <2>1. CASE "schema_migrations" \in schema
    <3>1. p # s
      BY <1>2, <1>4, <2>1 DEF CreateTracking, Safe
    <3>2. boot'[s] = boot[s] /\ schema' = schema /\ ids' = ids
      BY <1>0, <1>4, <2>1, <3>1 DEF CreateTracking, Fail, Boot
    <3> QED BY <1>2, <3>2 DEF Safe
  <2>2. CASE "schema_migrations" \notin schema
    <3>1. boot'[p].pc = "reading"
      BY <1>0, <1>4, <2>2 DEF CreateTracking, At, Boot, BootType
    <3> QED BY <3>1 DEF Safe
  <2> QED BY <2>1, <2>2
<1>5. ASSUME NEW p \in Proc, ReadApplied(p) PROVE \E q \in Proc : Safe(q)'
  <2>1. boot'[p] = Looping(ids) /\ ids' = ids
    BY <1>0, <1>5 DEF ReadApplied, Boot
  <2> QED BY <2>1 DEF Looping, Safe
<1>6. ASSUME NEW p \in Proc, p # s, boot' = [boot EXCEPT ![p] = boot'[p]],
             schema' = schema, ids' = ids
      PROVE  Safe(s)'
  BY <1>0, <1>2, <1>6 DEF Safe
<1>7. ASSUME NEW p \in Proc, RunSql(p) PROVE \E q \in Proc : Safe(q)'
  <2>1. schema' = schema /\ ids' = ids /\ boot' = [boot EXCEPT ![p] = boot'[p]]
        /\ boot[p].pc = "beginning"
    BY <1>0, <1>7 DEF RunSql, At, Fail, Boot
  <2>2. CASE p = s
    <3>1. boot[p].done = ids
      BY <1>2, <2>1, <2>2 DEF Safe
    <3>2. /\ Current(p) \in Migration /\ Current(p) \notin ids
          /\ \A m \in Migration : m < Current(p) => m \in ids
      BY <1>0, <2>1, <3>1, CurrentIsNext DEF Knows, BootType, Current
    <3>3. Alters[Current(p)] \subseteq schema
      <4>1. \A n \in 1..(Current(p) - 1) : n \in ids
        BY <3>2, TwoMigrations
      <4> QED BY <3>2, <4>1, AltersExist DEF MInv, Whole
    <3>4. ~(Creates[Current(p)] \subseteq schema)
      BY <1>0, <3>2, SchemaIsIds DEF MInv
    <3>5. At(p, "ran")
      BY <1>7, <3>3, <3>4 DEF RunSql
    <3>6. boot'[p].pc = "ran" /\ boot'[p].done = ids
      BY <1>0, <3>1, <3>5 DEF At, Boot, BootType
    <3> QED BY <2>1, <3>6 DEF Safe
  <2> QED BY <1>6, <2>1, <2>2
<1>8. ASSUME NEW p \in Proc, Record(p) PROVE \E q \in Proc : Safe(q)'
  <2>1. schema' = schema /\ ids' = ids /\ boot' = [boot EXCEPT ![p] = boot'[p]]
        /\ boot[p].pc = "ran"
    BY <1>0, <1>8 DEF Record, At, Fail, Boot
  <2>2. CASE p = s
    <3>1. boot[p].done = ids
      BY <1>2, <2>1, <2>2 DEF Safe
    <3>2. Current(p) \notin ids
      BY <1>0, <2>1, <3>1, CurrentIsNext DEF Knows, BootType, Current
    <3>3. boot'[p].pc = "recorded" /\ boot'[p].done = ids
      BY <1>0, <1>8, <3>1, <3>2 DEF Record, At, Boot, BootType
    <3> QED BY <2>1, <3>3 DEF Safe
  <2> QED BY <1>6, <2>1, <2>2
<1>9. ASSUME NEW p \in Proc, Commit(p) PROVE \E q \in Proc : Safe(q)'
  <2>1. boot[p].done = ids /\ ids' = ids \cup {Current(p)}
    BY <1>9, CommitterIsUpToDate DEF Commit, Persist
  <2>2. boot'[p] = Looping(ids')
    BY <1>0, <1>9, <2>1 DEF Commit, Boot
  <2> QED BY <2>2 DEF Looping, Safe
<1>10. ASSUME NEW p \in Proc, CommitLost(p) \/ Crash(p) PROVE FALSE
  BY <1>1, <1>10 DEF CommitLost, Crash, Crashes
<1>11. ASSUME NEW p \in Proc, GiveUp(p) PROVE \E q \in Proc : Safe(q)'
  BY <1>0, <1>11 DEF GiveUp, Boot, Down, Safe
<1>12. ASSUME UNCHANGED migrationVars PROVE Safe(s)'
  BY <1>2, <1>12 DEF migrationVars, Safe
<1> QED BY <1>3, <1>4, <1>5, <1>7, <1>8, <1>9, <1>10, <1>11, <1>12
        DEF MigrationsNext, Migrate

LEMMA SurvivorInit == MigrationsInit => Survivor
  BY SomeProcess DEF MigrationsInit, Survivor, Safe, Down

-----------------------------------------------------------------------------
(* The properties.                                                          *)

LEMMA MInvImplies == MInv => AppliedOnceInOrder /\ UpMeansMigrated
<1> SUFFICES ASSUME MInv PROVE AppliedOnceInOrder /\ UpMeansMigrated
  OBVIOUS
<1>1. AppliedOnceInOrder
  BY SchemaIsIds DEF MInv, AppliedOnceInOrder, Whole, MigrationsTypeOK
<1>2. ASSUME NEW p \in Proc, boot[p].pc = "up" PROVE schema = Complete
  <2>1. ids = Migration /\ "schema_migrations" \in schema
    BY <1>2 DEF MInv, Knows, MigrationsTypeOK
  <2>2. UNION {Creates[m] : m \in ids} = Creates[1] \cup Creates[2]
    BY <2>1, TwoMigrations
  <2> QED BY <2>1, <2>2, TwoMigrations DEF MInv, Whole
<1> QED BY <1>1, <1>2 DEF UpMeansMigrated

LEMMA SurvivorImplies == Survivor => SomebodySurvives
  BY DEF Survivor, Safe, SomebodySurvives

-----------------------------------------------------------------------------
(* Refinement of SchemaVersion.                                             *)

\* The migrations whose tables are all there are those that are recorded.
LEMMA AppliedAreRecorded == MInv => Applied = ids
  BY SchemaIsIds DEF MInv, MigrationsTypeOK, Applied

LEMMA MigrationsCounted ==
  /\ IsFiniteSet(Migration) /\ Cardinality(Migration) \in Nat
  /\ \A S \in SUBSET Migration :
       /\ IsFiniteSet(S) /\ Cardinality(S) \in Nat
       /\ \A m \in Migration \ S : /\ Cardinality(S \cup {m}) = Cardinality(S) + 1
                                   /\ Cardinality(S) < Cardinality(Migration)
<1>1. IsFiniteSet(Migration)
  <2>1. Migration = {1} \cup {2}
    BY TwoMigrations
  <2> QED BY <2>1, FS_Singleton, FS_Union
<1>2. ASSUME NEW S \in SUBSET Migration
      PROVE  /\ IsFiniteSet(S) /\ Cardinality(S) \in Nat
             /\ \A m \in Migration \ S : /\ Cardinality(S \cup {m}) = Cardinality(S) + 1
                                         /\ Cardinality(S) < Cardinality(Migration)
  <2>1. IsFiniteSet(S) /\ Cardinality(S) \in Nat
    BY <1>1, FS_Subset, FS_CardinalityType
  <2>2. ASSUME NEW m \in Migration \ S
        PROVE  /\ Cardinality(S \cup {m}) = Cardinality(S) + 1
               /\ Cardinality(S) < Cardinality(Migration)
    <3>1. Cardinality(S \cup {m}) = Cardinality(S) + 1
      BY <2>1, FS_AddElement
    <3>2. Cardinality(S \cup {m}) <= Cardinality(Migration)
      BY <1>1, FS_Subset
    <3>3. Cardinality(Migration) \in Nat
      BY <1>1, FS_CardinalityType
    <3> QED BY <2>1, <3>1, <3>2, <3>3
  <2> QED BY <2>1, <2>2
<1> QED BY <1>1, <1>2, FS_CardinalityType

LEMMA VersionsInit == MigrationsInit => Versions!Init
<1> SUFFICES ASSUME MigrationsInit PROVE Versions!Init
  OBVIOUS
<1>1. Applied = {}
  BY TwoMigrations DEF MigrationsInit, Applied
<1>2. Up = {}
  BY DEF MigrationsInit, Down, Up
<1> QED BY <1>1, <1>2, FS_EmptySet DEF Versions!Init

\* What a step is to the others: one process moves, and no migration takes effect unless
\* it commits.
LEMMA OneMoves ==
  ASSUME MInv, NEW p \in Proc, Migrate(p) \/ CommitLost(p) \/ Crash(p) \/ GiveUp(p)
  PROVE  /\ \E b : Boot(p, b)
         /\ ids' = ids \/ (boot[p].pc = "recorded" /\ Persist(p))
<1> USE DEF At, Fail
<1>1. CASE Connect(p) \/ CreateTracking(p) \/ ReadApplied(p) \/ Crash(p) \/ GiveUp(p)
  BY <1>1 DEF Connect, CreateTracking, ReadApplied, Crash, GiveUp
<1>2. CASE RunSql(p) \/ Record(p)
  BY <1>2 DEF RunSql, Record
<1>3. CASE Commit(p) \/ CommitLost(p)
  BY <1>3 DEF Commit, CommitLost
<1> QED BY <1>1, <1>2, <1>3 DEF Migrate

LEMMA VersionsStep ==
  ASSUME MInv, MInv',
         MigrationsNext \/ (\E p \in Proc : GiveUp(p)) \/ UNCHANGED migrationVars
  PROVE  [Versions!Next]_(Versions!vars)
<1>0. (Applied = ids)'
  BY AppliedAreRecorded, PTL
<1>1. Applied = ids /\ Applied' = ids' /\ ids \in SUBSET Migration
  BY <1>0, AppliedAreRecorded DEF MInv, MigrationsTypeOK
<1>2. CASE UNCHANGED migrationVars
  BY <1>2 DEF migrationVars, Applied, Up, Versions!vars
<1>3. ASSUME NEW p \in Proc, Migrate(p) \/ CommitLost(p) \/ Crash(p) \/ GiveUp(p)
      PROVE  Versions!Next
  <2>1. PICK b : Boot(p, b)
    BY <1>3, OneMoves
  <2>2. Up' = IF b.pc = "up" THEN Up \cup {p} ELSE Up \ {p}
    BY <2>1 DEF Boot, Up, MInv, MigrationsTypeOK
  \* Whoever comes up finds every migration recorded, and so in effect.
  <2>3. b.pc = "up" => Applied' = Migration
    <3>1. boot'[p] = b
      BY <2>1 DEF Boot, MInv, MigrationsTypeOK
    <3> QED BY <1>1, <3>1 DEF MInv, Knows, MigrationsTypeOK
  <2>4. CASE ids' = ids
    BY <1>1, <2>2, <2>3, <2>4 DEF Versions!Next, Versions!Enter, Versions!Leave
  <2>5. CASE boot[p].pc = "recorded" /\ Persist(p)
    <3>1. Current(p) \in Migration \ ids /\ ids' = ids \cup {Current(p)}
      BY <2>5, CurrentIsNext DEF MInv, Knows, MigrationsTypeOK, BootType, Current, Persist
    <3>2. /\ Cardinality(Applied') = Cardinality(Applied) + 1
          /\ Cardinality(Applied) < Cardinality(Migration)
      BY <1>1, <3>1, MigrationsCounted
    <3>3. p \notin Up
      BY <2>5 DEF Up
    <3> QED BY <2>2, <2>3, <3>2, <3>3 DEF Versions!Next, Versions!Upgrade
  <2> QED BY <1>3, <2>4, <2>5, OneMoves
<1> QED BY <1>2, <1>3 DEF MigrationsNext

-----------------------------------------------------------------------------
(* migrate() on its own.                                                    *)

LEMMA MigrateInvariant == MigrationsSpec => [](MInv /\ Survivor)
<1>1. MInv /\ Survivor /\ [MigrationsNext]_migrationVars => (MInv /\ Survivor)'
  BY MInvStep, SurvivorStep
<1> QED BY <1>1, MInvInit, SurvivorInit, PTL DEF MigrationsSpec

\* Each migration is committed once and in order, whoever races for it or dies on it, a
\* process that has returned from migrate() finds the whole schema, and without crashes a
\* race leaves somebody.
THEOREM MigrationsAreApplied ==
  MigrationsSpec => [](AppliedOnceInOrder /\ UpMeansMigrated /\ SomebodySurvives)
  BY MigrateInvariant, MInvImplies, SurvivorImplies, PTL

\* migrate(), with its statements and transactions, is the schema version it promises.
THEOREM MigrateImplementsVersions == MigrationsSpec => ImplementsVersions
<1>1. MInv /\ [MigrationsNext]_migrationVars => [Versions!Next]_(Versions!vars)
  BY MInvStep, VersionsStep
<1> QED BY <1>1, MigrateInvariant, VersionsInit, PTL
        DEF MigrationsSpec, ImplementsVersions, Versions!Spec
=============================================================================
