----------------------------- MODULE Migrations -----------------------------
(***************************************************************************)
(* How a state database gets its schema.  Every collector command migrates *)
(* when it starts (runMigrations): each migration file it does not find in *)
(* schema_migrations is applied in a transaction that also records the     *)
(* version.  Nothing serializes two commands that start together, and a    *)
(* command that fails is started again (Deployment, Job and CronJob).      *)
(*                                                                         *)
(* On SQLite the engine creates the same schema from the same files        *)
(* (apply_schema, for init-db and synth --seed-db): statement by statement,*)
(* each committed alone, and without a record.                             *)
(*                                                                         *)
(* The statements of all files are numbered in the order of the files.     *)
(* None of them says IF NOT EXISTS: executed a second time, it fails.      *)
(***************************************************************************)
EXTENDS Integers, FiniteSets, FiniteSetsExt

CONSTANTS
  Commands,   \* collector processes: db migrate, ingest, serve
  Scripts,    \* engine processes: init-db, synth --seed-db
  Versions,   \* number of migration files
  Ends,       \* the last statement of each file
  Probe,      \* the statement that creates metric_samples
  Dialects,   \* the databases the instance looks at
  MaxFaults   \* bound: statements that fail, waits that time out, processes killed

ASSUME MigrationAssumption ==
  /\ IsFiniteSet(Commands) /\ IsFiniteSet(Scripts) /\ Commands \cap Scripts = {}
  /\ Versions \in Nat \ {0}
  /\ Ends \in [1 .. Versions -> Nat \ {0}]
  /\ \A v, w \in 1 .. Versions : v < w => Ends[v] < Ends[w]
  /\ Probe \in 1 .. Ends[1]
  /\ Dialects \subseteq {"sqlite", "postgres"}
  /\ MaxFaults \in Nat

Files == 1 .. Versions
Statements == 1 .. Ends[Versions]
StatementsOf(v) == {s \in Statements : s <= Ends[v] /\ \A w \in Files : w < v => s > Ends[w]}

VARIABLES
  dialect,
  objects,   \* the statements whose effect is committed
  foreign,   \* history: those committed by a script
  versions,  \* schema_migrations
  pc,        \* where each process is
  todo,      \* files a command has not applied yet, as it read them when it started
  ran,       \* statements of a command's open transaction; those a script executed
  faults

vars == <<dialect, objects, foreign, versions, pc, todo, ran, faults>>
schema == <<objects, foreign, versions>>

-----------------------------------------------------------------------------
(* runMigrations.                                                          *)

\* CREATE TABLE IF NOT EXISTS schema_migrations; appliedVersions.
ReadVersions(p) ==
  /\ pc[p] = "start"
  /\ todo' = [todo EXCEPT ![p] = Files \ versions]
  /\ pc' = [pc EXCEPT ![p] = "migrate"]
  /\ UNCHANGED <<schema, ran, faults>>

File(p) == Min(todo[p])
Left(p) == StatementsOf(File(p)) \ ran[p]

\* SQLite has one writer; in Postgres a statement waits for the transaction that
\* executed the same one.
Blocked(p, s) ==
  \E q \in Commands \ {p} : ran[q] # {} /\ (dialect = "sqlite" \/ s \in ran[q])

\* Mutant: the version is recorded in a transaction of its own, before the file's.
ExecuteRecorded(p) ==
  /\ pc[p] = "migrate" /\ todo[p] # {} /\ Left(p) # {}
  /\ LET s == Min(Left(p))
     IN  ~Blocked(p, s) /\ s \notin objects /\ ran' = [ran EXCEPT ![p] = @ \cup {s}]
  /\ versions' = versions \cup {File(p)}
  /\ UNCHANGED <<objects, foreign, pc, todo, faults>>

\* The next statement of the file's transaction.
Execute(p) ==
  /\ pc[p] = "migrate" /\ todo[p] # {} /\ Left(p) # {}
  /\ LET s == Min(Left(p))
     IN  ~Blocked(p, s) /\ s \notin objects /\ ran' = [ran EXCEPT ![p] = @ \cup {s}]
  /\ UNCHANGED <<schema, pc, todo, faults>>

\* The INSERT of the version and the commit.
Commit(p) ==
  /\ pc[p] = "migrate" /\ todo[p] # {} /\ Left(p) = {}
  /\ objects' = objects \cup ran[p]
  /\ versions' = versions \cup {File(p)}
  /\ todo' = [todo EXCEPT ![p] = @ \ {File(p)}]
  /\ ran' = [ran EXCEPT ![p] = {}]
  /\ UNCHANGED <<foreign, pc, faults>>

\* Every file is applied: the command goes on to its work.
Ready(p) ==
  /\ pc[p] = "migrate" /\ todo[p] = {}
  /\ pc' = [pc EXCEPT ![p] = "ready"]
  /\ UNCHANGED <<schema, todo, ran, faults>>

\* The process ends with an error, an open transaction is rolled back.
Fail(p) ==
  /\ pc' = [pc EXCEPT ![p] = "failed"]
  /\ ran' = [ran EXCEPT ![p] = {}]
  /\ UNCHANGED <<schema, todo>>

\* Mutant: a file whose tables exist is taken for applied.
CollideSkipping(p) ==
  /\ pc[p] = "migrate" /\ todo[p] # {} /\ Left(p) \cap objects # {}
  /\ todo' = [todo EXCEPT ![p] = @ \ {File(p)}]
  /\ ran' = [ran EXCEPT ![p] = {}]
  /\ UNCHANGED <<schema, pc, faults>>

\* The next statement was executed by somebody since the versions were read.
Collide(p) ==
  /\ pc[p] = "migrate" /\ todo[p] # {} /\ Left(p) # {}
  /\ LET s == Min(Left(p)) IN ~Blocked(p, s) /\ s \in objects
  /\ Fail(p)
  /\ UNCHANGED faults

-----------------------------------------------------------------------------
(* apply_schema.                                                           *)

\* Nothing is done if metric_samples exists; the caller says "schema ready".
Check(q) ==
  /\ pc[q] = "start" /\ dialect = "sqlite"
  /\ pc' = [pc EXCEPT ![q] = IF Probe \in objects THEN "ready" ELSE "script"]
  /\ UNCHANGED <<schema, todo, ran, faults>>

\* executescript: a statement, committed at once.
ScriptExecutes(q) ==
  /\ pc[q] = "script" /\ Statements \ ran[q] # {}
  /\ LET s == Min(Statements \ ran[q])
     IN  /\ ~Blocked(q, s) /\ s \notin objects
         /\ ran' = [ran EXCEPT ![q] = @ \cup {s}]
         /\ objects' = objects \cup {s}
         /\ foreign' = foreign \cup {s}
  /\ UNCHANGED <<versions, pc, todo, faults>>

ScriptCollides(q) ==
  /\ pc[q] = "script" /\ Statements \ ran[q] # {}
  /\ LET s == Min(Statements \ ran[q]) IN ~Blocked(q, s) /\ s \in objects
  /\ Fail(q)
  /\ UNCHANGED faults

ScriptReady(q) ==
  /\ pc[q] = "script" /\ ran[q] = Statements
  /\ pc' = [pc EXCEPT ![q] = "ready"]
  /\ UNCHANGED <<schema, todo, ran, faults>>

-----------------------------------------------------------------------------
(* Failures and restarts.                                                  *)

\* A statement fails, a wait for the lock times out, or the process is killed.
Fault(p) ==
  /\ pc[p] \in {"start", "migrate", "script"} /\ faults < MaxFaults
  /\ faults' = faults + 1
  /\ Fail(p)

\* Mutant: a retry goes on with the versions read before.
RestartStale(p) ==
  /\ pc[p] = "failed"
  /\ pc' = [pc EXCEPT ![p] = IF p \in Commands /\ todo[p] # {} THEN "migrate" ELSE "start"]
  /\ UNCHANGED <<schema, todo, ran, faults>>

Restart(p) ==
  /\ pc[p] = "failed"
  /\ pc' = [pc EXCEPT ![p] = "start"]
  /\ UNCHANGED <<schema, todo, ran, faults>>

-----------------------------------------------------------------------------
Applied(v) == {s \in Statements : s <= Ends[v]}

\* A new database, or one made by an earlier release: its collector's, or its engine's.
Init ==
  /\ dialect \in Dialects
  /\ \E k \in 0 .. Versions - 1 :
       LET made == IF k = 0 THEN {} ELSE Applied(k)
       IN  /\ objects = made
           /\ \/ versions = 1 .. k /\ foreign = {}
              \/ dialect = "sqlite" /\ versions = {} /\ foreign = made
  /\ pc = [p \in Commands \cup Scripts |-> "start"]
  /\ todo = [p \in Commands |-> {}]
  /\ ran = [p \in Commands \cup Scripts |-> {}]
  /\ faults = 0

Migrate(p) == ReadVersions(p) \/ Execute(p) \/ Commit(p) \/ Ready(p) \/ Collide(p)

ApplySchema(q) == Check(q) \/ ScriptExecutes(q) \/ ScriptCollides(q) \/ ScriptReady(q)

Next ==
  /\ \/ \E p \in Commands : Migrate(p)
     \/ \E q \in Scripts : ApplySchema(q)
     \/ \E p \in Commands \cup Scripts : Fault(p) \/ Restart(p)
  /\ UNCHANGED dialect

\* A collector command runs on, and Kubernetes starts it again; nobody repeats a script.
Fairness ==
  \A p \in Commands :
    /\ WF_vars(Migrate(p) /\ UNCHANGED dialect)
    /\ WF_vars(Restart(p) /\ UNCHANGED dialect)

Spec == Init /\ [][Next]_vars /\ Fairness

-----------------------------------------------------------------------------
TypeOK ==
  /\ dialect \in Dialects
  /\ objects \in SUBSET Statements /\ foreign \in SUBSET Statements
  /\ versions \in SUBSET Files
  /\ pc \in [Commands \cup Scripts -> {"start", "migrate", "script", "ready", "failed"}]
  /\ todo \in [Commands -> SUBSET Files]
  /\ ran \in [Commands \cup Scripts -> SUBSET Statements]
  /\ faults \in 0 .. MaxFaults

\* schema_migrations tells what the collectors made of the schema: whole files, each
\* with its version, and never one beside the statements of a script - however
\* commands that start together, failures and restarts interleave (applyMigration).
LedgerTellsSchema ==
  /\ objects = foreign \cup UNION {StatementsOf(v) : v \in versions}
  /\ foreign # {} => versions = {}

\* A command that goes on to collect or to serve does so on the whole schema, and on
\* one made by migrations alone: never beside another's half-applied file, nor on a
\* database that a script created or left half created.
ReadyIsMigrated ==
  \A p \in Commands : pc[p] = "ready" => objects = Statements /\ foreign = {}

\* Commands that start together hinder each other, but every one of them gets ready
\* in the end, unless a script has had its hands in the database.
Converges == \A p \in Commands : <>(pc[p] = "ready" \/ foreign # {})
=============================================================================
