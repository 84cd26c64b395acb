----------------------------- MODULE Collection -----------------------------
(***************************************************************************)
(* Metric collection: the collector's ingest orchestration writing to the  *)
(* shared state database.                                                  *)
(*                                                                         *)
(* A collection is one call of ingest.Start followed by ingest.Finish.     *)
(* The trigger service runs Finish in a background goroutine per request;  *)
(* the CronJob runs `collector ingest`, one OS process per job.  All of    *)
(* them, and the engine, write to one database, either SQLite (a single    *)
(* writer for the whole file) or Postgres (row locks).                     *)
(*                                                                         *)
(* A sample key stands for (workload, timestamp) of one cluster; the value *)
(* of a stored row is abstracted to the collection that wrote it, which    *)
(* also gives its collected_at.                                            *)
(***************************************************************************)
EXTENDS Integers, Sequences, FiniteSets, Functions, SequencesExt

CONSTANTS
  ServiceColl,   \* collections requested by POST /ingest
  CronColl,      \* collections run by CronJob pods (`collector ingest`)
  Workloads,     \* workload uids Prometheus may report
  Times,         \* sample timestamps of the window
  MaxRows,       \* bound: rows returned by one fetch
  Dialect,       \* "sqlite" or "postgres"
  Crashes,       \* TRUE if the service or a pod may be stopped at any point
  Failures,      \* TRUE if any statement may fail, whatever the reason
  EngineWrites,  \* TRUE if the engine may hold SQLite's write lock
  None           \* no collection

Coll == ServiceColl \cup CronColl
Keys == Workloads \X Times

ASSUME CollAssumption ==
  /\ ServiceColl \cap CronColl = {}
  /\ IsFiniteSet(Coll)
  /\ None \notin Coll
  /\ MaxRows \in Nat
  /\ Dialect \in {"sqlite", "postgres"}
  /\ Crashes \in BOOLEAN /\ Failures \in BOOLEAN
  /\ EngineWrites \in BOOLEAN

StepName == {"metrics", "interactions"}
Terminal == {"success", "partial", "failed"}

\* The steps the CLI runs for its --all, --metrics and --interactions flags.
SelectedSteps(all, metrics, interactions) ==
  IF all THEN <<"metrics", "interactions">>
  ELSE LET out == (IF metrics THEN <<"metrics">> ELSE <<>>) \o
                  (IF interactions THEN <<"interactions">> ELSE <<>>)
       IN  IF out = <<>> THEN <<"metrics">> ELSE out

CliSteps == {SelectedSteps(a, m, i) : a, m, i \in BOOLEAN}

VARIABLES
  row,        \* collection_runs: row[c].status and row[c].rows (rows_written)
  known,      \* disc_workloads: workloads with a committed identity row
  sample,     \* metric_samples: the collection that wrote a key, or None
  pc,         \* where each collection's goroutine or process is
  steps,      \* the request's steps
  at,         \* index of the step being run
  errs,       \* number of failed steps so far
  total,      \* rows written so far
  batch,      \* samples returned by the metrics fetch, in upsert order
  idents,     \* the workloads of the batch, in upsert order
  next,       \* index of the next row to upsert in the open transaction
  fetched,    \* order of the fetches: stands for collected_at
  clock,      \* number of fetches made
  commits,    \* history: collections in the order their sample batches were committed
  engineTx,   \* SQLite: the engine holds the write lock
  serviceUp   \* the trigger service is running

db == <<row, known, sample>>
local == <<pc, steps, at, errs, total, batch, idents, next, fetched>>
vars == <<db, local, clock, commits, engineTx, serviceUp>>

-----------------------------------------------------------------------------
(* Locks.  A transaction holds locks from its first row on.                *)

Upserting == {"workloads", "samples"}

\* The rows of the transaction c is in: each stage writes to a table of its own.
Rows(c) == IF pc[c] = "workloads" THEN idents[c] ELSE batch[c]

InTx(c) == pc[c] \in Upserting /\ next[c] > 1

Locked(c) == IF InTx(c) THEN {<<pc[c], Rows(c)[i]>> : i \in 1 .. next[c] - 1} ELSE {}

\* The OS process a collection runs in: SQLite's busy timeout applies between
\* processes, while the collections of one process queue on its single pooled
\* connection without a timeout.
Process(c) == IF c \in ServiceColl THEN None ELSE c

\* A statement of c that writes can run now.
CanWrite(c) ==
  Dialect = "sqlite" => ~engineTx /\ \A o \in Coll \ {c} : ~InTx(o)

\* Another process holds the write lock: the busy timeout may expire.
MayTimeOut(c) ==
  /\ Dialect = "sqlite"
  /\ engineTx \/ \E o \in Coll \ {c} : InTx(o) /\ Process(o) # Process(c)

\* c's next row is locked by o.
WaitsFor(c, o) ==
  /\ Dialect = "postgres"
  /\ o # c
  /\ pc[c] \in Upserting /\ next[c] \in DOMAIN Rows(c)
  /\ <<pc[c], Rows(c)[next[c]]>> \in Locked(o)

Deadlocked(c) ==
  \E S \in SUBSET Coll : c \in S /\ \A x \in S : \E y \in S : WaitsFor(x, y)

-----------------------------------------------------------------------------
(* ingest.Start: the row is created with status running.                   *)

\* Mutant: CronJob pods overlap, as with concurrencyPolicy Allow.
MayStartBeside(c) == c \in ServiceColl => serviceUp

\* concurrencyPolicy Forbid: a CronJob pod is not started beside another one.
MayStart(c) ==
  IF c \in ServiceColl THEN serviceUp
  ELSE \A o \in CronColl : pc[o] \in {"idle", "ended", "dropped", "dead"}

Start(c) ==
  /\ pc[c] = "idle" /\ MayStart(c) /\ CanWrite(c)
  /\ row' = [row EXCEPT ![c].status = "running"]
  /\ pc' = [pc EXCEPT ![c] = "step"]
  /\ steps' \in {[steps EXCEPT ![c] = s] :
                    s \in IF c \in ServiceColl THEN {<<"metrics">>} ELSE CliSteps}
  /\ UNCHANGED <<known, sample, at, errs, total, batch, idents, next, fetched,
                 clock, commits, engineTx, serviceUp>>

\* EnsureCluster or CreateCollectionRun fails: no row, an error to the caller.
StartFails(c) ==
  /\ pc[c] = "idle" /\ MayStart(c) /\ (Failures \/ MayTimeOut(c))
  /\ pc' = [pc EXCEPT ![c] = "ended"]
  /\ UNCHANGED <<db, steps, at, errs, total, batch, idents, next, fetched,
                 clock, commits, engineTx, serviceUp>>

-----------------------------------------------------------------------------
(* ingest.Finish: the loop over the steps.                                 *)

AtStep(c, name) ==
  pc[c] = "step" /\ at[c] \in DOMAIN steps[c] /\ steps[c][at[c]] = name

\* Mutant: the first error leaves Finish without closing the row.
StepFailedReturns(c) ==
  /\ pc' = [pc EXCEPT ![c] = "ended"]
  /\ UNCHANGED <<db, steps, at, errs, total, batch, idents, fetched,
                 clock, commits, engineTx, serviceUp>>

\* A step returned an error: it is counted and the next step runs.
StepFailed(c) ==
  /\ errs' = [errs EXCEPT ![c] = @ + 1]
  /\ at' = [at EXCEPT ![c] = @ + 1]
  /\ pc' = [pc EXCEPT ![c] = "step"]
  /\ UNCHANGED <<db, steps, total, batch, idents, fetched,
                 clock, commits, engineTx, serviceUp>>

\* interactionsStep.Run only returns an error.
InteractionsStep(c) ==
  AtStep(c, "interactions") /\ StepFailed(c) /\ UNCHANGED next

\* FetchMetrics: any failing resource query discards the whole result.
FetchFails(c) ==
  AtStep(c, "metrics") /\ StepFailed(c) /\ UNCHANGED next

\* The workloads of a result, each once, in the order of their first series.
Identities(s) ==
  {ids \in BoundedSeq(Workloads, Len(s)) :
     /\ Range(ids) = {k[1] : k \in Range(s)} /\ IsInjective(ids)
     /\ \A i, j \in DOMAIN ids : i < j =>
          \E m \in DOMAIN s : s[m][1] = ids[i] /\ \A n \in 1 .. m : s[n][1] # ids[j]}

FetchMetrics(c) ==
  /\ AtStep(c, "metrics")
  /\ \E s \in BoundedSeq(Keys, MaxRows) : \E ids \in Identities(s) :
       batch' = [batch EXCEPT ![c] = s] /\ idents' = [idents EXCEPT ![c] = ids]
  /\ clock' = clock + 1
  /\ fetched' = [fetched EXCEPT ![c] = clock + 1]
  /\ pc' = [pc EXCEPT ![c] = "workloads"]
  /\ UNCHANGED <<db, steps, at, errs, total, next, commits, engineTx, serviceUp>>

\* Mutant: each sample is committed by itself.
UpsertRowAutocommit(c) ==
  /\ pc[c] \in Upserting /\ next[c] \in DOMAIN Rows(c) /\ CanWrite(c)
  /\ sample' = IF pc[c] = "samples" THEN [sample EXCEPT ![batch[c][next[c]]] = c] ELSE sample
  /\ next' = [next EXCEPT ![c] = @ + 1]
  /\ UNCHANGED <<row, known, pc, steps, at, errs, total, batch, idents, fetched,
                 clock, commits, engineTx, serviceUp>>

\* UpsertWorkloads, then UpsertMetricSamples: the rows of one transaction, one
\* statement each.
UpsertRow(c) ==
  /\ pc[c] \in Upserting /\ next[c] \in DOMAIN Rows(c)
  /\ CanWrite(c) /\ \A o \in Coll : ~WaitsFor(c, o)
  /\ next' = [next EXCEPT ![c] = @ + 1]
  /\ UNCHANGED <<db, pc, steps, at, errs, total, batch, idents, fetched,
                 clock, commits, engineTx, serviceUp>>

\* Mutant: the identities are left for later.
CommitWorkloadsSkipped(c) ==
  /\ pc[c] = "workloads" /\ next[c] = Len(idents[c]) + 1
  /\ pc' = [pc EXCEPT ![c] = "samples"]
  /\ next' = [next EXCEPT ![c] = 1]
  /\ UNCHANGED <<db, steps, at, errs, total, batch, idents, fetched,
                 clock, commits, engineTx, serviceUp>>

\* The identities become visible; an empty result opens no transaction.
CommitWorkloads(c) ==
  /\ pc[c] = "workloads" /\ next[c] = Len(idents[c]) + 1
  /\ known' = known \cup Range(idents[c])
  /\ pc' = [pc EXCEPT ![c] = "samples"]
  /\ next' = [next EXCEPT ![c] = 1]
  /\ UNCHANGED <<row, sample, steps, at, errs, total, batch, idents, fetched,
                 clock, commits, engineTx, serviceUp>>

\* Every sample of the batch becomes visible and the step returns.
CommitSamples(c) ==
  /\ pc[c] = "samples" /\ next[c] = Len(batch[c]) + 1
  /\ sample' = [k \in Keys |-> IF k \in Range(batch[c]) THEN c ELSE sample[k]]
  /\ commits' = Append(commits, c)
  /\ total' = [total EXCEPT ![c] = @ + Len(batch[c])]
  /\ at' = [at EXCEPT ![c] = @ + 1]
  /\ pc' = [pc EXCEPT ![c] = "step"]
  /\ next' = [next EXCEPT ![c] = 1]
  /\ UNCHANGED <<row, known, steps, errs, batch, idents, fetched,
                 clock, engineTx, serviceUp>>

\* A statement of the transaction or its COMMIT returns an error: inTx rolls back and
\* the step fails.
RollBack(c) ==
  /\ pc[c] \in Upserting /\ Rows(c) # <<>>
  /\ StepFailed(c)
  /\ next' = [next EXCEPT ![c] = 1]

\* The busy timeout expires before the transaction got the write lock.
BusyTimeout(c) == MayTimeOut(c) /\ next[c] = 1 /\ RollBack(c)

\* Postgres aborts one transaction of a cycle of waiting ones.
DeadlockAbort(c) == Deadlocked(c) /\ RollBack(c)

\* Any other error, on either database.
StatementFails(c) == Failures /\ RollBack(c)

\* Mutant: any error is called partial.
statusForLenient(nErr, nSteps, rows) == IF nErr = 0 THEN "success" ELSE "partial"

\* The status of a whole collection from what its steps returned.
statusFor(nErr, nSteps, rows) ==
  CASE nErr = 0 -> "success"
    [] nErr # 0 /\ (rows > 0 \/ nErr < nSteps) -> "partial"
    [] OTHER -> "failed"

StepsDone(c) == pc[c] = "step" /\ at[c] > Len(steps[c])

\* UpdateCollectionRun with the status of the whole collection.
FinishRow(c) ==
  /\ StepsDone(c) /\ CanWrite(c)
  /\ row' = [row EXCEPT ![c] = [status |-> statusFor(errs[c], Len(steps[c]), total[c]),
                                rows   |-> total[c]]]
  /\ pc' = [pc EXCEPT ![c] = "ended"]
  /\ UNCHANGED <<known, sample, steps, at, errs, total, batch, idents, next, fetched,
                 clock, commits, engineTx, serviceUp>>

\* UpdateCollectionRun fails: the service's goroutine drops the error, the CLI exits
\* with it; nobody tries again.
FinishFails(c) ==
  /\ StepsDone(c) /\ (Failures \/ MayTimeOut(c))
  /\ pc' = [pc EXCEPT ![c] = "dropped"]
  /\ UNCHANGED <<db, steps, at, errs, total, batch, idents, next, fetched,
                 clock, commits, engineTx, serviceUp>>

-----------------------------------------------------------------------------
(* The environment: processes stop, the engine takes the write lock.       *)

\* Serve returns (or the pod is killed): the background goroutines die with
\* the process and their open transactions are rolled back.
ServiceStops ==
  /\ Crashes /\ serviceUp
  /\ serviceUp' = FALSE
  /\ pc' = [c \in Coll |-> IF c \in ServiceColl /\ pc[c] \notin {"idle", "ended", "dropped"}
                            THEN "dead" ELSE pc[c]]
  /\ UNCHANGED <<db, steps, at, errs, total, batch, idents, next, fetched,
                 clock, commits, engineTx>>

ServiceRestarts ==
  /\ ~serviceUp
  /\ serviceUp' = TRUE
  /\ UNCHANGED <<db, local, clock, commits, engineTx>>

PodDies(c) ==
  /\ Crashes /\ c \in CronColl /\ pc[c] \notin {"idle", "ended", "dropped", "dead"}
  /\ pc' = [pc EXCEPT ![c] = "dead"]
  /\ UNCHANGED <<db, steps, at, errs, total, batch, idents, next, fetched,
                 clock, commits, engineTx, serviceUp>>

\* A run of the engine holds the write lock from its first INSERT to its commit.
EngineLocks ==
  /\ EngineWrites /\ Dialect = "sqlite" /\ ~engineTx
  /\ \A c \in Coll : ~InTx(c)
  /\ engineTx' = TRUE
  /\ UNCHANGED <<db, local, clock, commits, serviceUp>>

EngineUnlocks ==
  /\ engineTx
  /\ engineTx' = FALSE
  /\ UNCHANGED <<db, local, clock, commits, serviceUp>>

-----------------------------------------------------------------------------
Init ==
  /\ row = [c \in Coll |-> [status |-> "absent", rows |-> 0]]
  /\ known = {}
  /\ sample = [k \in Keys |-> None]
  /\ pc = [c \in Coll |-> "idle"]
  /\ steps = [c \in Coll |-> <<>>]
  /\ at = [c \in Coll |-> 1]
  /\ errs = [c \in Coll |-> 0]
  /\ total = [c \in Coll |-> 0]
  /\ batch = [c \in Coll |-> <<>>]
  /\ idents = [c \in Coll |-> <<>>]
  /\ next = [c \in Coll |-> 1]
  /\ fetched = [c \in Coll |-> 0]
  /\ clock = 0
  /\ commits = <<>>
  /\ engineTx = FALSE
  /\ serviceUp = TRUE

\* What a collection does by itself once it was started.  A wait for SQLite's lock ends
\* with the lock or the busy timeout, a cycle of waiting transactions with an abort.
Advance(c) ==
  \/ InteractionsStep(c) \/ FetchFails(c) \/ FetchMetrics(c)
  \/ UpsertRow(c) \/ CommitWorkloads(c) \/ CommitSamples(c)
  \/ BusyTimeout(c) \/ DeadlockAbort(c)
  \/ FinishRow(c) \/ FinishFails(c)

Next ==
  \/ \E c \in Coll : Start(c) \/ StartFails(c) \/ Advance(c) \/ StatementFails(c) \/ PodDies(c)
  \/ ServiceStops \/ ServiceRestarts
  \/ EngineLocks \/ EngineUnlocks

\* A goroutine that can take a step is eventually scheduled, and the engine's
\* transactions end.  That a statement fails by itself is never counted on.
Fairness ==
  /\ \A c \in Coll : WF_vars(Advance(c))
  /\ WF_vars(EngineUnlocks)

Spec == Init /\ [][Next]_vars /\ Fairness

-----------------------------------------------------------------------------
TypeOK ==
  /\ row \in [Coll -> [status : Terminal \cup {"absent", "running"}, rows : Nat]]
  /\ known \subseteq Workloads
  /\ sample \in [Keys -> Coll \cup {None}]
  /\ pc \in [Coll -> {"idle", "step", "workloads", "samples", "ended", "dropped", "dead"}]
  /\ steps \in [Coll -> Seq(StepName)]
  /\ at \in [Coll -> Nat] /\ errs \in [Coll -> Nat] /\ total \in [Coll -> Nat]
  /\ batch \in [Coll -> Seq(Keys)] /\ idents \in [Coll -> Seq(Workloads)]
  /\ next \in [Coll -> Nat]
  /\ fetched \in [Coll -> Nat] /\ clock \in Nat
  /\ commits \in Seq(Coll)
  /\ engineTx \in BOOLEAN /\ serviceUp \in BOOLEAN
-----------------------------------------------------------------------------
(* Safety                                                                  *)

\* metric_samples is what the committed batches leave when they are applied
\* one after the other, in the order of their commits: no row of a batch that
\* failed, was rolled back or died with its process is ever visible, and no
\* row of a committed one is missing (UpsertMetricSamples in inTx).
BatchesWhole ==
  \A k \in Keys :
    LET writers == {i \in DOMAIN commits : k \in Range(batch[commits[i]])}
    IN  IF writers = {} THEN sample[k] = None
        ELSE \E i \in writers : sample[k] = commits[i] /\ \A j \in writers : j <= i

\* The engine labels a series from disc_workloads: a sample is never visible
\* before the identity of its workload (MetricsStep.Run upserts workloads first).
SamplesIdentified ==
  \A k \in Keys : sample[k] # None => k[1] \in known

\* Among the CronJob's collections a later commit never replaces a sample by one
\* fetched earlier, so their data_as_of, derived from max(collected_at), cannot move
\* backwards.  This needs concurrencyPolicy Forbid: the upsert itself does not
\* compare collected_at.
FreshnessKept ==
  [][\A k \in Keys : sample[k] \in CronColl /\ sample'[k] \in CronColl =>
        fetched'[sample'[k]] >= fetched[sample[k]]]_vars

-----------------------------------------------------------------------------
(* What pollers of collection_runs are promised.                           *)

Ledger == INSTANCE CollectionLedger WITH
            status    <- [c \in Coll |-> row[c].status],
            written   <- [c \in Coll |-> row[c].rows],
            published <- [c \in Coll |-> IF c \in Range(commits) THEN Len(batch[c]) ELSE -1]

\* The rows implement the ledger of CollectionLedger.
LedgerSpec == Ledger!Spec

\* A collection whose row says running reaches a terminal status unless its process
\* is stopped or the one update that closes the row is refused: no failing step, no
\* wait for a lock and no deadlock of two upserts before that leaves it hanging
\* (Finish records errors and goes on).
EveryCollectionEnds ==
  \A c \in Coll :
    row[c].status = "running" ~> row[c].status \in Terminal \/ pc[c] \in {"dead", "dropped"}

\* The callers of the trigger service are told to poll the row for a terminal status
\* (server.go); this says that they always get one.
PollersServed ==
  \A c \in ServiceColl : row[c].status = "running" ~> row[c].status \in Terminal
=============================================================================
