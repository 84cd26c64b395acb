# Kube Siesta in TLA+

Kube Siesta collects metrics of Kubernetes workloads into a database and derives two kinds of advice
from them: which workloads could be jobs, and when a workload can be taken down with the least impact.
This directory holds TLA+ models of the parts of it in which order, failure and arithmetic matter, the
TLC runs that check them on small instances, and TLAPS proofs of what holds for every instance.
`PROJECT.json` maps each definition to the lines it models and lists runs, mutants, hazards and theorems.

    tlc -config <Run>.cfg <module of the run>      # the table below names both
    tlapm Collection_proofs.tla                    # and the seven other *_proofs modules

## 1. The system

The **collector** (Go, `src/collector`) queries Prometheus and writes the state database; the **engine**
(Python, `src/engine`) reads it, writes runs and recommendations into it and serves the HTTP API; the
**UI** (`src/ui`) is a client of that API. The database (SQLite or PostgreSQL) is the only state they share.

| Component | State it keeps | Operations | Talks to |
|---|---|---|---|
| collection orchestration (`ingest`, `steps`) | one `collection_runs` row per collection | `Start`, `Finish` (loop over the steps, status), `Run` | connector, store |
| trigger service (`server`) | a background goroutine per request | `POST /ingest`: `Start`, answer 202, `Finish` in the background; shutdown | engine's collector client |
| collector CLI, CronJob (`cmd/collector`, Helm chart) | a process per job | `ingest`, `serve`, `db migrate` | store; `concurrencyPolicy: Forbid` |
| collector store (`store/sql.go`) | clusters, `disc_workloads`, `metric_samples`, `collection_runs` | upserts in one transaction each, row updates | SQLite lock / Postgres row locks |
| migrations (`store/migrate.go`, `StateStore.apply_schema`) | `schema_migrations`, the schema | apply the missing files, each in a transaction; on SQLite also as one script, without a record | every collector command; `init-db`, `synth --seed-db` |
| Prometheus connector | none | `FetchMetrics`: a query per resource, all or nothing | Prometheus |
| engine store (`statestore.py`) | runs, recommendations, maintenance results, interactions, configuration | implicit transactions, `commit`, `close` | the same database |
| job recommender (`recommenders/job`) | memo of signals of a run | `run_job_analysis`: collect, row, a card per workload | store, analysis core, collector client |
| maintenance recommender (`recommenders/maintenance`) | none beyond its run | headroom, dependencies, forecast, scores, window, result | store, analysis core |
| analysis core (`analysis_core`) | none | periodicity, seasonality, masks, filters | - |
| engine API, CLI, dispatcher | one store per request | `/runs`, `/clusters`, `/sources`, `/collections`, ... | store, recommenders |
| collector client (`engine/collector.py`) | none | trigger, poll until terminal or timed out | trigger service, `collection_runs` |
| UI | selected cluster, `lastRun`, timers | start a run, wait for it, show its cards, ask for a card's evidence | engine API |

What is hard here, and what makes each part correct:

* **The schema** is made by whoever starts first: several collector commands at once, restarted when they fail, and on SQLite
  the engine's scripts. *Correct*: `schema_migrations` tells what was applied; nobody works on a part of the schema;
  without the scripts every command gets ready.
* **Collections** overlap: several background goroutines, a CronJob pod and the engine write to one
  database. SQLite has a single write lock (with a busy timeout between processes, and one pooled
  connection within the service); Postgres locks rows, and two upserts of the same rows in different
  orders deadlock. Any process may stop anywhere. *Correct*: batches are visible whole or not at all and in
  the order of their commits; samples never precede identities; a row is closed once and says what was
  stored; whoever is not killed, and whose last update is not refused, closes its row.
* **Runs** write their row and cards through an implicit transaction, beside collections, other runs and
  the deletion of the cluster. A statement may fail half way through a card; in Postgres it aborts the
  transaction, in SQLite it does not. *Correct*: a completed run has every card it should, whole; a card
  that is not whole belongs to a failed run; cards of one run tell one figure of a workload; a caller told
  "completed" can find the run; a run does not stay `running`. A run knows its row by id only, and SQLite gives
  the ids of deleted rows again: a run that works on after its cluster was deleted may meet another run's row.
* **Dependencies** are searched with one query per node, on a graph with cycles that grows meanwhile.
  *Correct*: all and only the transitive callers, each once; termination.
* **Configuration** requests overlap: a handler checks, probes over the network and writes in separate steps, by id
  or name, while others delete and register. *Correct*: a name means one cluster, a source has a cluster, a status or
  health was found for the very row that shows it, and says what the server asked for answered.
* **Signals** pass a chain of filters with thresholds of their own; two copies of the chain serve the two recommenders.
  *Correct*: what passes makes a card (it has a window), its labels agree with its figures, a job candidate has a
  timeline in a maintenance run too, and busy hours are seen to be busy.
* **The window** is arithmetic on samples: inclusive ends, rounding with ties to even, cumulative sums.
  *Correct*: a request with headroom is served; the earliest window of least impact is found; its score is
  accounted for; how far it may pass the deadline is bounded; the parts of the result agree.
* **Results** are read by id, with several statements per answer, in a tab that may follow up several runs at once.
  *Correct*: the cards are those of the run, all of them; a dialog tells of the card that was clicked.

## 2. The models

### `Collection` (with `CollectionLedger`)

A collection is one `ingest.Start` followed by `ingest.Finish`. `pc` is where its goroutine or process is: `idle`,
`step` (about to run step `at` of `steps`), `workloads` and `samples` (inside the two transactions of the metrics step),
`ended`, `dropped` (the update that closes the row was refused), `dead` (its process was stopped). A sample key is a
pair (workload, timestamp); the value stored for it is abstracted to the collection that wrote it, which stands for the
value and for `collected_at` (`fetched` orders the fetches).

| Action | Code |
|---|---|
| `Start`, `StartFails` | `ingest.Start` / an error before there is a row |
| `FetchMetrics`, `FetchFails` | the connector returns rows, or one query fails and all is discarded |
| `UpsertRow`, `CommitWorkloads`, `CommitSamples` | the rows of `UpsertWorkloads` and then of `UpsertMetricSamples`, one statement each, and the commits |
| `BusyTimeout`, `DeadlockAbort`, `StatementFails` | SQLite's busy timeout; Postgres aborts a transaction in a cycle of waiting ones; any other error of a statement or a COMMIT. All roll back (`RollBack`) |
| `InteractionsStep` | the stub returns an error |
| `FinishRow`, `FinishFails` | `UpdateCollectionRun` with `statusFor`, or its error, which the service drops |
| `ServiceStops`, `ServiceRestarts`, `PodDies` | goroutines and pods die; their transactions are rolled back |
| `EngineLocks`, `EngineUnlocks` | a run of the engine holds SQLite's write lock |

`CanWrite`, `MayTimeOut`, `WaitsFor` and `Deadlocked` model the databases' locks; they and `DeadlockAbort` are
the only definitions that model code outside the repository. `Rows` are those of the open transaction, the `idents`
of a result (each workload once, in the order of the series: `Identities`) or its `batch`; those before `next` are
written and locked, and in no table until the commit. `commits` is a history variable. Statements fail for any reason
(`Failures`) on either database, the ones that open and close the row too (`StartFails`, `FinishFails`).

`CollectionLedger` is the promise to whoever polls `collection_runs`: a row is opened as `running`; samples are
published whole, once, and only while it is; it is closed once, with `success` or `partial` and the right
count if they were published, and with `failed` and 0 if not. `LedgerSpec` is the refinement:
`Collection` implements it with `published` computed from `commits`.

### `AnalysisRun`

One run is one call of `run_job_analysis` or `run_maintenance_analysis` with its own `StateStore`. `pending`
and `draft` are what its implicit transaction holds (the run's row; a card with parts still `missing`),
`aborted` is Postgres' failed transaction, `row` and `cards` are what others can read. The samples of a
workload are abstracted to the collection that last wrote them, a signal to the samples behind it; whether
`analyze_signal` finds one is a free choice (`SignalFor`), memoized as in the code.

| Action | Code |
|---|---|
| `Address`, `Ensure`, `Refuse` | a request gives its cluster by id or by name (`ensure_cluster` registers it anew if it was deleted), or an argument is turned down by the API, the CLI, the dispatcher or the runner |
| `CollectionEnds` | `collectData`: `trigger_collection` and `wait_for_collection`, whatever they return |
| `Create`, `CreateFails` | `create_analysis_run`; `NameTaken`: another run took the name since `_unique_name` looked |
| `List`, `Pick`, `Skip` | the workloads of the cluster, one after the other; without a signal no card |
| `LoadSeries`, `SignalFor` | `signal_for`: the series of the first resources, then those of the others, with statements of their own between which a collection may commit |
| `InsertCard`, `InsertPart`, `CommitCard` | `insert_recommendation` or `insert_maintenance_result`: the card, its evidence and peers, the commit |
| `Finish` | `finish_analysis_run` at the end of the `try` |
| `AnalysisFails`, `InsertCardFails`, `InsertPartFails`, `FinishTimesOut` | what raises |
| `FinishFailed`, `FinishFailedFails` | the `except` branch, and its update refused |
| `CollectorBegins`, `CollectorEnds`, `DeleteCluster`, `Crash` | the rest of the system |

`home` and `id` are the ids a run works with: of the cluster and of its row. Every statement of a run goes by them, as in the
code. `Hits` are the rows an UPDATE or an INSERT finds by the run's id: its own while that is there and, on SQLite, after
the cluster was deleted and registered anew, the row of another run that was given the id meanwhile (`IsNextId`).
`contended` remembers the runs that this happened to, and the properties about a run's row and cards are about those that
are `Alone` on their id: all of them on Postgres. What happens to the others is told in section 4.

A card tells of the workload and of each of its peers the samples behind the savings (`own`), and whether an inbound caller
makes the target Knative (`knative`): on the card itself after the ad-hoc check, of its peers without, as `_expand_peers` does.
`data_as_of` and `stale` of the row decide nothing in a run and are left out.

### `UpstreamDeps`

`upstream_deps` statement by statement: `BeginRound` (the `while`), `Query` (one query for the next node of the
frontier), `Edge` (one row of its answer), `NodeDone`, `EndRound`; `InsertInteraction` is another process.
`all_workload_uids` is a recursive function over the list.

### `MaintenanceWindow`

Time is in ticks from the request; a sample has `step` ticks and the last observed one began `offset` ticks before
now. Two functions read `resample_freq` for themselves and take it for 60 minutes (`Fallback`) where they cannot read
what pandas can: `width` is what `_minutes_per_sample` of the runner makes of it, `hps` what `freq_hours` of
`detect_timeline` does. `Init` chooses the request and what `detect_timeline` returned for each workload;
`RejectUnreadable`, `Reject`, `BuildIndex` (`_future_index`, `window_samples`), `BuildForecasts`, `PickWindow` and
`Assemble` follow `run_maintenance_analysis`. `Assemble` computes what the result says of the window in its parts, as
the code does, each by itself: impacted apps (`Added`), evidence (`WindowsFromMask`), `Confidence`, and the workloads
the summary names (`Named`). `RoundDiv` rounds as Python and numpy do, ties to even. A period is counted in half
samples, because the median of two resources' periods may be one (the periodogram's other fractions are not modelled). It
goes from samples to hours by `hps` and back by `step` (`TemplateLength`), and is rounded there: the template of `Fit` is
one period long only if both are the same and the period is of whole samples. A template longer than the mask
(`TooShort`) makes the run fail. Masks are as `detect_timeline` can return them: at least two periods long, or none.

### `Signals`

The pure functions from the aligned series of a workload to its signal, timeline and card, as operators on whole
numbers: quotients are compared by cross-multiplication, medians are doubled, thresholds are percents, a period is
counted in half samples because a median may be one. `Signal` is `analyze_signal` (its stages are `Periodic`, `Consensus`,
`Seasonal`, `Classify`, `Jump`, `Qualifies`), `Timeline` is `detect_timeline`, `Card` is `build_recommendation` with
`choose_target` and `confidence`; `SharesPeriod`, `WindowsAlign` and `Adhoc` are the helpers for neighbours. `AnalyzeSignal`,
`DetectTimeline` and `BuildCard` are one job run and one maintenance run over the same data with the same thresholds.

What `detect_period` and STL find in a series is an input (`Findable`, `Strengths`), so the results hold for whatever
they find, also for periods that the series does not have. The periodogram's fractional periods are left out.

### `ConfigApi`

The endpoints of `api/app.py` for clusters and data sources, with the store operations and `kube.probe` behind them.
`handler[w]` is the request a thread works on (`pc` is its next statement or network call, the other fields what
it has read); every write is one statement with its commit. A `form` is what of a registration a probe uses; a
source's `target` is the endpoint to be probed or None. `by`, `reached`, `of` and `had` are history: which probe
gave a row its status, with which answer. A server may answer 200, 401 or 403, another 2xx, or not at all (`Replies`);
`denied` are the second. `NewId` is Postgres' sequence or SQLite's smallest id above those in the table.

| Action | Code |
|---|---|
| `CreateRequest`; `InsertCluster`, `InsertRefused`; `RereadCluster` | the check for the name (409); the INSERT, or the UNIQUE constraint's refusal (500); the row read back for the 201 |
| `EnsureRequest`; `EnsureLookup` | `ensure_cluster` of `POST /collections` and `/runs`: ON CONFLICT DO NOTHING and commit; the SELECT by name |
| `DeleteRequest` | `DELETE /clusters/{id}`, cascading to the sources |
| `TestRequest`; `ProbeCluster`, `ProbeRaises`; `SaveStatus` | the row read; `kube.probe` with whatever the Secret (`Secrets`) and the server (`Replies`) say; the UPDATE by id |
| `CreateSourceRequest`; `InsertSource`, `InsertSourceRefused`; `RereadSource` | the check for the cluster (404); the INSERT, or the foreign key's refusal (500); the row read back |
| `UpdateSourceRequest`; `UpdateSource`; `RereadSource` | `PUT /sources/{id}` |
| `DeleteSourceRequest` | `DELETE /sources/{id}` |
| `TestSourceRequest`; `ProbeSource`; `SaveHealth` | the row read; `_probe_prometheus`; the UPDATE by id |
| `Respond` | the response, and the store closed |

### `Migrations`

The statements of all migration files are numbered; `objects` are those whose effect is committed, `versions` is
`schema_migrations`. A collector command (`Commands`) reads the versions once (`ReadVersions`), executes the
statements of the next missing file in a transaction (`Execute`), records the version in it (`Commit`), and is `Ready`
when no file is left; a statement that was executed meanwhile fails (`Collide`), none says IF NOT EXISTS. `Blocked` is
SQLite's one writer and Postgres' waiting for whoever created the same object. An engine script (`Scripts`) looks for
`metric_samples` (`Check`) and executes all statements, each committed at once (`ScriptExecutes`, `ScriptCollides`,
`ScriptReady`). `Fault` is an error, a timeout or a kill at any point, `Restart` Kubernetes (or a person) starting the
process again. `Init` is a new database, or one that a collector or a script of an earlier release left.

### `ResultReads`

Runs write cards (`AddCard`; the first one makes the run's row visible), end (`Finish`, `Fail`) and are deleted with
the cluster (`DeleteCluster`): what of `AnalysisRun` a reader can see. `NewId` gives ids as the databases do. A card has the
run that wrote it (`by`) and the run whose row it is in (`of`): `AddCard` inserts by id, and on SQLite a run whose row was
deleted writes into the row that was given its id, before and after that one's answer. `contended` are the runs that
were given the id of one still at work. A flow of the tab (`startRun` in `app.js`) asks for the cards when `POST /runs`
answered: `ReadHeader` and `ReadCards` are the statements of `cards_dto`, `Receive` sets `state.lastRun` and the timer,
`Render` is the timer. A dialog is `Click`, then the statements of `evidence_dto`: `WhyRun`, `WhyRec`, `WhyFirst`,
`WhySecond`. Several are under way at a time, and their answers arrive in any order; `calm` remembers whether a timer was
pending at the click.

## 3. The runs

| Run | Module | Instance | Shows |
|---|---|---|---|
| `collection_postgres` | MCCollection | one service collection, one pod, two keys, batches of up to two rows, failing statements, crashes | `BatchesWhole`, `SamplesIdentified`, `LedgerSpec`, `EveryCollectionEnds` |
| `collection_sqlite` | MCCollection | one service collection, two pods, the engine, one key, busy timeouts, failing statements | `FreshnessKept`, `EveryCollectionEnds` |
| `collection_shutdown` | MCCollection | two service collections, Postgres, failing statements, crashes | **violated**: `PollersServed` |
| `deps` | MCUpstreamDeps | five workloads: a chain of three callers with cycles, one workload that calls nobody on it; three rounds; seven edges that may be inserted | `OnlyCallers`, `NoDuplicates`, `AllCallers`, `DepthCovered`, `SearchEnds` |
| `run` | MCAnalysisRun | a job and a maintenance run, two workloads, one the other's peer and occasional caller, a collection, the cluster registered twice, both databases, failures, crashes | `CompletedIsComplete`, `PartialCardsFailed`, `CardsAgree`, `AnsweredRunExists`, `RunEnds` |
| `run_stuck` | MCAnalysisRun | a job run on Postgres whose statements may fail | **violated**: `EndedIsRecorded` |
| `window` | MCMaintenanceWindow | two workloads, seven timelines each, samples of 1, 2, 4 and 7 ticks, an hour of 3, durations up to 7, deadlines up to 8, offsets up to 5 | `HeadroomIsEnough`, `EarliestBest`, `ScoreAccounted`, `OverrunBounded`, `RepeatsFromFirstHalf`, `SummaryMatchesEvidence` |
| `window_deadline` | MCMaintenanceWindow | the same in small | **violated**: `DeadlineKept` |
| `config_api` | MCConfigApi | two handlers, two names, one registration with an api_url and a kubeconfig besides those without data, one endpoint and none; two clusters, or one with two sources, ever created; Postgres, symmetry | `NamesUnique`, `SourcesOwned`, `StatusFound`, `ReachableAnswered`, `ConnectedReached`, `HealthFound`, `AnswersOwn` |
| `signals` | MCSignals | every series of eight samples on {1, 4}, {0, 1} or {3, 4} beside three shapes of memory, and three days of eight samples up for one to seven of them, in every phase; periods and strengths that agree or not; the default and loosened thresholds; three neighbours | `SignalHasTimeline`, `CardHasWindow`, `TierFitsJump`, `PeerOrAdhoc`, `BusyIsMarked` |
| `migrations` | MCMigrations | two commands, two scripts, files of three and two statements, two faults, both databases | `LedgerTellsSchema`, `ReadyIsMigrated`, `Converges` |
| `results` | MCResultReads | a job run of up to two cards and a maintenance run of the tab, a job run of another client, one deletion, two dialogs at a time, both databases | `AnswerIsWhole`, `EvidenceIsOfCard`, `LastRunIsShown` |

Every module of the code has a type invariant `TypeOK`. It is proved for every instance (`TypeCorrect`), so no run spends
a property on it.

**Why these bounds.** A deadlock of upserts needs two collections and two rows in opposite orders: that is the Postgres
instance. Contention for SQLite's lock needs a holder in another process and one waiting; a sample that goes back in
time needs two collections that can fetch in one order and commit in the other, hence two pods (they are serialized by
`concurrencyPolicy: Forbid`; the mutant drops it). Batches repeat keys, are empty and overlap within two rows. For runs,
one peer relation between two workloads gives a card with its own figures, a card with a peer, an ad-hoc caller, and a
collection can commit between any two reads, also those of one signal; the maintenance run is a second writer of the
engine (it reads its target only; the proofs have any callers). The cluster has to be deleted and registered once more
for a second run to be given the id of a first that is still at work. The search needs a cycle through the target, one
off it, a workload that is no caller and a chain of three calls; the depth limit of three cuts the search on it and does
not after an edge shortens it. The window's grid has durations and deadlines that are and are not whole samples, ties of
rounding (samples of 2 and 4 ticks), an hour shorter and longer than a sample, widths that the runner,
`detect_timeline`, both or none of them misread (templates from one sample to more than the mask has), requests in both
halves of a sample, a period of two and a half samples, and masks whose first and last periods differ. A late probe
needs one handler that probes and one that deletes and registers again, a refused insert two that register; two ids let
a second cluster take the name or, in the mutants, the id of the first, and a second source with another target is there
to be marked by mistake. The one registration has all three servers a probe may confuse: its api_url, its kubeconfig's
(either server) and the engine's own. All series of two levels and eight samples are tried, two periods of up to four;
their levels make jumps below, between and above the thresholds, and an idle level of zero; the second resource agrees
on the period within the tolerance, does not, is seasonal or flat. The three days show the first and last period, whose
windows are cut short, beside one that is not. Two commands can read the versions before either applies a file; files of
several statements can be cut between two of them, in the first, the probed and the last; two scripts can look for the
probe before either creates it. Two flows arrive in every order, one from each table; a deletion lets the ids of runs
and cards be given again, to runs beside which the deleted one still writes; and two dialogs can be under way when it
happens. In `signals` all four targets, cards without cpu, partial overlaps and periods of half a sample occur.
`MaxRows` (of a batch; in `ConfigApi` of both tables), `MaxCollections`, `MaxDuration`, `MaxDeadline`, `MaxOffset`,
`MaxClusters`, `MaxSources`, `MaxFaults`, `MaxCards`, `MaxDeletes` and `MaxDialogs` are the only bounds. Deadlock
checking is off where the system comes to rest: every collection, run or search has ended.

**Fairness.** `WF` of each collection's own steps: a goroutine or process that can go on is scheduled, and an upsert
that waits for a lock gets it or fails; it does not include `Start` (nobody has to request anything), crashes or
restarts. `WF(EngineUnlocks)`: the engine's transactions end. `WF(Advance(r))`: the thread of a request runs on.
`WF(CollectorEnds)`: a collector's transaction ends. `WF(Search)`: the search is one thread. `WF(Migrate(p))`,
`WF(Restart(p))`: a command runs on and Kubernetes starts a failed one again (Deployment, Job, CronJob); nobody
repeats a script. Nothing is assumed of failures, timeouts or other writers. A fair run may still choose to fail at
every step, so the liveness properties say that a row is closed, not that it is closed with success.

`EveryCollectionEnds` excepts collections whose process was stopped (`dead`) or whose closing update was refused
(`dropped`), and `RunEnds` runs whose process died or whose `except` branch was refused its update, by an aborted
transaction or a lock. These exceptions are what `collection_shutdown` and `run_stuck` show.

## 4. What the violations show

* `collection_shutdown`: `handleIngest` runs `Finish` in a goroutine that nobody waits for and drops what it returns. When
  the service stops (TLC's trace), and when `UpdateCollectionRun` fails with the service alive (without `Crashes` TLC finds
  that one), the row stays `running` and nothing closes it later. The package comment tells callers to poll for a terminal
  status. (The engine's own client gives up after its timeout.)
* `run_stuck`: on Postgres, a statement that fails after a committed card aborts the transaction, the `except`
  branch updates the row in that same transaction, the update is refused, the row stays `running`.
* `window_deadline`: the window starts at a sample but ends `duration` later, one sample more than the scored
  samples span, so it may end after the deadline. `OverrunBounded` says by how much: one and a half samples.

**Where properties stop.** SQLite gives the id of a deleted last row again, and the code goes by ids.

* `analysis_runs.id` (`0001_init.sql:145`): a run whose row was deleted with its cluster goes on. If the cluster is
  registered anew (`ensure_cluster`) and another run is given the id, the first one's cards enter that run's row and its
  `finish_analysis_run` closes it: half done as `completed`, or `failed` after its caller was told `completed`. So
  `CompletedIsComplete`, `PartialCardsFailed`, `CardsAgree`, `AnsweredRunExists` and `AnswerIsWhole` are about the runs
  that were not given the id of one still at work. `IdsExclusive` proves that nobody else writes to those, and on
  Postgres it is all of them.
* `recommendations.id`: a card may be deleted and its id given to another while it is on the screen. `EvidenceIsOfCard` is
  about cards that still exist; and not about those that a deleted run of the other type wrote into a run's row,
  whose dialog asks the wrong table.
* `clusters.id`, `data_sources.id`: a late probe marks the next cluster or source. `StatusFound` and `HealthFound` are checked
  and proved for Postgres only.
* A peer is not built as its own card is: `_expand_peers` (`runner.py:159`) omits `has_adhoc_interactions`, which
  `run_job_analysis` passes for the own card (`:102-108`), so one workload may be called request-driven (Knative) on its
  own card and something else in another's "Similar" tab. `docs/architecture.md:122-125` says that the runner marks the target of
  a workload that an inbound caller wakes in its idle time, and makes no exception for peers. `CardsAgree` is about the savings.
* `docs/api.md:277` says that a server that was reached but denied access (401, 403) counts as reachable. `urlopen` raises
  for these statuses, the branch for them (`kube.py:213`) is dead and the cluster is called unreachable (`HttpGet`, `Reached`). The
  properties about probes only say what holds of clusters that are called reachable.
* A `resample_freq` that pandas reads and the engine does not (`1800s`, `1h30min`) is taken for an hour. The forecast then
  repeats a template that is not the period found, or fails for a mask shorter than it (`TooShort`), and the window has another
  length than asked for: `RepeatsFromFirstHalf`, `OverrunBounded` and `HeadroomIsEnough` say for which widths they hold.

**Observations** that no run checks. `docs/api.md:352` promises `stale: true` when a collection fails, but nothing reads
what `wait_for_collection` returns (`CollectionEnds`). The confidence "low" is never given to a card: the thresholds
that make a card already earn it the points for "medium". `min_period` is called hours in `config.py:19` and counts
samples, so it is another time when `resample_freq` is not 1h; what `resample_freq` a maintenance run has decides its
periods. `kube.probe` "never raises", says its docstring, but a malformed kubeconfig does (`ProbeRaises`): the request
fails and no status is saved. The upserts do not compare `collected_at`: of two overlapping collections of the service
the one that fetched first may commit last. If the answer to a COMMIT is lost, a stored batch counts as failed. `PUT
/sources/{id}` keeps the health of the former endpoint, and cannot clear an endpoint. A registration with neither
api_url nor kubeconfig is probed at the engine's own server, which `POST /clusters:test` refuses to do for empty input.
`stale` compares the newest sample of the whole cluster, so one fresh workload makes a run fresh
(`recommenders/job/runner.py:65`); `SeasonalNaive.project` rounds to the nearest sample, so a request in the second half
of a sample gets the forecast shifted by one (`RepeatsFromFirstHalf` is about the first half); and `window_samples`
rounds the duration, so that a window that is called "best-case" can hold an active instant in its last fraction of a
sample.

`classify` marks what lies above a rolling median over two periods. `BusyIsMarked` says how far that goes: a workload up
for less than a third of its period is marked whenever it is up. Up to half, busy hours at the two ends of the series
are lost, where the window is cut short, and `SeasonalNaive` repeats just the last period; beyond half all of them are,
though `tests/test_maintenance_timeline.py:34-35` counts on the mask to penalize such a workload (its assert needs one
active sample). `init-db` says "schema ready" on a database that an earlier script left half created (`Check`), and a
collector never gets ready on one that a script made (`ReadyIsMigrated` excludes it rather than repairs it).
`_job_evidence_dto` does not compare the card's run with the one asked about, as `_maintenance_evidence_dto` does
(`dto.py:221`, `:271`; `tests/test_api_maintenance.py:163` tests the latter only), so a maintenance card clicked between
another answer and its rendering gets a 404, or the evidence of the job card with its id: `EvidenceIsOfCard` is about
the other clicks. Of two dialogs asked for, the one whose answer arrives last stays. The chart of a forecast has up to
1023 points where the comment says 512 (`len // 512`). In the tree of workloads an answer that arrives after a change of
the cluster fills the new one's cache (`app.js:209`, `:223`).

## 5. The proofs

Every safety property of the passing runs is a theorem: the invariants, the action property `FreshnessKept` and the
refinement `LedgerSpec`. TLC evaluates them on the instances of section 3; the proofs hold for every value of the constants.

| Module | Theorems (the property of a run they state) | For every |
|---|---|---|
| `Collection_proofs` | `TypeCorrect`, `WholeBatches` (`BatchesWhole`), `Identified` (`SamplesIdentified`), `LedgerImplemented` (`LedgerSpec`), `Freshness` (`FreshnessKept`) | set of collections, workloads, timestamps; both databases; with and without failures and crashes |
| `AnalysisRun_proofs` | `TypeCorrect`, `CompletedWhole` (`CompletedIsComplete`), `PartialCards` (`PartialCardsFailed`), `CardsAgreement` (`CardsAgree`), `AnsweredFound` (`AnsweredRunExists`), `IdsExclusive` | set of runs, workloads, peers, callers, collections; both databases; failures, crashes, clusters deleted and registered anew |
| `UpstreamDeps_proofs` | `TypeCorrect`, `Soundness` (`OnlyCallers`), `Completeness` (`AllCallers`), `ListedOnce` (`NoDuplicates`), `DepthReached` (`DepthCovered`) | graph, target, depth limit, insertions |
| `MaintenanceWindow_proofs` | `TypeCorrect`, `HorizonSuffices` (`HeadroomIsEnough`), `Overrun` (`OverrunBounded`), `FirstBest` (`EarliestBest`), `ScoreIsSum` (`ScoreAccounted`), `FirstHalfRepeats` (`RepeatsFromFirstHalf`), `OneStory` (`SummaryMatchesEvidence`) | step of samples and what either function reads of it, duration, deadline, offset, workloads, timelines |
| `Signals_proofs` | `TypeCorrect`, `TimelineOfSignal` (`SignalHasTimeline`), `WindowOfCard` (`CardHasWindow`), `TierOfJump` (`TierFitsJump`), `PeerOrCaller` (`PeerOrAdhoc`), `BusyMarked` (`BusyIsMarked`) | series, set of resources, period found, threshold, neighbour |
| `ConfigApi_proofs` | `TypeCorrect`, `UniqueNames` (`NamesUnique`), `OwnedSources` (`SourcesOwned`), `Connections` (`ConnectedReached`) | number of handlers, names, registrations, rows; both databases |
| `ConfigApi_proofs` | `OwnStatus` (`StatusFound`), `AnsweredByOwn` (`ReachableAnswered`), `OwnHealthFound` (`HealthFound`), `OwnAnswers` (`AnswersOwn`) | the same, on Postgres: SQLite gives ids again, and there they are false |
| `Migrations_proofs` | `TypeCorrect`, `LedgerIsTrue` (`LedgerTellsSchema`), `ReadyHasSchema` (`ReadyIsMigrated`) | number of files, statements, commands, scripts, faults; both databases |
| `ResultReads_proofs` | `TypeCorrect`, `WholeAnswers` (`AnswerIsWhole`), `OwnEvidence` (`EvidenceIsOfCard`), `ShownIsLast` (`LastRunIsShown`) | number of runs, cards, flows, dialogs, deletions; both databases |

They rest on the modules' named assumptions only (`CollAssumption`, `RunAssumption`, `DepsAssumption`,
`WindowAssumption`, `SignalAssumption`, `ApiAssumption`, `MigrationAssumption`, `ReadsAssumption`), which TLC evaluates in
every run. They say what kind of value a constant is (`None` is none of the values it stands beside) and what the libraries
and callers guarantee: a series is not empty, a period found is at most half of it.

* **Collections.** `BatchesWhole` compares the table with the batches of committed collections, so it is
  inductive only if a committed batch is never replaced. `IInv` adds the reason: a request has the metrics step
  at most once (`MetricsOnce`, from `CliStepLists` about `selectedSteps`), a collection that writes is in it
  (`InMetrics`), and one that committed has it behind it (`PastMetrics`), so it cannot fetch again. `Stored` states
  `BatchesWhole` without the set of writers (`StoredIsWhole`). `IdentitiesFirst` (before the samples are written,
  their workloads are known) makes `SamplesIdentified` inductive. Actions that only move `pc` are handled once, by
  `GoingOn`; the four others have a lemma each.
* **The ledger.** Each step of `Collection` is one of `CollectionLedger` or leaves its variables alone. The step that
  closes a row has to find the right status: `Counted` says what `Finish` counts - the step it is at is one more than
  the failures and the committed metrics step together - so that no failure means that everything was published.
  `Freshness` is about order: one pod works at a time (`OnePod`, from `concurrencyPolicy`), and it fetched after all
  that have a sample stored (`NewestCommits`).
* **Runs.** `RunInv` has two halves. `Process` is what a run knows by itself, whoever writes to its row: which row it inserted
  (`RowStage`), its draft (`DraftStage`), and that every figure on the draft is the memo's, which is written once. `Own` is what the
  row and its cards say, and holds while the run is `Alone`: the status is its own doing, every card's figures are the memo's
  (`FromMemo`: two cards that show one workload agree), and the workloads done with have exactly their cards (`Covered`).
  `Exclusive` links them: no other run at work has the id of a run that is alone, because `IsNextId` is above the ids of stored
  rows and who takes the id of one at work is `contended`. A step changes this for one run; one that hits another's row
  (`Publishes`) changes only runs that are not alone, and the deletion of the cluster touches all: its cascade is
  why `Covered` asks for a visible row.
* **Dependencies.** Soundness: for any set closed under the stored edges, `visited`, both frontiers and the
  edges at hand stay inside it. Completeness: each visited node is either still to be queried or has all
  its original callers visited or at hand. `ListedOnce`: `order` is an injective enumeration of `visited` less the
  target. `DepthReached`: after d rounds everything within d calls is visited, and what is d calls away is still in
  the frontier or has had its callers looked at (`Rounds`).
* **The window.** Bounds of `RoundDiv` and of the integer division by a sample's width, which only falls if the width grows
  (`DivAntitone`), and an invariant that ties `samples`, `window` and `pick` to the request, and `failed` to a horizon that is
  too short. `Staged` adds what each stage leaves to the next. The best window: the cumulative sums count pairs of workload and
  instant (`SumsAre`), counts of disjoint intervals add up (`CountAdds`), so a difference of two is `DirectSum`; the score is
  the same count, summed by workload (`SumOfCounts`). What the result says in four places comes down to which workload is active
  at which scored instant: an active instant lies in a maximal run (`Covered`). The projection: a period of whole samples that is
  read and written with one width keeps its length (`TemplateIsPeriod`; one read with less fits into the mask, `TemplateFits`),
  whole samples ahead add to the quotient, and rounding changes nothing in the first half of a sample (`SamplesAhead`).
* **Signals.** `Staged` says that each stage returned what its definition says of the observed workload; the theorems are then
  about the definitions. That a median exists has to be proved (`RankedIs`: the least value that enough others do not exceed).
  `TierFitsJump`: a baseline of a quarter of the peak bounds the jump, in whole numbers, by way of the sums over active and idle
  instants (`Loads`, `BaselineOrJump`). `BusyIsMarked`: every p consecutive instants hold equally many high samples
  (`PeriodCount`); a window of between one and two periods, however it is cut, has less than half of them (`FewInWindow`), so the
  median is below the band (`AboveMedian`).
* **Configuration.** `IInv` is the types and what a request has read when its next step uses it (`Ready`). A new
  id is in no row (`NewIdFresh`): for SQLite because a bounded set of naturals has a largest element. Each theorem
  about the tables goes by what a step may do to them (`ClusterChanges`, `SourceChanges`). `OwnStatus` adds `Followed`: a
  probe under way has the form of the row it will be saved in, if that is still there; it is inductive because a
  sequence's ids are never given again (`FormsKept`), and fails on SQLite. `KnownRows` says the same of every id a handler holds,
  for health and answers.
* **Migrations.** The ledger alone is not inductive. A transaction's statements are of the first file it has not applied, and
  what it did read as applied still is (`Transaction`); and the first statement decides whose a database is (`Parted`): a script
  begins with it, so a command and a script cannot both have got beyond it.
* **Results.** All is about ids. On Postgres one names a row for ever; on SQLite one of the rows that exist (`RunIds`, `CardIds`).
  A card in somebody's hands whose run exists, exists (`Holds`: cards go with the row they are in only). A run that nobody else's
  id meets (`Alone`) has the cards it wrote and no others. `Flow` has what an answer holds between its two statements, `Screen`
  ties the last timer to `lastRun`, `Tells` follows every dialog through its four.

**Recursion.** What a recursive function is (`CumulativeSum`, `SumOver`, `Runs`, `Within`, `all_workload_uids`, the fold behind
`SumFunction`) follows from the existence of a function that satisfies its equation. It is given, or built by
`RecursionExists`. Induction is by the least number for which a claim would fail (`LeastNumber`, from the
well-foundedness of the naturals), because the library's induction theorems take an operator.

**Only model-checked.** The liveness properties `EveryCollectionEnds`, `RunEnds`, `SearchEnds` and `Converges`: fairness and
`ENABLED` are out of the prover's reach. The three violated properties are false of the code, and TLC's counterexamples show it.

## 6. Not modelled

* Text, formatting, logging, PromQL, JSON, label handling, explanations, synthetic data: no state.
* Autocorrelation, STL, costs: numerical libraries and floating point. Alignment and resampling of raw samples (pandas).
* The collector's configuration (precedence of flags, environment and file) and the connector listing: lookups without state.
  TLS and headers of the cluster probe.
* In the API: settings (one UPDATE), discovery and lists (read only), the probe of unsaved fields (keeps nothing).
* In the UI: the tree of workloads, the forms of clusters, sources and settings, drawing; the collection step before `POST /runs`
  only decides a caption.
* In `Collection`: an answer to COMMIT that is lost (the driver reports an error of a batch that is stored), and SQLite's
  giving the id of a deleted `collection_runs` row again, so that a late `UpdateCollectionRun` closes another collection's row.
* In `ConfigApi`: the SQLite lock (writes are single statements; a timeout there only fails the request), the gaps
  that refused inserts leave in a sequence.
* In `Collection`: the deletion of the cluster during a collection (its statements fail, as they may anyway), `EnsureCluster`
  (folded into `Start`), two background collections of the service on SQLite (they queue on one connection without a timeout).
* In `AnalysisRun`: the card's contents (`Signals` and `MaintenanceWindow` have them), `data_as_of` and `stale`; several clusters
  at a time (one that is deleted and registered anew gives ids again in the same way).
* In `Migrations`: `CREATE TABLE IF NOT EXISTS schema_migrations`, which in Postgres may fail when two commands start at once
  (`Fault`).
* In `ResultReads`: reading a run that is not finished (the tab does not).

## 7. Plan

The order is by how much state a part guards.

1. *(done)* `Collection`, `CollectionLedger`, `UpstreamDeps`, `AnalysisRun`, `MaintenanceWindow`, `ConfigApi`, `Signals`,
   `Migrations`, `ResultReads`; a theorem for every safety property of their runs.
2. Next: an abstract specification of a run as its readers see it (a row opened, cards added whole, closed once), which
   `AnalysisRun` implements on Postgres and which tells what SQLite's partial cards break; `ResultReads` reads such runs.
3. What the violated properties become with the code's own bounds: the row of a collection whose service lives on is closed as
   promised (`LedgerImplemented` has the safety half), a window whose duration is whole samples keeps the deadline.
4. A composition of `Signals` with `MaintenanceWindow` (from a workload's series to the window), and one in which a run with
   `collectData` waits for a modelled collection instead of a free outcome.

