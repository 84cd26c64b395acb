---------------------------- MODULE AnalysisRun ----------------------------
(***************************************************************************)
(* The life of an analysis run: run_job_analysis and                       *)
(* run_maintenance_analysis writing one analysis_runs row and its cards    *)
(* (recommendations, or the one maintenance result) through StateStore,    *)
(* while collections commit new samples, other runs write, the cluster is  *)
(* deleted and created anew, and processes stop.                           *)
(*                                                                         *)
(* A StateStore is one connection with an implicit transaction: the row    *)
(* inserted by create_analysis_run is committed with the first card, or by *)
(* finish_analysis_run.  SQLite gives the write lock of the whole file to  *)
(* one transaction; in Postgres a failed statement aborts its transaction. *)
(*                                                                         *)
(* A run knows its row by id only.  SQLite gives the id of deleted last    *)
(* rows again (INTEGER PRIMARY KEY without AUTOINCREMENT), Postgres never. *)
(*                                                                         *)
(* The samples of a workload are abstracted to the collection that last    *)
(* wrote them (0: none), a signal to the collections it was computed from. *)
(***************************************************************************)
EXTENDS Integers, FiniteSets, FiniteSetsExt

CONSTANTS
  Runs,            \* runs requested through the API or the CLI
  MaintRuns,       \* those of run_type maintenance; the others are job runs
  Workloads,       \* workload uids of the cluster
  Target,          \* the workload a maintenance run takes down
  Upstream,        \* its callers, direct or not
  Related,         \* interactions whose ends may spike together: a workload's peers
  Sporadic,        \* interactions whose caller fires in the callee's idle time: the
                   \* callers of each workload
  MaxCollections,  \* bound: collections that commit samples
  MaxClusters,     \* bound: times the cluster is registered
  Dialects,        \* the databases the instance looks at: "sqlite", "postgres"
  Failures,        \* TRUE if the analysis or a statement of a card may fail
  Crashes          \* TRUE if the engine may stop at any point

ASSUME RunAssumption ==
  /\ IsFiniteSet(Runs) /\ MaintRuns \subseteq Runs
  /\ IsFiniteSet(Workloads) /\ Target \in Workloads /\ Upstream \subseteq Workloads
  /\ Related \in [Workloads -> SUBSET Workloads]
  /\ Sporadic \in [Workloads -> SUBSET Workloads]
  /\ MaxCollections \in Nat /\ MaxClusters \in Nat
  /\ Dialects \subseteq {"sqlite", "postgres"}
  /\ Failures \in BOOLEAN /\ Crashes \in BOOLEAN

Unread == {-1}   \* signals: not asked for yet
NoSignal == {}   \* no samples, or analyze_signal found nothing

\* What a card tells of a workload: the samples behind its savings, and whether an
\* inbound caller made its target Knative.
Figure == [of : Workloads, own : SUBSET Int, knative : BOOLEAN]
\* A card: its own figure, those of its peers, and how many of its evidence and peer
\* rows are not inserted yet.
Card == [of : Workloads, own : SUBSET Int, knative : BOOLEAN,
         peers : SUBSET Figure, missing : Nat]

VARIABLES
  dialect,     \* the database the system is installed on
  cluster,     \* the id of the clusters row, 0 if there is none
  registered,  \* how often the cluster was registered
  collected,   \* metric_samples: the last collection of each workload's samples
  clock,       \* number of collections committed
  collectorTx, \* the collector is inside a writing transaction
  row,         \* analysis_runs: the committed status of the row each run inserted,
               \* or "absent", or "deleted" after the cascade
  cards,       \* the committed cards of that row
  pc,          \* where each run is
  home,        \* the cluster id each run works for, 0 before it has one
  id,          \* the id the run's row was given, 0 before
  pending,     \* the open transaction holds the run row's insert
  draft,       \* the card inserted but not committed: a set of at most one
  aborted,     \* Postgres: a statement of the open transaction failed
  listed,      \* history: the workloads listed for the run
  todo,        \* those not looked at yet
  cur,         \* the one being analyzed: a set of at most one
  series,      \* signal_for half way: the workload and the samples read so far
  signals,     \* the memo of signal_for
  answered,    \* the caller was told the run is completed
  contended    \* history: runs given an id that another run still writes by

db == <<cluster, registered, collected, clock, collectorTx, row, cards>>
inputs == <<listed, todo, cur, series, signals>>
tx == <<pending, draft, aborted>>
given == <<home, id, contended>>
vars == <<dialect, db, inputs, tx, given, pc, answered>>

\* The row r inserted can be read.
Stored(r) == row[r] \in {"running", "completed", "failed"}

\* Between the insert of the row and the end of the run.
AtWork(r) == pc[r] \in {"list", "loop", "analyze", "parts", "except"}

-----------------------------------------------------------------------------
(* Transactions.                                                           *)

\* r has written and not committed.
Writing(r) == pending[r] \/ draft[r] # {}

OthersWriting(r) == collectorTx \/ \E o \in Runs \ {r} : Writing(o)

\* A writing statement of r can run now.
CanWrite(r) == dialect = "sqlite" => ~OthersWriting(r)

\* Another connection holds SQLite's write lock for longer than busy_timeout.
MayTimeOut(r) == dialect = "sqlite" /\ ~Writing(r) /\ OthersWriting(r)

\* The rows that r's statements hit, by id: its own or, in SQLite, the one that was
\* given the id after r's own was deleted.
Hits(r) == {o \in Runs : id[o] = id[r] /\ (Stored(o) \/ (o = r /\ pending[r]))}

\* commit(): what r wrote becomes visible, the rows of S with a status.
Publish(r, S, status) ==
  /\ row' = [o \in Runs |-> IF o \in S THEN status ELSE row[o]]
  /\ cards' = [o \in Runs |-> IF o \in Hits(r) THEN cards[o] \cup draft[r] ELSE cards[o]]
  /\ pending' = [pending EXCEPT ![r] = FALSE]
  /\ draft' = [draft EXCEPT ![r] = {}]
  /\ UNCHANGED <<cluster, registered, collected, clock, collectorTx, aborted, given>>

Goto(r, label) == pc' = [pc EXCEPT ![r] = label]

\* The run's function returns with an error, or its process is gone.
Forget(r) ==
  /\ listed' = [listed EXCEPT ![r] = {}]
  /\ todo' = [todo EXCEPT ![r] = {}]
  /\ cur' = [cur EXCEPT ![r] = {}]
  /\ series' = [series EXCEPT ![r] = {}]
  /\ signals' = [signals EXCEPT ![r] = [w \in Workloads |-> Unread]]

\* store.close(), or the connection is lost: what was not committed is gone.
Close(r, label) ==
  /\ pending' = [pending EXCEPT ![r] = FALSE]
  /\ draft' = [draft EXCEPT ![r] = {}]
  /\ Forget(r) /\ Goto(r, label)
  /\ UNCHANGED <<db, aborted, given, answered>>

-----------------------------------------------------------------------------
(* Before the row: the cluster, collectData, create_analysis_run.          *)

\* With its cluster's id the run goes on to its row, a job run with collectData to
\* trigger_collection and wait_for_collection first; or an argument is turned down.
Proceed(r) ==
  \/ Goto(r, "create") \/ Goto(r, "ended")
  \/ r \notin MaintRuns /\ Goto(r, "waiting")

\* The request gives the cluster by an id it was once told.
Address(r) ==
  /\ pc[r] = "idle"
  /\ \E c \in 1 .. registered :
       home' = [home EXCEPT ![r] = IF dialect = "sqlite" THEN 1 ELSE c]
  /\ Proceed(r)
  /\ UNCHANGED <<db, inputs, tx, id, contended, answered>>

\* ensure_cluster: the request gives it by name, and it is registered anew if need be.
\* SQLite gives the id of the deleted row again.
Ensure(r) ==
  /\ pc[r] = "idle" /\ CanWrite(r)
  /\ \/ cluster # 0 /\ UNCHANGED <<cluster, registered>>
     \/ /\ cluster = 0 /\ registered < MaxClusters
        /\ registered' = registered + 1
        /\ cluster' = IF dialect = "sqlite" THEN 1 ELSE registered + 1
  /\ home' = [home EXCEPT ![r] = cluster']
  /\ Proceed(r)
  /\ UNCHANGED <<collected, clock, collectorTx, row, cards, inputs, tx, id, contended, answered>>

\* Arguments the API or the CLI turns down, collectData for a maintenance run among
\* them, or ensure_cluster fails: an error, no row.
Refuse(r) ==
  /\ pc[r] = "idle"
  /\ Goto(r, "ended")
  /\ UNCHANGED <<db, inputs, tx, given, answered>>

\* The collector is unavailable, the row's last status, or the wait timed out: nothing
\* is done with any of them.
CollectionEnds(r) ==
  /\ pc[r] = "waiting"
  /\ Goto(r, "create")
  /\ UNCHANGED <<db, inputs, tx, given, answered>>

\* The highest id so far: of the rows that are stored in SQLite, ever given in Postgres.
IsNextId(i) ==
  LET used == {o \in Runs : IF dialect = "sqlite" THEN Stored(o) ELSE id[o] # 0}
  IN  (\A o \in used : id[o] < i) /\ (i = 1 \/ \E o \in used : id[o] = i - 1)

\* create_analysis_run: inserted, not committed.  What the row says of the data's age
\* (data_as_of, stale) decides nothing and is left out.
Create(r) ==
  /\ pc[r] = "create" /\ CanWrite(r) /\ home[r] = cluster
  /\ \E i \in 1 .. Cardinality(Runs) :
       /\ IsNextId(i)
       /\ id' = [id EXCEPT ![r] = i]
       /\ contended' =
            IF \E o \in Runs \ {r} : AtWork(o) /\ id[o] = i THEN contended \cup {r} ELSE contended
  /\ pending' = [pending EXCEPT ![r] = TRUE]
  /\ Goto(r, "list")
  /\ UNCHANGED <<db, inputs, home, draft, aborted, answered>>

\* _unique_name looked for the name before another run took it (or --name repeats it).
NameTaken(r) == \E o \in Runs \ {r} : pending[o] \/ Stored(o)

\* No cluster to refer to, the name was taken meanwhile, or the lock was not free in
\* time: an error, no row.
CreateFails(r) ==
  /\ pc[r] = "create" /\ (home[r] # cluster \/ NameTaken(r) \/ MayTimeOut(r))
  /\ Close(r, "ended")

-----------------------------------------------------------------------------
(* The try block: one card per workload that has a signal.                 *)

\* The collections a statement of r finds samples of w from.
Points(r, w) == IF home[r] = cluster THEN {collected[w]} \ {0} ELSE {}

List(r) ==
  /\ pc[r] = "list"
  /\ LET found == IF r \in MaintRuns THEN {Target} ELSE {w \in Workloads : Points(r, w) # {}}
     IN  listed' = [listed EXCEPT ![r] = found] /\ todo' = [todo EXCEPT ![r] = found]
  /\ Goto(r, "loop")
  /\ UNCHANGED <<db, cur, series, signals, tx, given, answered>>

\* Mutant: the memo lives for one workload only.
PickForgetful(r, u) ==
  /\ pc[r] = "loop" /\ u \in todo[r]
  /\ todo' = [todo EXCEPT ![r] = @ \ {u}]
  /\ cur' = [cur EXCEPT ![r] = {u}]
  /\ signals' = [signals EXCEPT ![r] = [w \in Workloads |-> Unread]]
  /\ Goto(r, "analyze")
  /\ UNCHANGED <<db, listed, series, tx, given, answered>>

Pick(r, u) ==
  /\ pc[r] = "loop" /\ u \in todo[r]
  /\ todo' = [todo EXCEPT ![r] = @ \ {u}]
  /\ cur' = [cur EXCEPT ![r] = {u}]
  /\ Goto(r, "analyze")
  /\ UNCHANGED <<db, listed, series, signals, tx, given, answered>>

\* The workloads that call u.
Callers(u) == {v \in Workloads : u \in Related[v]} \cup Sporadic[u]

\* The signals a card needs: the target's and those upstream of it; in a job run the
\* workload's, its peers' and, for the ad-hoc check, its callers'.
Needed(r, u) == {u} \cup (IF r \in MaintRuns THEN Upstream ELSE Related[u] \cup Callers(u))

\* signal_for asks for a workload it has no signal of, the card's own first, and loads
\* the series of the first resources.
LoadSeries(r, u, w) ==
  /\ pc[r] = "analyze" /\ cur[r] = {u} /\ w \in Needed(r, u)
  /\ signals[r][w] = Unread /\ series[r] = {}
  /\ w # u => signals[r][u] # Unread /\ (r \in MaintRuns \/ signals[r][u] # NoSignal)
  /\ series' = [series EXCEPT ![r] = {[of |-> w, points |-> Points(r, w)]}]
  /\ UNCHANGED <<db, listed, todo, cur, signals, tx, given, pc, answered>>

\* The rest of the resources, each with a statement of its own: a collection may have
\* committed since.  analyze_signal finds a signal in them or none.
SignalFor(r) ==
  /\ pc[r] = "analyze"
  /\ \E s \in series[r] : \E found \in {s.points \cup Points(r, s.of), NoSignal} :
       signals' = [signals EXCEPT ![r][s.of] = found]
  /\ series' = [series EXCEPT ![r] = {}]
  /\ UNCHANGED <<db, listed, todo, cur, tx, given, pc, answered>>

\* A workload without a signal gets no card.
Skip(r, u) ==
  /\ pc[r] = "analyze" /\ cur[r] = {u} /\ r \notin MaintRuns
  /\ signals[r][u] = NoSignal
  /\ Goto(r, "loop")
  /\ cur' = [cur EXCEPT ![r] = {}]
  /\ UNCHANGED <<db, listed, todo, series, signals, tx, given, answered>>

ReadyFor(r, u) ==
  /\ pc[r] = "analyze" /\ cur[r] = {u}
  /\ r \in MaintRuns \/ signals[r][u] # NoSignal
  /\ \A w \in Needed(r, u) : signals[r][w] # Unread

\* The peers that may be on u's card: those with a signal, as far as aligned;
\* a maintenance result names every caller.
PeerSets(r, u) ==
  IF r \in MaintRuns THEN {Upstream}
  ELSE SUBSET {w \in Related[u] : signals[r][w] # NoSignal}

\* _detect_adhoc finds a caller with a signal that fires in u's idle time.
MayBeAdhoc(r, u) == r \notin MaintRuns /\ \E v \in Sporadic[u] : signals[r][v] # NoSignal

\* The card's own target is chosen with the ad-hoc check, those of its peers without.
CardFor(r, u, peers, adhoc) ==
  [of |-> u, own |-> signals[r][u], knative |-> adhoc,
   peers |-> {[of |-> w, own |-> signals[r][w], knative |-> FALSE] : w \in peers},
   missing |-> 1 + Cardinality(peers)]

\* insert_recommendation, insert_maintenance_result: the card's row first, for the run
\* row that has the id.
InsertCard(r, u) ==
  /\ ReadyFor(r, u) /\ CanWrite(r) /\ Hits(r) # {}
  /\ \E P \in PeerSets(r, u), adhoc \in BOOLEAN :
       /\ adhoc => MayBeAdhoc(r, u)
       /\ draft' = [draft EXCEPT ![r] = {CardFor(r, u, P, adhoc)}]
  /\ Goto(r, "parts")
  /\ UNCHANGED <<db, inputs, pending, aborted, given, answered>>

\* _insert_evidence, _insert_peer and their maintenance counterparts.
InsertPart(r) ==
  /\ pc[r] = "parts"
  /\ \E c \in draft[r] :
       c.missing > 0 /\ draft' = [draft EXCEPT ![r] = {[c EXCEPT !.missing = @ - 1]}]
  /\ UNCHANGED <<db, inputs, pending, aborted, given, pc, answered>>

\* The run row's insert, if it is not committed yet.
NewRow(r) == IF pending[r] THEN {r} ELSE {}

\* Mutant: the commit comes before the last part.
CommitCardEarly(r) ==
  /\ pc[r] = "parts"
  /\ Publish(r, NewRow(r), "running")
  /\ Goto(r, "loop")
  /\ cur' = [cur EXCEPT ![r] = {}]
  /\ UNCHANGED <<listed, todo, series, signals, answered>>

CommitCard(r) ==
  /\ pc[r] = "parts" /\ \A c \in draft[r] : c.missing = 0
  /\ Publish(r, NewRow(r), "running")
  /\ Goto(r, "loop")
  /\ cur' = [cur EXCEPT ![r] = {}]
  /\ UNCHANGED <<listed, todo, series, signals, answered>>

\* Mutant: the commit is missing.
FinishUncommitted(r) ==
  /\ pc[r] = "loop" /\ todo[r] = {} /\ CanWrite(r)
  /\ answered' = [answered EXCEPT ![r] = TRUE]
  /\ pending' = [pending EXCEPT ![r] = FALSE]
  /\ Goto(r, "ended")
  /\ UNCHANGED <<db, inputs, draft, aborted, given>>

\* finish_analysis_run("completed"); the update does not ask whether a row was hit.
Finish(r) ==
  /\ pc[r] = "loop" /\ todo[r] = {} /\ CanWrite(r)
  /\ Publish(r, Hits(r), "completed")
  /\ Goto(r, "ended")
  /\ answered' = [answered EXCEPT ![r] = TRUE]
  /\ UNCHANGED inputs

-----------------------------------------------------------------------------
(* except: finish_analysis_run("failed"), then the error is raised again.  *)

Raise(r, statement) ==
  /\ Goto(r, "except")
  /\ aborted' = [aborted EXCEPT ![r] = statement /\ dialect = "postgres"]
  /\ UNCHANGED <<db, inputs, pending, draft, given, answered>>

AnalysisFails(r) == Failures /\ pc[r] \in {"list", "analyze"} /\ Raise(r, FALSE)

\* Mutant: the workload is skipped.
InsertCardSkipped(r, u) ==
  /\ ReadyFor(r, u)
  /\ Hits(r) = {} \/ MayTimeOut(r) \/ Failures
  /\ Goto(r, "loop")
  /\ cur' = [cur EXCEPT ![r] = {}]
  /\ UNCHANGED <<db, listed, todo, series, signals, tx, given, answered>>

\* No run row has the id, the write lock was not free in time, or another error.
InsertCardFails(r, u) ==
  /\ ReadyFor(r, u)
  /\ Hits(r) = {} \/ MayTimeOut(r) \/ Failures
  /\ Raise(r, TRUE)

InsertPartFails(r) ==
  /\ Failures /\ pc[r] = "parts" /\ \E c \in draft[r] : c.missing > 0
  /\ Raise(r, TRUE)

FinishTimesOut(r) ==
  pc[r] = "loop" /\ todo[r] = {} /\ MayTimeOut(r) /\ Raise(r, TRUE)

\* SQLite keeps the rows of a card that failed half way: they are committed here.
FinishFailed(r) ==
  /\ pc[r] = "except" /\ ~aborted[r] /\ CanWrite(r)
  /\ Publish(r, Hits(r), "failed")
  /\ Goto(r, "ended")
  /\ Forget(r)
  /\ UNCHANGED answered

\* An aborted Postgres transaction refuses the update; so does a held lock.
FinishFailedFails(r) ==
  pc[r] = "except" /\ (aborted[r] \/ MayTimeOut(r)) /\ Close(r, "refused")

Crash(r) ==
  Crashes /\ pc[r] \notin {"idle", "ended", "refused", "dead"} /\ Close(r, "dead")

-----------------------------------------------------------------------------
(* The rest of the system.                                                 *)

CollectorBegins ==
  /\ cluster # 0 /\ ~collectorTx /\ clock < MaxCollections
  /\ dialect = "sqlite" => \A r \in Runs : ~Writing(r)
  /\ collectorTx' = TRUE
  /\ UNCHANGED <<cluster, registered, collected, clock, row, cards, inputs, tx, given, pc, answered>>

CollectorEnds ==
  /\ collectorTx
  /\ collectorTx' = FALSE
  /\ \/ UNCHANGED <<collected, clock>>
     \/ /\ clock' = clock + 1
        /\ \E S \in (SUBSET Workloads) \ {{}} :
             collected' = [w \in Workloads |-> IF w \in S THEN clock + 1 ELSE collected[w]]
  /\ UNCHANGED <<cluster, registered, row, cards, inputs, tx, given, pc, answered>>

\* DELETE /clusters/{id} cascades to samples, runs and cards.  An open insert
\* that refers to the cluster keeps the row locked (SQLite: the whole file).
DeleteCluster ==
  /\ cluster # 0 /\ ~collectorTx /\ \A r \in Runs : ~Writing(r)
  /\ cluster' = 0
  /\ collected' = [w \in Workloads |-> 0]
  /\ row' = [r \in Runs |-> IF Stored(r) THEN "deleted" ELSE row[r]]
  /\ cards' = [r \in Runs |-> {}]
  /\ UNCHANGED <<registered, clock, collectorTx, inputs, tx, given, pc, answered>>

-----------------------------------------------------------------------------
Init ==
  /\ dialect \in Dialects
  /\ cluster = 1 /\ registered = 1
  /\ clock = 1 /\ collectorTx = FALSE
  /\ collected = [w \in Workloads |-> 1]
  /\ row = [r \in Runs |-> "absent"]
  /\ cards = [r \in Runs |-> {}]
  /\ pc = [r \in Runs |-> "idle"]
  /\ home = [r \in Runs |-> 0] /\ id = [r \in Runs |-> 0]
  /\ pending = [r \in Runs |-> FALSE]
  /\ draft = [r \in Runs |-> {}]
  /\ aborted = [r \in Runs |-> FALSE]
  /\ listed = [r \in Runs |-> {}]
  /\ todo = [r \in Runs |-> {}]
  /\ cur = [r \in Runs |-> {}]
  /\ series = [r \in Runs |-> {}]
  /\ signals = [r \in Runs |-> [w \in Workloads |-> Unread]]
  /\ answered = [r \in Runs |-> FALSE]
  /\ contended = {}

\* What a run does by itself once it was requested.
Advance(r) ==
  \/ CollectionEnds(r) \/ Create(r) \/ CreateFails(r) \/ List(r)
  \/ \E u \in Workloads :
       \/ Pick(r, u) \/ Skip(r, u) \/ InsertCard(r, u) \/ InsertCardFails(r, u)
       \/ \E w \in Workloads : LoadSeries(r, u, w)
  \/ SignalFor(r) \/ InsertPart(r) \/ CommitCard(r) \/ Finish(r)
  \/ AnalysisFails(r) \/ InsertPartFails(r) \/ FinishTimesOut(r)
  \/ FinishFailed(r) \/ FinishFailedFails(r)

\* A request arrives and finds its cluster.
Request(r) == Address(r) \/ Ensure(r) \/ Refuse(r)

Next ==
  /\ \/ \E r \in Runs : Request(r) \/ Advance(r) \/ Crash(r)
     \/ CollectorBegins \/ CollectorEnds \/ DeleteCluster
  /\ UNCHANGED dialect

\* The request's thread runs on, and the collector's transactions end.
Fairness ==
  /\ \A r \in Runs : WF_vars(Advance(r) /\ UNCHANGED dialect)
  /\ WF_vars(CollectorEnds /\ UNCHANGED dialect)

Spec == Init /\ [][Next]_vars /\ Fairness

-----------------------------------------------------------------------------
TypeOK ==
  /\ dialect \in Dialects
  /\ cluster \in Nat /\ registered \in Nat
  /\ clock \in Nat /\ collectorTx \in BOOLEAN
  /\ collected \in [Workloads -> 0 .. clock]
  /\ row \in [Runs -> {"absent", "running", "completed", "failed", "deleted"}]
  /\ cards \in [Runs -> SUBSET Card]
  /\ pc \in [Runs -> {"idle", "waiting", "create", "list", "loop", "analyze",
                      "parts", "except", "ended", "refused", "dead"}]
  /\ home \in [Runs -> Nat] /\ id \in [Runs -> Nat]
  /\ pending \in [Runs -> BOOLEAN] /\ aborted \in [Runs -> BOOLEAN]
  /\ draft \in [Runs -> SUBSET Card]
  /\ listed \in [Runs -> SUBSET Workloads] /\ todo \in [Runs -> SUBSET Workloads]
  /\ cur \in [Runs -> SUBSET Workloads]
  /\ series \in [Runs -> SUBSET [of : Workloads, points : SUBSET Nat]]
  /\ signals \in [Runs -> [Workloads -> SUBSET Int]]
  /\ answered \in [Runs -> BOOLEAN]
  /\ contended \subseteq Runs

\* No other run that still works was given the id of r's row before.  In SQLite it may
\* be, after the cluster was deleted: then both write to one row.
Alone(r) == dialect = "postgres" \/ r \notin contended

\* A run read as completed has, whole and in one card each, every workload it listed and
\* found a signal for (a maintenance run: its target's result): no interleaving with
\* other writers, timeouts, deletes or a new cluster of the name leaves a completed run
\* short.  Except in SQLite, where a run that works on after its cluster was deleted
\* closes, by id, the unfinished run that was given its id.
CompletedIsComplete ==
  \A r \in Runs : row[r] = "completed" /\ Alone(r) =>
    /\ {c.of : c \in cards[r]} =
         {w \in listed[r] : r \in MaintRuns \/ signals[r][w] # NoSignal}
    /\ \A c, d \in cards[r] : c.of = d.of => c = d
    /\ \A c \in cards[r] : c.missing = 0

\* A card without all its evidence and peers can be read only in SQLite and only of a
\* run marked failed (insert_recommendation commits after the last part, the except
\* branch commits whatever was inserted), unless another run writes to the row.
PartialCardsFailed ==
  \A r \in Runs : \A c \in cards[r] :
    c.missing > 0 /\ Alone(r) => dialect = "sqlite" /\ row[r] = "failed"

\* The cards of one run never tell different savings of a workload: a peer's on a card
\* are computed from the samples of the peer's own card, whatever collections commit
\* meanwhile, between the series of two resources too (the memo of signal_for), unless
\* another run's cards are in the row.
CardsAgree ==
  \A r \in Runs : Alone(r) =>
    \A c, d \in cards[r] : \A p \in c.peers : p.of = d.of => p.own = d.own

\* A caller that was answered "completed" finds its run completed until the cluster is
\* deleted: finish_analysis_run neither loses a row nor is overwritten, unless another
\* run writes to the row.
AnsweredRunExists ==
  \A r \in Runs : answered[r] /\ Alone(r) => row[r] \in {"completed", "deleted"}

\* A run that is read as running reaches completed or failed, or is deleted, unless
\* its process died or the database refused the except branch's update as well.
RunEnds ==
  \A r \in Runs :
    row[r] = "running" ~> row[r] # "running" \/ pc[r] \in {"dead", "refused"}

\* The purpose of the except branch: a request that was answered, with a result or
\* an error, leaves no run that is read as running.
EndedIsRecorded == \A r \in Runs : pc[r] \in {"ended", "refused"} => row[r] # "running"
=============================================================================
