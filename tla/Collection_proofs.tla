-------------------------- MODULE Collection_proofs --------------------------
(***************************************************************************)
(* For any number of collections, workloads and timestamps, on SQLite and  *)
(* on Postgres, with and without crashes: the variables keep their types,  *)
(* metric_samples always holds whole batches in the order of their         *)
(* commits, every sample's workload has its identity row, the rows of      *)
(* collection_runs implement CollectionLedger, and no pod's commit makes   *)
(* the data older.                                                         *)
(***************************************************************************)
EXTENDS Collection, SequenceTheorems, TLAPS

\* A fetch returns a sequence of keys; the bound only keeps TLC's instances small.
LEMMA BoundedIsSeq == ASSUME NEW S, NEW n \in Nat PROVE BoundedSeq(S, n) \subseteq Seq(S)
BY DEF BoundedSeq, SeqOf

\* The step lists of the CLI: the metrics step at most once.
StepLists == {<<"metrics">>, <<"interactions">>, <<"metrics", "interactions">>}

\* A fetch names every workload of its batch.
LEMMA FetchesNamed ==
  ASSUME NEW c \in Coll, FetchMetrics(c)
  PROVE  \E s \in BoundedSeq(Keys, MaxRows), ids \in Seq(Workloads) :
           /\ batch' = [batch EXCEPT ![c] = s] /\ idents' = [idents EXCEPT ![c] = ids]
           /\ Range(ids) = {k[1] : k \in Range(s)}
<1>1. PICK s \in BoundedSeq(Keys, MaxRows) : \E ids \in Identities(s) :
        batch' = [batch EXCEPT ![c] = s] /\ idents' = [idents EXCEPT ![c] = ids]
  BY DEF FetchMetrics
<1>2. PICK ids \in Identities(s) :
        batch' = [batch EXCEPT ![c] = s] /\ idents' = [idents EXCEPT ![c] = ids]
  BY <1>1
<1>3. s \in Seq(Keys) /\ Len(s) \in Nat
  BY BoundedIsSeq, CollAssumption
<1>4. ids \in Seq(Workloads) /\ Range(ids) = {k[1] : k \in Range(s)}
  BY <1>3, BoundedIsSeq DEF Identities
<1>5. QED BY <1>2, <1>4

LEMMA CliStepLists == CliSteps \subseteq StepLists
<1>1. <<"metrics">> \o <<"interactions">> = <<"metrics", "interactions">>
  <2>1. <<"metrics">> \in Seq(StepName) /\ <<"interactions">> \in Seq(StepName)
    BY DEF StepName
  <2>2. Len(<<"metrics">>) = 1 /\ Len(<<"interactions">>) = 1
    OBVIOUS
  <2> DEFINE s == <<"metrics">> \o <<"interactions">>
             t == <<"metrics", "interactions">>
  <2>3. s \in Seq(StepName) /\ Len(s) = 2 /\ s[1] = "metrics" /\ s[2] = "interactions"
    BY <2>1, <2>2, ConcatProperties
  <2>4. t \in Seq(StepName) /\ Len(t) = 2 /\ t[1] = "metrics" /\ t[2] = "interactions"
    BY DEF StepName
  <2>5. \A i \in 1 .. 2 : s[i] = t[i]
    BY <2>3, <2>4
  <2> HIDE DEF s, t
  <2>6. s = t
    BY <2>3, <2>4, <2>5, SeqEqual
  <2>7. QED BY <2>6 DEF s, t
<1>2. <<"metrics">> \o <<>> = <<"metrics">> /\ <<>> \o <<"interactions">> = <<"interactions">>
  OBVIOUS
<1>3. <<>> \o <<>> = <<>>
  OBVIOUS
<1>4. ASSUME NEW a \in BOOLEAN, NEW m \in BOOLEAN, NEW i \in BOOLEAN
      PROVE  SelectedSteps(a, m, i) \in StepLists
  <2>1. CASE a
    BY <2>1 DEF SelectedSteps, StepLists
  <2>2. CASE ~a /\ m /\ i
    BY <2>2, <1>1 DEF SelectedSteps, StepLists
  <2>3. CASE ~a /\ m /\ ~i
    BY <2>3, <1>2 DEF SelectedSteps, StepLists
  <2>4. CASE ~a /\ ~m /\ i
    BY <2>4, <1>2 DEF SelectedSteps, StepLists
  <2>5. CASE ~a /\ ~m /\ ~i
    BY <2>5, <1>3 DEF SelectedSteps, StepLists
  <2>6. QED BY <2>1, <2>2, <2>3, <2>4, <2>5
<1>5. QED BY <1>4 DEF CliSteps

LEMMA StepListsAreSeqs == StepLists \subseteq Seq(StepName)
BY DEF StepLists, StepName

\* The union of Coll's two parts, and the place of a collection's row.
LEMMA StatusIsTerminal ==
  ASSUME NEW e, NEW n, NEW r PROVE statusFor(e, n, r) \in Terminal
BY DEF statusFor, Terminal

-----------------------------------------------------------------------------
\* The rows, samples and local variables of all collections keep their types.
THEOREM TypeCorrect == Spec => []TypeOK
<1> USE CollAssumption
<1>1. Init => TypeOK
  <2> SUFFICES ASSUME Init PROVE TypeOK
    OBVIOUS
  <2>1. row \in [Coll -> [status : Terminal \cup {"absent", "running"}, rows : Nat]]
    BY DEF Init
  <2>2. sample \in [Keys -> Coll \cup {None}] /\ known \subseteq Workloads
    BY DEF Init
  <2>3. /\ steps \in [Coll -> Seq(StepName)] /\ batch \in [Coll -> Seq(Keys)]
        /\ idents \in [Coll -> Seq(Workloads)] /\ commits \in Seq(Coll)
    BY DEF Init
  <2>4. QED BY <2>1, <2>2, <2>3 DEF Init, TypeOK
<1>2. TypeOK /\ [Next]_vars => TypeOK'
  <2> SUFFICES ASSUME TypeOK, [Next]_vars PROVE TypeOK'
    OBVIOUS
  <2> USE DEF TypeOK
  <2>f. ASSUME NEW c \in Coll, StepFailed(c) PROVE next' \in [Coll -> Nat] => TypeOK'
    <3>1. errs' \in [Coll -> Nat] /\ at' \in [Coll -> Nat]
      BY <2>f DEF StepFailed
    <3>2. pc' \in [Coll -> {"idle", "step", "workloads", "samples", "ended", "dropped", "dead"}]
      BY <2>f DEF StepFailed
    <3>3. QED BY <2>f, <3>1, <3>2 DEF StepFailed, db
  <2>1. ASSUME NEW c \in Coll, Start(c) PROVE TypeOK'
    <3>1. steps' \in [Coll -> Seq(StepName)]
      <4>1. PICK s \in (IF c \in ServiceColl THEN {<<"metrics">>} ELSE CliSteps) :
                   steps' = [steps EXCEPT ![c] = s]
        BY <2>1 DEF Start
      <4>2. s \in Seq(StepName)
        BY CliStepLists, StepListsAreSeqs DEF StepLists
      <4>3. QED BY <4>1, <4>2
    <3>2. row' \in [Coll -> [status : Terminal \cup {"absent", "running"}, rows : Nat]]
      <4>1. row[c] \in [status : Terminal \cup {"absent", "running"}, rows : Nat]
        OBVIOUS
      <4>2. [row[c] EXCEPT !.status = "running"] \in [status : Terminal \cup {"absent", "running"}, rows : Nat]
        BY <4>1
      <4>3. row' = [row EXCEPT ![c] = [row[c] EXCEPT !.status = "running"]]
        BY <2>1 DEF Start
      <4>4. QED BY <4>2, <4>3
    <3>3. QED BY <2>1, <3>1, <3>2 DEF Start
  <2>2. ASSUME NEW c \in Coll, StartFails(c) PROVE TypeOK'
    BY <2>2 DEF StartFails, db
  <2>3. ASSUME NEW c \in Coll, InteractionsStep(c) \/ FetchFails(c) PROVE TypeOK'
    BY <2>3, <2>f DEF InteractionsStep, FetchFails
  <2>4. ASSUME NEW c \in Coll, FetchMetrics(c) PROVE TypeOK'
    <3>1. batch' \in [Coll -> Seq(Keys)] /\ idents' \in [Coll -> Seq(Workloads)]
      <4>1. PICK s \in BoundedSeq(Keys, MaxRows), ids \in Seq(Workloads) :
              batch' = [batch EXCEPT ![c] = s] /\ idents' = [idents EXCEPT ![c] = ids]
        BY <2>4, FetchesNamed
      <4>2. s \in Seq(Keys)
        BY BoundedIsSeq
      <4>3. QED BY <4>1, <4>2
    <3>2. clock' \in Nat /\ fetched' \in [Coll -> Nat]
      BY <2>4 DEF FetchMetrics
    <3>3. pc' = [pc EXCEPT ![c] = "workloads"]
          /\ UNCHANGED <<row, known, sample, steps, at, errs, total, next, commits, engineTx, serviceUp>>
      BY <2>4 DEF FetchMetrics, db
    <3>4. QED BY <3>1, <3>2, <3>3
  <2>5. ASSUME NEW c \in Coll, CommitWorkloads(c) PROVE TypeOK'
    <3>1. known' \subseteq Workloads
      <4>1. \A w \in Range(idents[c]) : w \in Workloads
        BY DEF Range
      <4>2. QED BY <2>5, <4>1 DEF CommitWorkloads
    <3>2. next' \in [Coll -> Nat]
      BY <2>5 DEF CommitWorkloads
    <3>3. QED BY <2>5, <3>1, <3>2 DEF CommitWorkloads
  <2>6. ASSUME NEW c \in Coll, UpsertRow(c) PROVE TypeOK'
    <3>1. next' \in [Coll -> Nat]
      BY <2>6 DEF UpsertRow
    <3>2. QED BY <2>6, <3>1 DEF UpsertRow, db
  <2>7. ASSUME NEW c \in Coll, CommitSamples(c) PROVE TypeOK'
    <3>1. commits' \in Seq(Coll)
      BY <2>7 DEF CommitSamples
    <3>2. Len(batch[c]) \in Nat
      OBVIOUS
    <3>3. sample' \in [Keys -> Coll \cup {None}]
      <4>1. sample' = [k \in Keys |-> IF k \in Range(batch[c]) THEN c ELSE sample[k]]
        BY <2>7 DEF CommitSamples
      <4>2. sample \in [Keys -> Coll \cup {None}]
        OBVIOUS
      <4> HIDE DEF TypeOK
      <4>3. QED BY <4>1, <4>2
    <3>4. total' \in [Coll -> Nat] /\ at' \in [Coll -> Nat] /\ next' \in [Coll -> Nat]
      <4>1. PICK n \in Nat : n = Len(batch[c])
        BY <3>2
      <4>2. /\ total' = [total EXCEPT ![c] = @ + n] /\ at' = [at EXCEPT ![c] = @ + 1]
            /\ next' = [next EXCEPT ![c] = 1]
        BY <2>7, <4>1 DEF CommitSamples
      <4>3. total \in [Coll -> Nat] /\ at \in [Coll -> Nat] /\ next \in [Coll -> Nat]
        OBVIOUS
      <4> HIDE DEF TypeOK
      <4>4. QED BY <4>2, <4>3
    <3>5. QED BY <2>7, <3>1, <3>3, <3>4 DEF CommitSamples
  <2>8. ASSUME NEW c \in Coll, BusyTimeout(c) \/ DeadlockAbort(c) \/ StatementFails(c) PROVE TypeOK'
    <3>1. StepFailed(c) /\ next' = [next EXCEPT ![c] = 1]
      BY <2>8 DEF BusyTimeout, DeadlockAbort, StatementFails, RollBack
    <3>2. next' \in [Coll -> Nat]
      BY <3>1
    <3>3. QED BY <2>f, <3>1, <3>2
  <2>9. ASSUME NEW c \in Coll, FinishRow(c) PROVE TypeOK'
    <3>1. row' \in [Coll -> [status : Terminal \cup {"absent", "running"}, rows : Nat]]
      BY <2>9, StatusIsTerminal DEF FinishRow
    <3>2. QED BY <2>9, <3>1 DEF FinishRow
  <2>10. ASSUME NEW c \in Coll, FinishFails(c) PROVE TypeOK'
    BY <2>10 DEF FinishFails, db
  <2>11. ASSUME NEW c \in Coll, PodDies(c) PROVE TypeOK'
    BY <2>11 DEF PodDies, db
  <2>12. CASE ServiceStops
    BY <2>12 DEF ServiceStops, db
  <2>13. CASE ServiceRestarts \/ EngineLocks \/ EngineUnlocks \/ UNCHANGED vars
    BY <2>13 DEF ServiceRestarts, EngineLocks, EngineUnlocks, vars, db, local
  <2>14. QED
    BY <2>1, <2>2, <2>3, <2>4, <2>5, <2>6, <2>7, <2>8, <2>9, <2>10, <2>11, <2>12, <2>13
    DEF Next, Advance
<1>3. QED BY <1>1, <1>2, PTL DEF Spec

-----------------------------------------------------------------------------
(* BatchesWhole speaks of the batches of committed collections; it is kept *)
(* because a collection fetches once, so that its batch is not replaced    *)
(* after its commit.  That rests on where each collection is in its steps. *)

\* The metrics step occurs once in a request.
MetricsOnce ==
  \A c \in Coll : \A i, j \in DOMAIN steps[c] :
    steps[c][i] = "metrics" /\ steps[c][j] = "metrics" => i = j

\* A collection that writes is in its metrics step.
InMetrics ==
  \A c \in Coll : pc[c] \in {"workloads", "samples"} =>
    at[c] \in DOMAIN steps[c] /\ steps[c][at[c]] = "metrics"

\* A collection that committed has its metrics step behind it.
PastMetrics ==
  \A i \in DOMAIN commits : LET c == commits[i] IN
    /\ pc[c] \in {"step", "ended", "dropped", "dead"}
    /\ \E j \in DOMAIN steps[c] : steps[c][j] = "metrics" /\ j < at[c]

Writes(i, k) == k \in Range(batch[commits[i]])

\* The stored row of a key is that of the last committed batch with the key.
Stored(k) ==
  \/ sample[k] = None /\ \A i \in DOMAIN commits : ~Writes(i, k)
  \/ \E i \in DOMAIN commits :
       /\ Writes(i, k) /\ sample[k] = commits[i]
       /\ \A j \in DOMAIN commits : Writes(j, k) => j <= i

\* Before the samples are written, their workloads are known.
IdentitiesFirst ==
  \A c \in Coll : pc[c] = "samples" => \A k \in Range(batch[c]) : k[1] \in known

\* While the identities are written, all those of the batch are.
AllNamed ==
  \A c \in Coll : pc[c] = "workloads" =>
    \A k \in Range(batch[c]) : k[1] \in Range(idents[c])

IInv ==
  /\ MetricsOnce
  /\ InMetrics
  /\ PastMetrics
  /\ \A k \in Keys : Stored(k)
  /\ AllNamed
  /\ IdentitiesFirst
  /\ SamplesIdentified

LEMMA StoredIsWhole == BatchesWhole <=> \A k \in Keys : Stored(k)
<1> DEFINE W(k) == {i \in DOMAIN commits : k \in Range(batch[commits[i]])}
<1>1. ASSUME NEW k \in Keys, W(k) = {} PROVE Stored(k) <=> sample[k] = None
  BY <1>1 DEF Stored, Writes
<1>2. ASSUME NEW k \in Keys, W(k) # {}
      PROVE Stored(k) <=> \E i \in W(k) : sample[k] = commits[i] /\ \A j \in W(k) : j <= i
  BY <1>2 DEF Stored, Writes
<1>3. QED BY <1>1, <1>2 DEF BatchesWhole

\* Steps that leave the tables and the batches alone and only let collections go on.
LEMMA GoingOn ==
  ASSUME TypeOK, IInv,
         UNCHANGED <<steps, batch, idents, commits, sample, known>>,
         \A x \in Coll : \/ pc'[x] = pc[x] /\ at'[x] = at[x]
                         \/ pc'[x] \in {"step", "ended", "dropped", "dead"} /\ at'[x] \in Nat /\ at'[x] >= at[x]
  PROVE  IInv'
<1>1. MetricsOnce'
  BY DEF IInv, MetricsOnce
<1>2. InMetrics'
  BY DEF IInv, InMetrics
<1>3. PastMetrics'
  <2> SUFFICES ASSUME NEW i \in DOMAIN commits
               PROVE  /\ pc'[commits[i]] \in {"step", "ended", "dropped", "dead"}
                      /\ \E j \in DOMAIN steps[commits[i]] :
                           steps[commits[i]][j] = "metrics" /\ j < at'[commits[i]]
    BY DEF PastMetrics
  <2> DEFINE c == commits[i]
  <2>1. c \in Coll
    BY DEF TypeOK
  <2>2. pc[c] \in {"step", "ended", "dropped", "dead"}
    BY DEF IInv, PastMetrics
  <2>3. PICK j \in DOMAIN steps[c] : steps[c][j] = "metrics" /\ j < at[c]
    BY DEF IInv, PastMetrics
  <2>4. j \in Int /\ at[c] \in Int
    BY <2>1, <2>3 DEF TypeOK
  <2>5. j < at'[c] /\ pc'[c] \in {"step", "ended", "dropped", "dead"}
    BY <2>1, <2>2, <2>3, <2>4
  <2>6. QED BY <2>3, <2>5
<1>4. \A k \in Keys : Stored(k)'
  BY DEF IInv, Stored, Writes
<1>5. IdentitiesFirst'
  BY DEF IInv, IdentitiesFirst
<1>6. SamplesIdentified' /\ AllNamed'
  BY DEF IInv, SamplesIdentified, AllNamed
<1>7. QED BY <1>1, <1>2, <1>3, <1>4, <1>5, <1>6 DEF IInv

\* A fetch replaces the batch of a collection that has not committed yet.
LEMMA Fetches ==
  ASSUME TypeOK, IInv, NEW c \in Coll, FetchMetrics(c) PROVE IInv'
<1>1. /\ UNCHANGED <<steps, at, commits, sample, known>>
      /\ at[c] \in DOMAIN steps[c] /\ steps[c][at[c]] = "metrics"
      /\ pc' = [pc EXCEPT ![c] = "workloads"]
      /\ \A x \in Coll \ {c} : batch'[x] = batch[x]
  BY DEF FetchMetrics, AtStep, db, TypeOK
<1>2. ASSUME NEW i \in DOMAIN commits PROVE commits[i] \in Coll /\ commits[i] # c
  <2>1. commits[i] \in Coll
    BY DEF TypeOK
  <2> SUFFICES ASSUME commits[i] = c PROVE FALSE
    BY <2>1
  <2>2. PICK j \in DOMAIN steps[c] : steps[c][j] = "metrics" /\ j < at[c]
    BY DEF IInv, PastMetrics
  <2>3. j = at[c]
    BY <1>1, <2>2 DEF IInv, MetricsOnce
  <2>4. at[c] \in Nat
    BY DEF TypeOK
  <2>5. QED BY <2>2, <2>3, <2>4
<1>3. MetricsOnce'
  BY <1>1 DEF IInv, MetricsOnce
<1>4. InMetrics'
  BY <1>1 DEF IInv, InMetrics, TypeOK
<1>5. PastMetrics'
  <2>1. \A i \in DOMAIN commits : pc'[commits[i]] = pc[commits[i]]
    BY <1>1, <1>2 DEF TypeOK
  <2>2. QED BY <1>1, <2>1 DEF IInv, PastMetrics
<1>6. ASSUME NEW k \in Keys PROVE Stored(k)'
  <2>1. \A i \in DOMAIN commits : Writes(i, k)' <=> Writes(i, k)
    BY <1>1, <1>2 DEF Writes
  <2>2. Stored(k)
    BY DEF IInv
  <2>3. QED BY <1>1, <2>1, <2>2 DEF Stored
<1>7. IdentitiesFirst'
  BY <1>1 DEF IInv, IdentitiesFirst, TypeOK
<1>8. SamplesIdentified'
  BY <1>1 DEF IInv, SamplesIdentified
<1>8a. AllNamed'
  <2>1. PICK s \in BoundedSeq(Keys, MaxRows), ids \in Seq(Workloads) :
          /\ batch' = [batch EXCEPT ![c] = s] /\ idents' = [idents EXCEPT ![c] = ids]
          /\ Range(ids) = {k[1] : k \in Range(s)}
    BY FetchesNamed
  <2>2. \A x \in Coll : /\ batch'[x] = IF x = c THEN s ELSE batch[x]
                        /\ idents'[x] = IF x = c THEN ids ELSE idents[x]
                        /\ x # c => pc'[x] = pc[x]
    BY <1>1, <2>1 DEF TypeOK
  <2>3. QED BY <2>1, <2>2 DEF IInv, AllNamed
<1>9. QED BY <1>3, <1>4, <1>5, <1>6, <1>7, <1>8, <1>8a DEF IInv

\* The commit of a batch puts it last.
LEMMA Commits ==
  ASSUME TypeOK, IInv, NEW c \in Coll, CommitSamples(c) PROVE IInv'
<1>1. /\ UNCHANGED <<steps, batch, idents, known>>
      /\ pc[c] = "samples" /\ pc' = [pc EXCEPT ![c] = "step"]
      /\ at' = [at EXCEPT ![c] = @ + 1]
      /\ commits' = Append(commits, c)
      /\ sample' = [k \in Keys |-> IF k \in Range(batch[c]) THEN c ELSE sample[k]]
  BY DEF CommitSamples
<1>2. /\ at[c] \in DOMAIN steps[c] /\ steps[c][at[c]] = "metrics" /\ at[c] \in Nat
  BY <1>1 DEF IInv, InMetrics, TypeOK
<1>3. /\ DOMAIN commits = 1 .. Len(commits) /\ Len(commits) \in Nat
      /\ DOMAIN commits' = 1 .. Len(commits) + 1
      /\ commits'[Len(commits) + 1] = c
      /\ \A i \in DOMAIN commits : commits'[i] = commits[i] /\ commits[i] \in Coll
  <2>1. commits \in Seq(Coll)
    BY DEF TypeOK
  <2>2. QED BY <2>1, <1>1, AppendProperties
<1>4. MetricsOnce'
  BY <1>1 DEF IInv, MetricsOnce
<1>5. InMetrics'
  BY <1>1 DEF IInv, InMetrics, TypeOK
<1>6. PastMetrics'
  <2> SUFFICES ASSUME NEW i \in DOMAIN commits'
               PROVE  /\ pc'[commits'[i]] \in {"step", "ended", "dropped", "dead"}
                      /\ \E j \in DOMAIN steps[commits'[i]] :
                           steps[commits'[i]][j] = "metrics" /\ j < at'[commits'[i]]
    BY <1>1 DEF PastMetrics
  <2>1. CASE commits'[i] = c
    <3>1. pc'[c] = "step" /\ at'[c] = at[c] + 1
      BY <1>1 DEF TypeOK
    <3>2. at[c] < at'[c]
      BY <1>2, <3>1
    <3>3. QED BY <2>1, <3>1, <3>2, <1>2
  <2>2. CASE commits'[i] # c
    <3>1. i \in DOMAIN commits /\ commits'[i] = commits[i] /\ commits[i] \in Coll
      BY <2>2, <1>3
    <3>2. pc'[commits[i]] = pc[commits[i]] /\ at'[commits[i]] = at[commits[i]]
      BY <1>1, <2>2, <3>1 DEF TypeOK
    <3>3. QED BY <3>1, <3>2 DEF IInv, PastMetrics
  <2>3. QED BY <2>1, <2>2
<1>7. ASSUME NEW k \in Keys PROVE Stored(k)'
  <2>0. PICK n \in Nat : n = Len(commits) + 1
    BY <1>3
  <2>1. \A i \in DOMAIN commits : i \in DOMAIN commits' /\ (Writes(i, k)' <=> Writes(i, k))
    BY <1>1, <1>3 DEF Writes
  <2>2. Writes(n, k)' <=> k \in Range(batch[c])
    BY <2>0, <1>1, <1>3 DEF Writes
  <2>3. n \in DOMAIN commits' /\ \A j \in DOMAIN commits' : j <= n /\ (j # n => j \in DOMAIN commits)
    BY <2>0, <1>3
  <2>4. CASE k \in Range(batch[c])
    <3>1. sample'[k] = commits'[n]
      BY <2>0, <1>1, <1>3, <2>4
    <3>2. QED BY <2>2, <2>3, <2>4, <3>1 DEF Stored
  <2>5. CASE k \notin Range(batch[c])
    <3>1. sample'[k] = sample[k]
      BY <1>1, <2>5
    <3>2. Stored(k)
      BY DEF IInv
    <3>3. \A j \in DOMAIN commits' : Writes(j, k)' => j \in DOMAIN commits /\ Writes(j, k)
      BY <2>1, <2>2, <2>3, <2>5
    <3>4. QED BY <1>3, <2>1, <3>1, <3>2, <3>3 DEF Stored
  <2>6. QED BY <2>4, <2>5
<1>8. IdentitiesFirst'
  BY <1>1 DEF IInv, IdentitiesFirst, TypeOK
<1>9. SamplesIdentified'
  <2>1. \A k \in Range(batch[c]) : k[1] \in known
    BY <1>1 DEF IInv, IdentitiesFirst
  <2>2. QED BY <1>1, <2>1 DEF IInv, SamplesIdentified
<1>10. AllNamed'
  BY <1>1 DEF IInv, AllNamed, TypeOK
<1>11. QED BY <1>4, <1>5, <1>6, <1>7, <1>8, <1>9, <1>10 DEF IInv

LEMMA Identifies ==
  ASSUME TypeOK, IInv, NEW c \in Coll, CommitWorkloads(c) PROVE IInv'
<1>1. /\ UNCHANGED <<steps, at, commits, batch, idents, sample>>
      /\ pc[c] = "workloads" /\ pc' = [pc EXCEPT ![c] = "samples"]
      /\ known' = known \cup Range(idents[c])
  BY DEF CommitWorkloads
<1>2. \A i \in DOMAIN commits : pc'[commits[i]] = pc[commits[i]]
  <2>1. \A i \in DOMAIN commits : commits[i] \in Coll
    BY DEF TypeOK
  <2>2. \A i \in DOMAIN commits : commits[i] # c
    BY <1>1 DEF IInv, PastMetrics
  <2>3. QED BY <1>1, <2>1, <2>2 DEF TypeOK
<1>3. MetricsOnce'
  BY <1>1 DEF IInv, MetricsOnce
<1>4. InMetrics'
  BY <1>1 DEF IInv, InMetrics, TypeOK
<1>5. PastMetrics'
  BY <1>1, <1>2 DEF IInv, PastMetrics
<1>6. \A k \in Keys : Stored(k)'
  BY <1>1 DEF IInv, Stored, Writes
<1>7. IdentitiesFirst' /\ AllNamed'
  BY <1>1 DEF IInv, IdentitiesFirst, AllNamed, TypeOK
<1>8. SamplesIdentified'
  BY <1>1 DEF IInv, SamplesIdentified
<1>9. QED BY <1>3, <1>4, <1>5, <1>6, <1>7, <1>8 DEF IInv

LEMMA Starts ==
  ASSUME TypeOK, IInv, NEW c \in Coll, Start(c) PROVE IInv'
<1>1. PICK s \in StepLists : steps' = [steps EXCEPT ![c] = s]
  BY CliStepLists DEF Start, StepLists
<1>2. /\ UNCHANGED <<at, commits, batch, idents, sample, known>>
      /\ pc[c] = "idle" /\ pc' = [pc EXCEPT ![c] = "step"]
  BY DEF Start
<1>3. \A i \in DOMAIN commits : commits[i] \in Coll /\ commits[i] # c
  <2>1. \A i \in DOMAIN commits : commits[i] \in Coll
    BY DEF TypeOK
  <2>2. \A i \in DOMAIN commits : commits[i] # c
    BY <1>2 DEF IInv, PastMetrics
  <2>3. QED BY <2>1, <2>2
<1>4. \A x \in Coll \ {c} : steps'[x] = steps[x] /\ pc'[x] = pc[x]
  BY <1>1, <1>2 DEF TypeOK
<1>5. steps'[c] = s /\ pc'[c] = "step"
  BY <1>1, <1>2 DEF TypeOK
<1>6. MetricsOnce'
  <2>1. \A i, j \in DOMAIN s : s[i] = "metrics" /\ s[j] = "metrics" => i = j
    BY DEF StepLists
  <2>2. QED BY <1>4, <1>5, <2>1 DEF IInv, MetricsOnce
<1>7. InMetrics'
  BY <1>2, <1>4, <1>5 DEF IInv, InMetrics
<1>8. PastMetrics'
  BY <1>2, <1>3, <1>4 DEF IInv, PastMetrics
<1>9. \A k \in Keys : Stored(k)'
  BY <1>2 DEF IInv, Stored, Writes
<1>10. IdentitiesFirst' /\ AllNamed'
  BY <1>2, <1>4, <1>5 DEF IInv, IdentitiesFirst, AllNamed
<1>11. SamplesIdentified'
  BY <1>2 DEF IInv, SamplesIdentified
<1>12. QED BY <1>6, <1>7, <1>8, <1>9, <1>10, <1>11 DEF IInv

-----------------------------------------------------------------------------
\* The strengthening holds of every state: the rows of committed batches are stored
\* whole and in order, and each collection is where its steps allow it to be.
THEOREM Invariance == Spec => []IInv
<1> USE CollAssumption
<1>1. Init => IInv
  BY DEF Init, IInv, MetricsOnce, InMetrics, PastMetrics, Stored, Writes,
         AllNamed, IdentitiesFirst, SamplesIdentified
<1>2. TypeOK /\ IInv /\ [Next]_vars => IInv'
  <2> SUFFICES ASSUME TypeOK, IInv, [Next]_vars PROVE IInv'
    OBVIOUS
  <2> DEFINE Tables == <<steps, batch, idents, commits, sample, known>>
             Goes(x) == \/ pc'[x] = pc[x] /\ at'[x] = at[x]
                        \/ /\ pc'[x] \in {"step", "ended", "dropped", "dead"}
                           /\ at'[x] \in Nat /\ at'[x] >= at[x]
  <2>0. ASSUME UNCHANGED Tables, \A x \in Coll : Goes(x) PROVE IInv'
    BY <2>0, GoingOn
  <2>f. ASSUME NEW c \in Coll, StepFailed(c) PROVE UNCHANGED Tables /\ \A x \in Coll : Goes(x)
    BY <2>f DEF StepFailed, db, TypeOK
  <2>e. ASSUME NEW c \in Coll, NEW l \in {"ended", "dropped", "dead"},
               pc' = [pc EXCEPT ![c] = l], UNCHANGED at
        PROVE  \A x \in Coll : Goes(x)
    BY <2>e DEF TypeOK
  <2>1. ASSUME NEW c \in Coll, StartFails(c) PROVE IInv'
    BY <2>1, <2>0, <2>e DEF StartFails, db
  <2>2. ASSUME NEW c \in Coll, InteractionsStep(c) \/ FetchFails(c) PROVE IInv'
    BY <2>2, <2>0, <2>f DEF InteractionsStep, FetchFails
  <2>3. ASSUME NEW c \in Coll, UpsertRow(c) PROVE IInv'
    BY <2>3, <2>0 DEF UpsertRow, db
  <2>4. ASSUME NEW c \in Coll, BusyTimeout(c) \/ DeadlockAbort(c) \/ StatementFails(c) PROVE IInv'
    <3>1. StepFailed(c)
      BY <2>4 DEF BusyTimeout, DeadlockAbort, StatementFails, RollBack
    <3>2. QED BY <3>1, <2>0, <2>f
  <2>5. ASSUME NEW c \in Coll, FinishRow(c) PROVE IInv'
    BY <2>5, <2>0, <2>e DEF FinishRow
  <2>6. ASSUME NEW c \in Coll, FinishFails(c) PROVE IInv'
    BY <2>6, <2>0, <2>e DEF FinishFails, db
  <2>7. ASSUME NEW c \in Coll, PodDies(c) PROVE IInv'
    BY <2>7, <2>0, <2>e DEF PodDies, db
  <2>8. CASE ServiceStops
    BY <2>8, <2>0 DEF ServiceStops, db, TypeOK
  <2>9. CASE ServiceRestarts \/ EngineLocks \/ EngineUnlocks \/ UNCHANGED vars
    BY <2>9, <2>0 DEF ServiceRestarts, EngineLocks, EngineUnlocks, vars, db, local
  <2>10. QED
    BY <2>1, <2>2, <2>3, <2>4, <2>5, <2>6, <2>7, <2>8, <2>9, Starts, Fetches, Identifies, Commits
    DEF Next, Advance
<1>3. QED BY <1>1, <1>2, TypeCorrect, PTL DEF Spec

\* No reader of metric_samples ever meets part of a batch, a row of a failed one,
\* or a row older than the last committed batch with its key.
THEOREM WholeBatches == Spec => []BatchesWhole
<1>1. IInv => BatchesWhole
  BY StoredIsWhole DEF IInv
<1>2. QED BY <1>1, Invariance, PTL

\* No reader ever meets a sample whose workload has no identity row.
THEOREM Identified == Spec => []SamplesIdentified
<1>1. IInv => SamplesIdentified
  BY DEF IInv
<1>2. QED BY <1>1, Invariance, PTL

-----------------------------------------------------------------------------
(* The refinement of CollectionLedger.  A closed row tells the truth when  *)
(* the errors Finish counted tell whether the metrics step committed: each *)
(* step behind a collection either failed and was counted, or is the one   *)
(* metrics step whose batch was committed and added to the total.          *)

Working == {"step", "workloads", "samples"}

Committed(c) == c \in Range(commits)

\* The row of a collection that was not closed says where the collection is.
Opened(c) ==
  /\ pc[c] = "idle" => row[c].status = "absent" /\ at[c] = 1 /\ errs[c] = 0
  /\ pc[c] \in Working => row[c].status = "running"
  /\ row[c].status \in {"absent", "running"} => row[c].rows = 0

\* What Finish has counted.
Counted(c) ==
  /\ total[c] = IF Committed(c) THEN Len(batch[c]) ELSE 0
  /\ pc[c] \in Working =>
       /\ 1 <= Len(steps[c]) /\ at[c] <= Len(steps[c]) + 1
       /\ at[c] = errs[c] + (IF Committed(c) THEN 2 ELSE 1)

LInv == \A c \in Coll : Opened(c) /\ Counted(c)

\* A collection at its metrics step, or one that did not start, has not committed.
LEMMA NotYet ==
  ASSUME TypeOK, IInv, NEW c \in Coll,
         pc[c] \in {"idle", "workloads", "samples"} \/ AtStep(c, "metrics")
  PROVE  ~Committed(c)
<1> SUFFICES ASSUME NEW i \in DOMAIN commits, commits[i] = c PROVE FALSE
  BY DEF Committed, Range
<1>1. pc[c] \in {"step", "ended", "dropped", "dead"}
  BY DEF IInv, PastMetrics
<1>2. PICK j \in DOMAIN steps[c] : steps[c][j] = "metrics" /\ j < at[c]
  BY DEF IInv, PastMetrics
<1>3. at[c] \in DOMAIN steps[c] /\ steps[c][at[c]] = "metrics"
  BY <1>1 DEF AtStep
<1>4. j = at[c]
  BY <1>2, <1>3 DEF IInv, MetricsOnce
<1>5. at[c] \in Nat
  BY DEF TypeOK
<1>6. QED BY <1>2, <1>4, <1>5

\* The lengths and counters the arithmetic below is about.
LEMMA Numbers ==
  ASSUME TypeOK, NEW c \in Coll
  PROVE  /\ at[c] \in Nat /\ errs[c] \in Nat /\ total[c] \in Nat
         /\ Len(steps[c]) \in Nat /\ DOMAIN steps[c] = 1 .. Len(steps[c])
         /\ Len(batch[c]) \in Nat
         /\ row[c] \in [status : Terminal \cup {"absent", "running"}, rows : Nat]
<1>1. steps[c] \in Seq(StepName) /\ batch[c] \in Seq(Keys)
  BY DEF TypeOK
<1>2. QED BY <1>1 DEF TypeOK

\* A collection that a step leaves alone, or that stops, keeps what it counted.
LEMMA LeftAlone ==
  ASSUME NEW x \in Coll, Opened(x), Counted(x),
         row'[x] = row[x], pc'[x] = pc[x] \/ pc'[x] \in {"ended", "dropped", "dead"},
         steps'[x] = steps[x], at'[x] = at[x], errs'[x] = errs[x],
         total'[x] = total[x], batch'[x] = batch[x],
         Committed(x)' <=> Committed(x)
  PROVE  Opened(x)' /\ Counted(x)'
<1>1. Opened(x)'
  BY DEF Opened, Working
<1>2. Counted(x)'
  BY DEF Counted, Working
<1>3. QED BY <1>1, <1>2

\* A commit adds its collection to those that published.
LEMMA CommittedNow ==
  ASSUME TypeOK, NEW c \in Coll, CommitSamples(c)
  PROVE  \A x \in Coll : Committed(x)' <=> (x = c \/ Committed(x))
<1>1. commits \in Seq(Coll) /\ commits' = Append(commits, c)
  BY DEF TypeOK, CommitSamples
<1>2. /\ DOMAIN commits = 1 .. Len(commits) /\ Len(commits) \in Nat
      /\ DOMAIN commits' = 1 .. Len(commits) + 1
      /\ commits'[Len(commits) + 1] = c
      /\ \A i \in DOMAIN commits : commits'[i] = commits[i]
  BY <1>1, AppendProperties
<1>3. QED BY <1>2 DEF Committed, Range

\* A failed step is counted.
LEMMA FailureCounted ==
  ASSUME TypeOK, LInv, NEW c \in Coll, StepFailed(c),
         pc[c] \in Working, at[c] \in DOMAIN steps[c]
  PROVE  LInv'
<1>1. ASSUME NEW x \in Coll PROVE Opened(x) /\ Counted(x)
  BY DEF LInv
<1>2. /\ UNCHANGED <<row, steps, total, batch, commits>>
      /\ pc' = [pc EXCEPT ![c] = "step"]
      /\ errs' = [errs EXCEPT ![c] = @ + 1] /\ at' = [at EXCEPT ![c] = @ + 1]
  BY DEF StepFailed, db
<1>3. \A x \in Coll : Committed(x)' <=> Committed(x)
  BY <1>2 DEF Committed
<1>4. ASSUME NEW x \in Coll \ {c} PROVE Opened(x)' /\ Counted(x)'
  <2>1. pc'[x] = pc[x] /\ errs'[x] = errs[x] /\ at'[x] = at[x]
    BY <1>2 DEF TypeOK
  <2>2. QED BY <1>1, <1>2, <1>3, <2>1, LeftAlone
<1>5. Opened(c)' /\ Counted(c)'
  <2>1. pc'[c] = "step" /\ errs'[c] = errs[c] + 1 /\ at'[c] = at[c] + 1
    BY <1>2 DEF TypeOK
  <2>2. Opened(c)'
    BY <1>1, <1>2, <2>1 DEF Opened, Working
  <2>3. Counted(c)'
    BY <1>1, <1>2, <1>3, <2>1, Numbers DEF Counted, Working
  <2>4. QED BY <2>2, <2>3
<1>6. QED BY <1>4, <1>5 DEF LInv

\* Every step keeps the counts.
LEMMA CountsKept == TypeOK /\ IInv /\ LInv /\ [Next]_vars => LInv'
<1> SUFFICES ASSUME TypeOK, IInv, LInv, [Next]_vars PROVE LInv'
  OBVIOUS
<1>0. ASSUME NEW x \in Coll PROVE Opened(x) /\ Counted(x)
  BY DEF LInv
<1>s. ASSUME NEW c \in Coll, Start(c) PROVE LInv'
  <2>1. PICK s \in StepLists : steps' = [steps EXCEPT ![c] = s]
    BY <1>s, CliStepLists DEF Start, StepLists
  <2>2. /\ pc[c] = "idle" /\ pc' = [pc EXCEPT ![c] = "step"]
        /\ row' = [row EXCEPT ![c].status = "running"]
        /\ UNCHANGED <<at, errs, total, batch, commits>>
    BY <1>s DEF Start
  <2>3. \A x \in Coll : Committed(x)' <=> Committed(x)
    BY <2>2 DEF Committed
  <2>4. ASSUME NEW x \in Coll \ {c} PROVE Opened(x)' /\ Counted(x)'
    <3>1. pc'[x] = pc[x] /\ row'[x] = row[x] /\ steps'[x] = steps[x]
      BY <2>1, <2>2 DEF TypeOK
    <3>2. QED BY <1>0, <2>2, <2>3, <3>1, LeftAlone
  <2>5. Opened(c)' /\ Counted(c)'
    <3>1. pc'[c] = "step" /\ steps'[c] = s
      BY <2>1, <2>2 DEF TypeOK
    <3>2. row'[c].status = "running" /\ row'[c].rows = row[c].rows
      <4>1. row[c] \in [status : Terminal \cup {"absent", "running"}, rows : Nat]
        BY Numbers
      <4>2. row'[c] = [row[c] EXCEPT !.status = "running"]
        BY <2>2 DEF TypeOK
      <4>3. QED BY <4>1, <4>2
    <3>3. at'[c] = 1 /\ errs'[c] = 0 /\ row[c].rows = 0
      BY <1>0, <2>2 DEF Opened
    <3>4. ~Committed(c) /\ ~Committed(c)'
      BY <2>2, <2>3, NotYet
    <3>5. 1 <= Len(s) /\ Len(s) \in Nat
      BY DEF StepLists
    <3>6. Opened(c)'
      BY <3>1, <3>2, <3>3 DEF Opened, Working
    <3>7. Counted(c)'
      BY <1>0, <2>2, <3>1, <3>3, <3>4, <3>5 DEF Counted
    <3>8. QED BY <3>6, <3>7
  <2>6. QED BY <2>4, <2>5 DEF LInv
<1>i. ASSUME NEW c \in Coll, InteractionsStep(c) PROVE LInv'
  BY <1>i, FailureCounted DEF InteractionsStep, AtStep, Working
<1>x. ASSUME NEW c \in Coll, FetchFails(c) PROVE LInv'
  BY <1>x, FailureCounted DEF FetchFails, AtStep, Working
<1>f. ASSUME NEW c \in Coll, FetchMetrics(c) PROVE LInv'
  <2>1. /\ UNCHANGED <<row, steps, at, errs, total, commits>>
        /\ pc[c] = "step" /\ at[c] \in DOMAIN steps[c]
        /\ pc' = [pc EXCEPT ![c] = "workloads"]
        /\ \A x \in Coll \ {c} : batch'[x] = batch[x]
    BY <1>f DEF FetchMetrics, AtStep, db, TypeOK
  <2>2. \A x \in Coll : Committed(x)' <=> Committed(x)
    BY <2>1 DEF Committed
  <2>3. ASSUME NEW x \in Coll \ {c} PROVE Opened(x)' /\ Counted(x)'
    <3>1. pc'[x] = pc[x]
      BY <2>1 DEF TypeOK
    <3>2. QED BY <1>0, <2>1, <2>2, <3>1, LeftAlone
  <2>4. Opened(c)' /\ Counted(c)'
    <3>1. pc'[c] = "workloads"
      BY <2>1 DEF TypeOK
    <3>2. ~Committed(c) /\ ~Committed(c)'
      BY <1>f, <2>2, NotYet DEF FetchMetrics
    <3>3. Opened(c)'
      BY <1>0, <2>1, <3>1 DEF Opened, Working
    <3>4. Counted(c)'
      BY <1>0, <2>1, <3>1, <3>2, Numbers DEF Counted, Working
    <3>5. QED BY <3>3, <3>4
  <2>5. QED BY <2>3, <2>4 DEF LInv
<1>w. ASSUME NEW c \in Coll, CommitWorkloads(c) PROVE LInv'
  <2>1. /\ UNCHANGED <<row, steps, at, errs, total, batch, commits>>
        /\ pc[c] = "workloads" /\ pc' = [pc EXCEPT ![c] = "samples"]
    BY <1>w DEF CommitWorkloads
  <2>2. \A x \in Coll : Committed(x)' <=> Committed(x)
    BY <2>1 DEF Committed
  <2>3. ASSUME NEW x \in Coll \ {c} PROVE Opened(x)' /\ Counted(x)'
    <3>1. pc'[x] = pc[x]
      BY <2>1 DEF TypeOK
    <3>2. QED BY <1>0, <2>1, <2>2, <3>1, LeftAlone
  <2>4. Opened(c)' /\ Counted(c)'
    <3>1. pc'[c] = "samples"
      BY <2>1 DEF TypeOK
    <3>2. Opened(c)'
      BY <1>0, <2>1, <3>1 DEF Opened, Working
    <3>3. Counted(c)'
      BY <1>0, <2>1, <2>2, <3>1 DEF Counted, Working
    <3>4. QED BY <3>2, <3>3
  <2>5. QED BY <2>3, <2>4 DEF LInv
<1>c. ASSUME NEW c \in Coll, CommitSamples(c) PROVE LInv'
  <2>1. /\ UNCHANGED <<row, steps, errs, batch>>
        /\ pc[c] = "samples" /\ pc' = [pc EXCEPT ![c] = "step"]
        /\ at' = [at EXCEPT ![c] = @ + 1]
        /\ total' = [total EXCEPT ![c] = @ + Len(batch[c])]
    BY <1>c DEF CommitSamples
  <2>2. \A x \in Coll : Committed(x)' <=> (x = c \/ Committed(x))
    BY <1>c, CommittedNow
  <2>3. ASSUME NEW x \in Coll \ {c} PROVE Opened(x)' /\ Counted(x)'
    <3>1. pc'[x] = pc[x] /\ at'[x] = at[x] /\ total'[x] = total[x]
      BY <2>1 DEF TypeOK
    <3>2. QED BY <1>0, <2>1, <2>2, <3>1, LeftAlone
  <2>4. Opened(c)' /\ Counted(c)'
    <3>1. pc'[c] = "step" /\ at'[c] = at[c] + 1 /\ total'[c] = total[c] + Len(batch[c])
      BY <2>1 DEF TypeOK
    <3>2. ~Committed(c) /\ Committed(c)'
      BY <2>1, <2>2, NotYet
    <3>3. at[c] \in DOMAIN steps[c]
      BY <2>1 DEF IInv, InMetrics
    <3>4. Opened(c)'
      BY <1>0, <2>1, <3>1 DEF Opened, Working
    <3>5. Counted(c)'
      BY <1>0, <2>1, <3>1, <3>2, <3>3, Numbers DEF Counted, Working
    <3>6. QED BY <3>4, <3>5
  <2>5. QED BY <2>3, <2>4 DEF LInv
<1>b. ASSUME NEW c \in Coll, RollBack(c) PROVE LInv'
  <2>1. StepFailed(c) /\ pc[c] \in {"workloads", "samples"}
    BY <1>b DEF RollBack, Upserting
  <2>2. at[c] \in DOMAIN steps[c]
    BY <2>1 DEF IInv, InMetrics
  <2>3. QED BY <2>1, <2>2, FailureCounted DEF Working
<1>r. ASSUME NEW c \in Coll, FinishRow(c) PROVE LInv'
  <2> DEFINE st == statusFor(errs[c], Len(steps[c]), total[c])
  <2>1. /\ UNCHANGED <<steps, at, errs, total, batch, commits>>
        /\ pc' = [pc EXCEPT ![c] = "ended"]
        /\ row' = [row EXCEPT ![c] = [status |-> st, rows |-> total[c]]]
    BY <1>r DEF FinishRow
  <2>2. \A x \in Coll : Committed(x)' <=> Committed(x)
    BY <2>1 DEF Committed
  <2>3. ASSUME NEW x \in Coll \ {c} PROVE Opened(x)' /\ Counted(x)'
    <3>1. pc'[x] = pc[x] /\ row'[x] = row[x]
      BY <2>1 DEF TypeOK
    <3>2. QED BY <1>0, <2>1, <2>2, <3>1, LeftAlone
  <2>4. Opened(c)' /\ Counted(c)'
    <3>1. pc'[c] = "ended" /\ row'[c].status = st
      BY <2>1 DEF TypeOK
    <3>2. st \in Terminal
      BY StatusIsTerminal
    <3>3. row'[c].status \notin {"absent", "running"}
      BY <3>1, <3>2 DEF Terminal
    <3>4. Opened(c)'
      BY <3>1, <3>3 DEF Opened, Working
    <3>5. Counted(c)'
      BY <1>0, <2>1, <2>2, <3>1 DEF Counted, Working
    <3>6. QED BY <3>4, <3>5
  <2>5. QED BY <2>3, <2>4 DEF LInv
<1> DEFINE Stops == /\ UNCHANGED <<row, steps, at, errs, total, batch, commits>>
                    /\ \A x \in Coll : pc'[x] = pc[x] \/ pc'[x] \in {"ended", "dropped", "dead"}
<1>o. ASSUME Stops PROVE LInv'
  <2>1. ASSUME NEW x \in Coll PROVE Opened(x)' /\ Counted(x)'
    <3>1. Committed(x)' <=> Committed(x)
      BY <1>o DEF Committed
    <3>2. QED BY <1>0, <1>o, <3>1, LeftAlone
  <2>2. QED BY <2>1 DEF LInv
<1>1. ASSUME NEW c \in Coll, StartFails(c) PROVE LInv'
  <2>1. Stops
    BY <1>1 DEF StartFails, db, TypeOK
  <2>2. QED BY <2>1, <1>o
<1>2. ASSUME NEW c \in Coll, UpsertRow(c) PROVE LInv'
  <2>1. Stops
    BY <1>2 DEF UpsertRow, db
  <2>2. QED BY <2>1, <1>o
<1>3. ASSUME NEW c \in Coll, FinishFails(c) PROVE LInv'
  <2>1. Stops
    BY <1>3 DEF FinishFails, db, TypeOK
  <2>2. QED BY <2>1, <1>o
<1>4. ASSUME NEW c \in Coll, PodDies(c) PROVE LInv'
  <2>1. Stops
    BY <1>4 DEF PodDies, db, TypeOK
  <2>2. QED BY <2>1, <1>o
<1>5. CASE ServiceStops
  <2>1. Stops
    BY <1>5 DEF ServiceStops, db, TypeOK
  <2>2. QED BY <2>1, <1>o
<1>6. CASE ServiceRestarts \/ EngineLocks \/ EngineUnlocks \/ UNCHANGED vars
  <2>1. Stops
    BY <1>6 DEF ServiceRestarts, EngineLocks, EngineUnlocks, vars, db, local
  <2>2. QED BY <2>1, <1>o
<1>7. ASSUME NEW c \in Coll, Advance(c) \/ StatementFails(c) PROVE LInv'
  BY <1>7, <1>i, <1>x, <1>f, <1>w, <1>2, <1>c, <1>b, <1>r, <1>3
  DEF Advance, BusyTimeout, DeadlockAbort, StatementFails
<1>8. QED BY <1>s, <1>1, <1>7, <1>4, <1>5, <1>6 DEF Next

\* What the rows and the commits are to a reader of CollectionLedger.
Status == [c \in Coll |-> row[c].status]
Written == [c \in Coll |-> row[c].rows]
Published == [c \in Coll |-> IF c \in Range(commits) THEN Len(batch[c]) ELSE -1]

\* A step that changes no row, no commit and no batch of a committed collection.
LEMMA LedgerStutters ==
  ASSUME UNCHANGED <<row, commits>>,
         \A x \in Coll : Committed(x) => batch'[x] = batch[x]
  PROVE  UNCHANGED Ledger!vars
<1>1. UNCHANGED Status /\ UNCHANGED Written
  BY DEF Status, Written
<1>2. UNCHANGED Published
  BY DEF Published, Committed
<1>3. QED BY <1>1, <1>2 DEF Status, Written, Published, Ledger!vars

\* Start opens the row.
LEMMA StartOpens ==
  ASSUME TypeOK, LInv, NEW c \in Coll, Start(c) PROVE Ledger!Open(c)
<1>1. /\ pc[c] = "idle" /\ row' = [row EXCEPT ![c].status = "running"]
      /\ UNCHANGED <<commits, batch>>
  BY DEF Start
<1>2. Status[c] = "absent"
  BY <1>1 DEF LInv, Opened, Status
<1>3. ASSUME NEW x \in Coll
      PROVE  /\ row'[x].rows = row[x].rows
             /\ row'[x].status = IF x = c THEN "running" ELSE row[x].status
  <2>1. row[x] \in [status : Terminal \cup {"absent", "running"}, rows : Nat]
    BY DEF TypeOK
  <2>2. row'[x] = IF x = c THEN [row[x] EXCEPT !.status = "running"] ELSE row[x]
    BY <1>1 DEF TypeOK
  <2>3. QED BY <2>1, <2>2
<1>4. Status' = [Status EXCEPT ![c] = "running"]
  BY <1>3 DEF Status
<1>5. UNCHANGED Written
  BY <1>3 DEF Written
<1>6. UNCHANGED Published
  BY <1>1 DEF Published
<1>7. QED BY <1>2, <1>4, <1>5, <1>6 DEF Status, Written, Published, Ledger!Open

\* The commit of the batch publishes it, once.
LEMMA CommitPublishes ==
  ASSUME TypeOK, IInv, LInv, NEW c \in Coll, CommitSamples(c) PROVE Ledger!Publish(c)
<1>1. pc[c] = "samples" /\ UNCHANGED <<row, batch>>
  BY DEF CommitSamples
<1>2. Status[c] = "running"
  BY <1>1 DEF LInv, Opened, Working, Status
<1>3. Published[c] = -1
  BY <1>1, NotYet DEF Published, Committed
<1>4. \A x \in Coll : Published'[x] = IF x = c THEN Len(batch[c]) ELSE Published[x]
  BY <1>1, CommittedNow DEF Published, Committed
<1>5. Published'[c] \in Nat
  BY <1>4, Numbers
<1>6. Published' = [Published EXCEPT ![c] = Published'[c]]
  BY <1>4 DEF Published
<1>7. UNCHANGED Status /\ UNCHANGED Written
  BY <1>1 DEF Status, Written
<1>8. QED BY <1>2, <1>3, <1>5, <1>6, <1>7 DEF Status, Written, Published, Ledger!Publish

\* The status Finish computes from its counts says whether the batch was committed.
LEMMA StatusIsTrue ==
  ASSUME TypeOK, LInv, NEW c \in Coll, StepsDone(c)
  PROVE  IF Committed(c)
         THEN statusFor(errs[c], Len(steps[c]), total[c]) \in {"success", "partial"}
         ELSE total[c] = 0 /\ statusFor(errs[c], Len(steps[c]), total[c]) = "failed"
<1>1. Counted(c) /\ pc[c] = "step" /\ at[c] > Len(steps[c])
  BY DEF LInv, StepsDone
<1>2. /\ total[c] = IF Committed(c) THEN Len(batch[c]) ELSE 0
      /\ 1 <= Len(steps[c]) /\ at[c] <= Len(steps[c]) + 1
      /\ at[c] = errs[c] + (IF Committed(c) THEN 2 ELSE 1)
  BY <1>1 DEF Counted, Working
<1>3. CASE Committed(c)
  <2>1. errs[c] < Len(steps[c])
    <3>1. at[c] = errs[c] + 2
      BY <1>2, <1>3
    <3>2. QED BY <1>2, <3>1, Numbers
  <2>2. QED BY <1>3, <2>1 DEF statusFor
<1>4. CASE ~Committed(c)
  <2>1. errs[c] # 0 /\ ~(total[c] > 0) /\ ~(errs[c] < Len(steps[c])) /\ total[c] = 0
    <3>1. at[c] = errs[c] + 1 /\ total[c] = 0
      BY <1>2, <1>4
    <3>2. QED BY <1>1, <1>2, <3>1, Numbers
  <2>2. QED BY <1>4, <2>1 DEF statusFor
<1>5. QED BY <1>3, <1>4

\* The update at the end of Finish closes the row.
LEMMA FinishCloses ==
  ASSUME TypeOK, LInv, NEW c \in Coll, FinishRow(c) PROVE Ledger!Close(c)
<1> DEFINE st == statusFor(errs[c], Len(steps[c]), total[c])
<1>1. /\ StepsDone(c) /\ pc[c] = "step"
      /\ row' = [row EXCEPT ![c] = [status |-> st, rows |-> total[c]]]
      /\ UNCHANGED <<commits, batch>>
  BY DEF FinishRow, StepsDone
<1>2. Status[c] = "running"
  BY <1>1 DEF LInv, Opened, Working, Status
<1>3. ASSUME NEW x \in Coll
      PROVE  /\ row'[x].status = IF x = c THEN st ELSE row[x].status
             /\ row'[x].rows = IF x = c THEN total[c] ELSE row[x].rows
  <2> HIDE DEF st
  <2>1. row'[x] = IF x = c THEN [status |-> st, rows |-> total[c]] ELSE row[x]
    BY <1>1 DEF TypeOK
  <2>2. QED BY <2>1
<1>4. UNCHANGED Published
  BY <1>1 DEF Published
<1>5. total[c] = IF Committed(c) THEN Len(batch[c]) ELSE 0
  BY DEF LInv, Counted
<1>6. CASE Committed(c)
  <2>1. st \in {"success", "partial"}
    BY <1>1, <1>6, StatusIsTrue
  <2>2. Published[c] = total[c] /\ Published[c] >= 0
    BY <1>5, <1>6, Numbers DEF Published, Committed
  <2>3. Status' \in {[Status EXCEPT ![c] = s] : s \in {"success", "partial"}}
    <3>1. Status' = [Status EXCEPT ![c] = st]
      BY <1>3 DEF Status
    <3>2. QED BY <2>1, <3>1
  <2>4. Written' = [Written EXCEPT ![c] = Published[c]]
    BY <1>3, <2>2 DEF Written
  <2>5. QED BY <1>2, <1>4, <2>2, <2>3, <2>4 DEF Status, Written, Published, Ledger!Close
<1>7. CASE ~Committed(c)
  <2>1. st = "failed" /\ total[c] = 0
    BY <1>1, <1>7, StatusIsTrue
  <2>2. Published[c] = -1
    BY <1>7 DEF Published, Committed
  <2>3. Status' = [Status EXCEPT ![c] = "failed"]
    BY <1>3, <2>1 DEF Status
  <2>4. Written' = [Written EXCEPT ![c] = 0]
    BY <1>3, <2>1 DEF Written
  <2>5. QED BY <1>2, <1>4, <2>2, <2>3, <2>4 DEF Status, Written, Published, Ledger!Close
<1>8. QED BY <1>6, <1>7

LEMMA LedgerSteps ==
  TypeOK /\ IInv /\ LInv /\ [Next]_vars => [Ledger!Next]_(Ledger!vars)
<1> SUFFICES ASSUME TypeOK, IInv, LInv, [Next]_vars PROVE Ledger!Next \/ UNCHANGED Ledger!vars
  OBVIOUS
<1>1. ASSUME NEW c \in Coll, Start(c) PROVE Ledger!Next
  BY <1>1, StartOpens DEF Ledger!Next
<1>2. ASSUME NEW c \in Coll, CommitSamples(c) PROVE Ledger!Next
  BY <1>2, CommitPublishes DEF Ledger!Next
<1>3. ASSUME NEW c \in Coll, FinishRow(c) PROVE Ledger!Next
  BY <1>3, FinishCloses DEF Ledger!Next
<1>4. ASSUME NEW c \in Coll, FetchMetrics(c) PROVE UNCHANGED Ledger!vars
  <2>1. UNCHANGED <<row, commits>> /\ \A x \in Coll \ {c} : batch'[x] = batch[x]
    BY <1>4 DEF FetchMetrics, db, TypeOK
  <2>2. ~Committed(c)
    BY <1>4, NotYet DEF FetchMetrics
  <2>3. QED BY <2>1, <2>2, LedgerStutters
<1> DEFINE Same == UNCHANGED <<row, commits, batch>>
<1>5. ASSUME Same PROVE UNCHANGED Ledger!vars
  BY <1>5, LedgerStutters
<1>6. ASSUME NEW c \in Coll, StepFailed(c) PROVE UNCHANGED Ledger!vars
  BY <1>6, <1>5 DEF StepFailed, db
<1>7. ASSUME NEW c \in Coll, StartFails(c) PROVE UNCHANGED Ledger!vars
  BY <1>7, <1>5 DEF StartFails, db
<1>8. ASSUME NEW c \in Coll, CommitWorkloads(c) PROVE UNCHANGED Ledger!vars
  BY <1>8, <1>5 DEF CommitWorkloads
<1>9. ASSUME NEW c \in Coll, UpsertRow(c) PROVE UNCHANGED Ledger!vars
  BY <1>9, <1>5 DEF UpsertRow, db
<1>10. ASSUME NEW c \in Coll, FinishFails(c) PROVE UNCHANGED Ledger!vars
  BY <1>10, <1>5 DEF FinishFails, db
<1>11. ASSUME NEW c \in Coll, PodDies(c) PROVE UNCHANGED Ledger!vars
  BY <1>11, <1>5 DEF PodDies, db
<1>12. CASE ServiceStops
  BY <1>12, <1>5 DEF ServiceStops, db
<1>13. CASE ServiceRestarts \/ EngineLocks \/ EngineUnlocks \/ UNCHANGED vars
  BY <1>13, <1>5 DEF ServiceRestarts, EngineLocks, EngineUnlocks, vars, db, local
<1>14. ASSUME NEW c \in Coll, Advance(c) \/ StatementFails(c) PROVE Ledger!Next \/ UNCHANGED Ledger!vars
  <2>1. CASE InteractionsStep(c)
    BY <2>1, <1>6 DEF InteractionsStep
  <2>2. CASE FetchFails(c)
    BY <2>2, <1>6 DEF FetchFails
  <2>3. CASE BusyTimeout(c) \/ DeadlockAbort(c)
    BY <2>3, <1>6 DEF BusyTimeout, DeadlockAbort, RollBack
  <2>4. CASE StatementFails(c)
    BY <2>4, <1>6 DEF StatementFails, RollBack
  <2>5. QED BY <1>14, <2>1, <2>2, <2>3, <2>4, <1>4, <1>8, <1>9, <1>2, <1>3, <1>10 DEF Advance
<1>15. QED BY <1>1, <1>7, <1>14, <1>11, <1>12, <1>13 DEF Next

\* Everyone who polls collection_runs is told the truth: a row is opened once and
\* closed at most once, its collection publishes its samples whole, at most once and
\* while the row says running, and a closed row says whether and how many.
THEOREM LedgerImplemented == Spec => LedgerSpec
<1> USE CollAssumption
<1>1. Init => LInv
  BY DEF Init, LInv, Opened, Counted, Working, Committed, Range
<1>2. Init => Ledger!Init
  <2> SUFFICES ASSUME Init PROVE Ledger!Init
    OBVIOUS
  <2>1. Status = [c \in Coll |-> "absent"] /\ Written = [c \in Coll |-> 0]
    BY DEF Init, Status, Written
  <2>2. Range(commits) = {}
    BY DEF Init, Range
  <2>3. Published = [c \in Coll |-> -1]
    BY <2>2 DEF Published
  <2>4. QED BY <2>1, <2>3 DEF Status, Written, Published, Ledger!Init
<1>3. Spec => []LInv
  BY <1>1, CountsKept, TypeCorrect, Invariance, PTL DEF Spec
<1>4. QED
  BY <1>2, <1>3, LedgerSteps, TypeCorrect, Invariance, PTL DEF Spec, LedgerSpec, Ledger!Spec

-----------------------------------------------------------------------------
(* Freshness.  The upsert compares no collected_at; a newer row is never   *)
(* replaced by an older one because at most one CronJob pod works at a     *)
(* time, and the one that works fetched after every pod that committed.    *)

FetchesCounted == \A c \in Coll : fetched[c] <= clock

OnePod ==
  \A c, d \in CronColl : pc[c] \in Working /\ pc[d] \in Working => c = d

\* A pod about to commit fetched no earlier than any pod that has a row stored.
NewestCommits ==
  \A c \in CronColl : pc[c] \in {"workloads", "samples"} =>
    \A k \in Keys : sample[k] \in CronColl => fetched[sample[k]] <= fetched[c]

FInv == FetchesCounted /\ OnePod /\ NewestCommits

\* A step that neither fetches nor commits, and starts no pod.
LEMMA OrderKept ==
  ASSUME TypeOK, FInv, UNCHANGED <<sample, fetched, clock>>,
         \A x \in CronColl : pc'[x] = pc[x] \/ pc'[x] \notin Working
                             \/ (pc[x] \in Working /\ pc'[x] = "step")
                             \/ (pc[x] = "workloads" /\ pc'[x] = "samples")
  PROVE  FInv'
<1>1. FetchesCounted'
  BY DEF FInv, FetchesCounted
<1>2. OnePod'
  BY DEF FInv, OnePod, Working
<1>3. NewestCommits'
  BY DEF FInv, NewestCommits, Working
<1>4. QED BY <1>1, <1>2, <1>3 DEF FInv

LEMMA OrderOfSteps == TypeOK /\ FInv /\ [Next]_vars => FInv'
<1> SUFFICES ASSUME TypeOK, FInv, [Next]_vars PROVE FInv'
  OBVIOUS
<1>0. CronColl \subseteq Coll
  BY DEF Coll
<1> DEFINE Goes(x) == pc'[x] = pc[x] \/ pc'[x] \notin Working
                      \/ (pc[x] \in Working /\ pc'[x] = "step")
                      \/ (pc[x] = "workloads" /\ pc'[x] = "samples")
           Calm == UNCHANGED <<sample, fetched, clock>> /\ \A x \in Coll : Goes(x)
<1>o. ASSUME Calm PROVE FInv'
  BY <1>o, <1>0, OrderKept
<1>g. ASSUME NEW c \in Coll, NEW l, pc' = [pc EXCEPT ![c] = l],
             l \notin Working \/ (pc[c] \in Working /\ l = "step")
             \/ (pc[c] = "workloads" /\ l = "samples")
      PROVE  \A x \in Coll : Goes(x)
  BY <1>g DEF TypeOK
<1>f. ASSUME NEW c \in Coll, StepFailed(c), pc[c] \in Working PROVE Calm
  BY <1>f, <1>g DEF StepFailed, db
<1>1. ASSUME NEW c \in Coll, Start(c) PROVE FInv'
  <2>1. /\ UNCHANGED <<sample, fetched, clock>>
        /\ pc' = [pc EXCEPT ![c] = "step"] /\ MayStart(c)
    BY <1>1 DEF Start
  <2>2. \A x \in Coll : pc'[x] = IF x = c THEN "step" ELSE pc[x]
    BY <2>1 DEF TypeOK
  <2>3. FetchesCounted'
    BY <2>1 DEF FInv, FetchesCounted
  <2>4. OnePod'
    <3>1. CASE c \in ServiceColl
      <4>1. c \notin CronColl
        BY <3>1, CollAssumption
      <4>2. QED BY <1>0, <2>2, <4>1 DEF FInv, OnePod
    <3>2. CASE c \notin ServiceColl
      <4>1. \A o \in CronColl : pc[o] \notin Working
        BY <2>1, <3>2 DEF MayStart, Working
      <4>2. QED BY <1>0, <2>2, <4>1 DEF OnePod
    <3>3. QED BY <3>1, <3>2
  <2>5. NewestCommits'
    BY <1>0, <2>1, <2>2 DEF FInv, NewestCommits
  <2>6. QED BY <2>3, <2>4, <2>5 DEF FInv
<1>2. ASSUME NEW c \in Coll, FetchMetrics(c) PROVE FInv'
  <2>1. /\ sample' = sample /\ clock' = clock + 1
        /\ fetched' = [fetched EXCEPT ![c] = clock + 1]
        /\ pc[c] = "step" /\ pc' = [pc EXCEPT ![c] = "workloads"]
    BY <1>2 DEF FetchMetrics, AtStep, db
  <2>2. \A x \in Coll : /\ pc'[x] = IF x = c THEN "workloads" ELSE pc[x]
                        /\ fetched'[x] = IF x = c THEN clock + 1 ELSE fetched[x]
                        /\ fetched[x] \in Nat /\ clock \in Nat
    BY <2>1 DEF TypeOK
  <2>3. FetchesCounted'
    BY <2>1, <2>2 DEF FInv, FetchesCounted
  <2>4. OnePod'
    BY <1>0, <2>1, <2>2 DEF FInv, OnePod, Working
  <2>5. NewestCommits'
    <3> SUFFICES ASSUME NEW e \in CronColl, pc'[e] \in {"workloads", "samples"},
                        NEW k \in Keys, sample[k] \in CronColl
                 PROVE  fetched'[sample[k]] <= fetched'[e]
      BY <2>1 DEF NewestCommits
    <3>1. CASE e = c
      <4>1. fetched'[sample[k]] <= clock + 1
        BY <1>0, <2>2 DEF FInv, FetchesCounted
      <4>2. QED BY <1>0, <2>2, <3>1, <4>1
    <3>2. CASE e # c
      <4>1. pc[e] \in {"workloads", "samples"} /\ fetched'[e] = fetched[e]
        BY <1>0, <2>2, <3>2
      <4>2. c \notin CronColl
        BY <2>1, <3>2, <4>1 DEF FInv, OnePod, Working
      <4>3. fetched'[sample[k]] = fetched[sample[k]]
        BY <1>0, <2>2, <4>2
      <4>4. QED BY <4>1, <4>3 DEF FInv, NewestCommits
    <3>3. QED BY <3>1, <3>2
  <2>6. QED BY <2>3, <2>4, <2>5 DEF FInv
<1>3. ASSUME NEW c \in Coll, CommitSamples(c) PROVE FInv'
  <2>1. /\ UNCHANGED <<fetched, clock>>
        /\ sample' = [k \in Keys |-> IF k \in Range(batch[c]) THEN c ELSE sample[k]]
        /\ pc[c] = "samples" /\ pc' = [pc EXCEPT ![c] = "step"]
    BY <1>3 DEF CommitSamples
  <2>2. \A x \in Coll : pc'[x] = IF x = c THEN "step" ELSE pc[x]
    BY <2>1 DEF TypeOK
  <2>3. FetchesCounted'
    BY <2>1 DEF FInv, FetchesCounted
  <2>4. OnePod'
    BY <1>0, <2>1, <2>2 DEF FInv, OnePod, Working
  <2>5. NewestCommits'
    <3> SUFFICES ASSUME NEW e \in CronColl, pc'[e] \in {"workloads", "samples"},
                        NEW k \in Keys, sample'[k] \in CronColl
                 PROVE  fetched[sample'[k]] <= fetched[e]
      BY <2>1 DEF NewestCommits
    <3>1. e # c /\ pc[e] \in {"workloads", "samples"}
      BY <1>0, <2>2
    <3>2. c \notin CronColl
      BY <2>1, <3>1 DEF FInv, OnePod, Working
    <3>3. sample'[k] = sample[k]
      BY <2>1, <3>2
    <3>4. QED BY <3>1, <3>3 DEF FInv, NewestCommits
  <2>6. QED BY <2>3, <2>4, <2>5 DEF FInv
<1>4. ASSUME NEW c \in Coll, InteractionsStep(c) PROVE FInv'
  BY <1>4, <1>f, <1>o DEF InteractionsStep, AtStep, Working
<1>5. ASSUME NEW c \in Coll, FetchFails(c) PROVE FInv'
  BY <1>5, <1>f, <1>o DEF FetchFails, AtStep, Working
<1>6. ASSUME NEW c \in Coll, RollBack(c) PROVE FInv'
  BY <1>6, <1>f, <1>o DEF RollBack, Upserting, Working
<1>8. ASSUME NEW c \in Coll, CommitWorkloads(c) PROVE FInv'
  <2>1. Calm
    BY <1>8, <1>g DEF CommitWorkloads
  <2>2. QED BY <2>1, <1>o
<1>9. ASSUME NEW c \in Coll, UpsertRow(c) PROVE FInv'
  <2>1. Calm
    BY <1>9 DEF UpsertRow, db
  <2>2. QED BY <2>1, <1>o
<1>10. ASSUME NEW c \in Coll, StartFails(c) PROVE FInv'
  <2>1. Calm
    BY <1>10, <1>g DEF StartFails, db, Working
  <2>2. QED BY <2>1, <1>o
<1>11. ASSUME NEW c \in Coll, FinishRow(c) PROVE FInv'
  <2>1. Calm
    BY <1>11, <1>g DEF FinishRow, Working
  <2>2. QED BY <2>1, <1>o
<1>12. ASSUME NEW c \in Coll, FinishFails(c) PROVE FInv'
  <2>1. Calm
    BY <1>12, <1>g DEF FinishFails, db, Working
  <2>2. QED BY <2>1, <1>o
<1>13. ASSUME NEW c \in Coll, PodDies(c) PROVE FInv'
  <2>1. Calm
    BY <1>13, <1>g DEF PodDies, db, Working
  <2>2. QED BY <2>1, <1>o
<1>14. CASE ServiceStops
  <2>1. Calm
    BY <1>14 DEF ServiceStops, db, Working
  <2>2. QED BY <2>1, <1>o
<1>15. CASE ServiceRestarts \/ EngineLocks \/ EngineUnlocks \/ UNCHANGED vars
  <2>1. Calm
    BY <1>15 DEF ServiceRestarts, EngineLocks, EngineUnlocks, vars, db, local
  <2>2. QED BY <2>1, <1>o
<1>16. ASSUME NEW c \in Coll, Advance(c) \/ StatementFails(c) PROVE FInv'
  BY <1>16, <1>2, <1>3, <1>4, <1>5, <1>6, <1>8, <1>9, <1>11, <1>12
  DEF Advance, BusyTimeout, DeadlockAbort, StatementFails
<1>17. QED BY <1>1, <1>10, <1>13, <1>14, <1>15, <1>16 DEF Next

\* Only a fetch changes a fetch order, and it makes it the latest.
LEMMA FetchOrder ==
  ASSUME TypeOK, FInv, [Next]_vars, NEW d \in Coll PROVE fetched'[d] >= fetched[d]
<1>1. fetched[d] \in Nat /\ clock \in Nat /\ fetched[d] <= clock
  BY DEF TypeOK, FInv, FetchesCounted
<1>2. ASSUME NEW c \in Coll, FetchMetrics(c) PROVE fetched'[d] >= fetched[d]
  <2>1. fetched' = [fetched EXCEPT ![c] = clock + 1]
    BY <1>2 DEF FetchMetrics
  <2>2. fetched \in [Coll -> Nat]
    BY DEF TypeOK
  <2>3. fetched'[d] = fetched[d] \/ fetched'[d] = clock + 1
    BY <2>1, <2>2
  <2>4. QED BY <1>1, <2>3
<1>s. ASSUME UNCHANGED fetched PROVE fetched'[d] >= fetched[d]
  BY <1>1, <1>s
<1>3. ASSUME NEW c \in Coll, Start(c) \/ StartFails(c) PROVE fetched'[d] >= fetched[d]
  BY <1>3, <1>s DEF Start, StartFails
<1>4. ASSUME NEW c \in Coll, StepFailed(c) PROVE fetched'[d] >= fetched[d]
  BY <1>4, <1>s DEF StepFailed
<1>5. ASSUME NEW c \in Coll, CommitWorkloads(c) \/ UpsertRow(c) PROVE fetched'[d] >= fetched[d]
  BY <1>5, <1>s DEF CommitWorkloads, UpsertRow
<1>6. ASSUME NEW c \in Coll, CommitSamples(c) \/ PodDies(c) PROVE fetched'[d] >= fetched[d]
  BY <1>6, <1>s DEF CommitSamples, PodDies
<1>7. ASSUME NEW c \in Coll, FinishRow(c) \/ FinishFails(c) PROVE fetched'[d] >= fetched[d]
  BY <1>7, <1>s DEF FinishRow, FinishFails
<1>8. CASE ServiceStops \/ ServiceRestarts \/ EngineLocks \/ EngineUnlocks \/ UNCHANGED vars
  BY <1>8, <1>s DEF ServiceStops, ServiceRestarts, EngineLocks, EngineUnlocks, vars, local
<1>9. ASSUME NEW c \in Coll, Advance(c) \/ StatementFails(c) PROVE fetched'[d] >= fetched[d]
  <2>1. CASE InteractionsStep(c)
    BY <2>1, <1>4 DEF InteractionsStep
  <2>2. CASE FetchFails(c)
    BY <2>2, <1>4 DEF FetchFails
  <2>3. CASE BusyTimeout(c) \/ DeadlockAbort(c)
    BY <2>3, <1>4 DEF BusyTimeout, DeadlockAbort, RollBack
  <2>4. CASE StatementFails(c)
    BY <2>4, <1>4 DEF StatementFails, RollBack
  <2>5. QED BY <1>9, <2>1, <2>2, <2>3, <2>4, <1>2, <1>5, <1>6, <1>7 DEF Advance
<1>10. QED BY <1>3, <1>6, <1>8, <1>9 DEF Next

\* Only a commit changes the stored rows, and it makes them its own.
LEMMA RowsReplaced ==
  ASSUME TypeOK, [Next]_vars, ~UNCHANGED sample
  PROVE  \E c \in Coll : CommitSamples(c)
<1>1. ASSUME NEW c \in Coll, Start(c) \/ StartFails(c) \/ PodDies(c) PROVE UNCHANGED sample
  BY <1>1 DEF Start, StartFails, PodDies, db
<1>2. ASSUME NEW c \in Coll, StepFailed(c) PROVE UNCHANGED sample
  BY <1>2 DEF StepFailed, db
<1>3. ASSUME NEW c \in Coll, FetchMetrics(c) \/ CommitWorkloads(c) \/ UpsertRow(c)
      PROVE  UNCHANGED sample
  BY <1>3 DEF FetchMetrics, CommitWorkloads, UpsertRow, db
<1>4. ASSUME NEW c \in Coll, FinishRow(c) \/ FinishFails(c) PROVE UNCHANGED sample
  BY <1>4 DEF FinishRow, FinishFails, db
<1>5. CASE ServiceStops \/ ServiceRestarts \/ EngineLocks \/ EngineUnlocks \/ UNCHANGED vars
  BY <1>5 DEF ServiceStops, ServiceRestarts, EngineLocks, EngineUnlocks, vars, db
<1>6. ASSUME NEW c \in Coll, Advance(c) \/ StatementFails(c) PROVE CommitSamples(c) \/ UNCHANGED sample
  <2>1. CASE InteractionsStep(c)
    BY <2>1, <1>2 DEF InteractionsStep
  <2>2. CASE FetchFails(c)
    BY <2>2, <1>2 DEF FetchFails
  <2>3. CASE BusyTimeout(c) \/ DeadlockAbort(c)
    BY <2>3, <1>2 DEF BusyTimeout, DeadlockAbort, RollBack
  <2>4. CASE StatementFails(c)
    BY <2>4, <1>2 DEF StatementFails, RollBack
  <2>5. QED BY <1>6, <2>1, <2>2, <2>3, <2>4, <1>3, <1>4 DEF Advance
<1>7. QED BY <1>1, <1>5, <1>6 DEF Next

\* A CronJob's commit never replaces a sample of another CronJob that was fetched
\* later, so the data_as_of of its collections does not move backwards.
THEOREM Freshness == Spec => FreshnessKept
<1> USE CollAssumption
<1> DEFINE Kept == \A k \in Keys : sample[k] \in CronColl /\ sample'[k] \in CronColl =>
                     fetched'[sample'[k]] >= fetched[sample[k]]
<1>1. Init => FInv
  BY DEF Init, FInv, FetchesCounted, OnePod, NewestCommits, Working, Coll
<1>2. Spec => []FInv
  BY <1>1, OrderOfSteps, TypeCorrect, PTL DEF Spec
<1>3. TypeOK /\ FInv /\ [Next]_vars => Kept
  <2> SUFFICES ASSUME TypeOK, FInv, [Next]_vars, NEW k \in Keys,
                      sample[k] \in CronColl, sample'[k] \in CronColl
               PROVE  fetched'[sample'[k]] >= fetched[sample[k]]
    OBVIOUS
  <2>1. CronColl \subseteq Coll
    BY DEF Coll
  <2>2. CASE sample'[k] = sample[k]
    BY <2>1, <2>2, FetchOrder
  <2>3. CASE sample'[k] # sample[k]
    <3>1. PICK c \in Coll : CommitSamples(c)
      BY <2>3, RowsReplaced
    <3>2. sample'[k] = c /\ pc[c] = "samples" /\ UNCHANGED fetched
      BY <2>3, <3>1 DEF CommitSamples
    <3>3. fetched[sample[k]] <= fetched[c]
      BY <3>2 DEF FInv, NewestCommits
    <3>4. fetched[sample[k]] \in Nat /\ fetched[c] \in Nat
      BY <2>1 DEF TypeOK
    <3>5. QED BY <3>2, <3>3, <3>4
  <2>4. QED BY <2>2, <2>3
<1>4. TypeOK /\ FInv /\ [Next]_vars => [Kept]_vars
  BY <1>3
<1>5. QED BY <1>2, <1>4, TypeCorrect, PTL DEF Spec, FreshnessKept
=============================================================================
