-------------------------- MODULE AnalysisRun_proofs --------------------------
(***************************************************************************)
(* For any number of runs, workloads and peers, on SQLite and on Postgres, *)
(* with failures and crashes at any point and the cluster deleted and      *)
(* registered anew: what can be read of a completed run is all of it,      *)
(* partial cards belong to failed runs of SQLite, the cards of a run       *)
(* agree, and an answered run is found.                                    *)
(*                                                                         *)
(* The inductive invariant speaks of one run at a time: its row, its draft *)
(* and its cards as far as its own process has come.  A step changes these *)
(* for one run only, except for the deletion of the cluster and for        *)
(* writes, by id, to the row of a run that is not alone: Exclusive says    *)
(* that nobody else at work has the id of a run that is.                   *)
(***************************************************************************)
EXTENDS AnalysisRun, FiniteSetTheorems, TLAPS

Labels == {"idle", "waiting", "create", "list", "loop", "analyze",
           "parts", "except", "ended", "refused", "dead"}

Statuses == {"absent", "running", "completed", "failed", "deleted"}

\* r's own statements see the row it inserted.
Visible(r) == pending[r] \/ Stored(r)

\* The run's inputs are listed and its result is not refused yet.
Going(r) == pc[r] \in {"list", "loop", "analyze", "parts"} \/ row[r] = "completed"

\* Nothing was listed, and at most the row written.
Fresh(r) ==
  /\ pc[r] \in {"idle", "waiting", "create"} => id[r] = 0 /\ ~pending[r]
  /\ pc[r] = "list" => pending[r]
  /\ pc[r] \in {"idle", "waiting", "create", "list"} =>
       /\ row[r] = "absent" /\ ~answered[r]
       /\ listed[r] = {} /\ todo[r] = {} /\ cur[r] = {} /\ draft[r] = {}

\* The row from its insert to the cascade.
RowStage(r) ==
  /\ pending[r] => row[r] = "absent" /\ AtWork(r)
  /\ AtWork(r) => id[r] # 0 /\ (row[r] = "absent" => pending[r])
  /\ Stored(r) => id[r] # 0
  /\ row[r] \in {"absent", "deleted"} => cards[r] = {}
  /\ answered[r] => pc[r] = "ended"

\* What is known of a workload is what its first reading found.
Read(r, f) == signals[r][f.of] # Unread /\ f.own = signals[r][f.of]

\* Every figure of the card is the memo's.
FromMemo(r, c) ==
  /\ Read(r, c) /\ \A p \in c.peers : Read(r, p)
  /\ r \notin MaintRuns => c.own # NoSignal

\* The workload being analyzed and the card inserted for it.
DraftStage(r) ==
  /\ draft[r] # {} => pc[r] \in {"parts", "except"}
  /\ pc[r] = "parts" => \E c \in draft[r] : draft[r] = {c} /\ cur[r] = {c.of}
  /\ pc[r] = "except" /\ dialect = "postgres" /\ draft[r] # {} => aborted[r]
  /\ pc[r] = "analyze" => \E u \in Workloads : cur[r] = {u}
  /\ pc[r] = "loop" => cur[r] = {}
  /\ cur[r] \cap todo[r] = {}
  /\ cur[r] \cup todo[r] \subseteq listed[r]
  /\ \A s \in series[r] : signals[r][s.of] = Unread
  /\ \A c \in draft[r] : FromMemo(r, c)

\* The status is the run's own doing.
OwnStatus(r) ==
  /\ row[r] = "running" => pc[r] # "ended"
  /\ row[r] \in {"completed", "failed"} => pc[r] = "ended"
  /\ row[r] = "completed" => todo[r] = {} /\ cur[r] = {}
  /\ answered[r] => row[r] \in {"completed", "deleted"}

\* The cards are the run's own, as long as it knows what it read.
OwnCards(r) == (AtWork(r) \/ row[r] = "completed") => \A c \in cards[r] : FromMemo(r, c)

Agreed(r) == \A c, d \in cards[r] : \A p \in c.peers : p.of = d.of => p.own = d.own

\* The workloads done with.
Done(r) == listed[r] \ (todo[r] \cup cur[r])

\* While the run goes on: one card for each workload done with that has a signal.
Covered(r) ==
  Going(r) =>
    /\ \A w \in Done(r) : signals[r][w] # Unread
    /\ Visible(r) =>
         {c.of : c \in cards[r]} = {w \in Done(r) : r \in MaintRuns \/ signals[r][w] # NoSignal}
    /\ \A c, d \in cards[r] : c.of = d.of => c = d

Committed(r) == \A c \in cards[r] : c.missing > 0 => dialect = "sqlite" /\ row[r] = "failed"

Process(r) == Fresh(r) /\ RowStage(r) /\ DraftStage(r)

Own(r) == OwnStatus(r) /\ OwnCards(r) /\ Agreed(r) /\ Covered(r) /\ Committed(r)

RunInv(r) == Process(r) /\ (Alone(r) => Own(r))

\* Nobody else writes by the id of a run that is alone.
Exclusive ==
  \A r, o \in Runs : r # o /\ Alone(r) /\ Visible(r) /\ AtWork(o) => id[o] # id[r]

IInv == TypeOK /\ Exclusive /\ \A r \in Runs : RunInv(r)

-----------------------------------------------------------------------------
\* A card made from figures that were read is a card.
LEMMA CardIsTyped ==
  ASSUME NEW r \in Runs, NEW u \in Workloads, NEW P \in PeerSets(r, u), NEW adhoc \in BOOLEAN, TypeOK
  PROVE  CardFor(r, u, P, adhoc) \in Card
<1> USE RunAssumption
<1>1. P \subseteq Workloads
  BY DEF PeerSets
<1>2. IsFiniteSet(P)
  BY <1>1, FS_Subset
<1>3. Cardinality(P) \in Nat
  BY <1>2, FS_CardinalityType
<1>4. \A w \in Workloads : signals[r][w] \in SUBSET Int
  BY DEF TypeOK
<1>5. {[of |-> w, own |-> signals[r][w], knative |-> FALSE] : w \in P} \subseteq Figure
  <2> SUFFICES ASSUME NEW w \in P PROVE [of |-> w, own |-> signals[r][w], knative |-> FALSE] \in Figure
    OBVIOUS
  <2>1. w \in Workloads /\ signals[r][w] \in SUBSET Int
    BY <1>1, <1>4
  <2>2. QED BY <2>1 DEF Figure
<1>6. QED BY <1>3, <1>4, <1>5 DEF CardFor, Card

\* What is published is as typed as what was drafted.
LEMMA PublishIsTyped ==
  ASSUME NEW r \in Runs, NEW S, NEW s \in {"running", "completed", "failed"}, TypeOK, Publish(r, S, s)
  PROVE  /\ row' \in [Runs -> Statuses]
         /\ cards' \in [Runs -> SUBSET Card] /\ draft' \in [Runs -> SUBSET Card]
         /\ pending' \in [Runs -> BOOLEAN]
<1>1. cards' \in [Runs -> SUBSET Card]
  BY DEF TypeOK, Publish
<1>2. row' \in [Runs -> Statuses]
  BY DEF TypeOK, Publish, Statuses
<1>3. QED BY <1>1, <1>2 DEF TypeOK, Publish

\* What a run knew is gone.
LEMMA ForgetIsTyped ==
  ASSUME NEW r \in Runs, TypeOK, Forget(r)
  PROVE  /\ listed' \in [Runs -> SUBSET Workloads] /\ todo' \in [Runs -> SUBSET Workloads]
         /\ cur' \in [Runs -> SUBSET Workloads]
         /\ series' \in [Runs -> SUBSET [of : Workloads, points : SUBSET Nat]]
         /\ signals' \in [Runs -> [Workloads -> SUBSET Int]]
<1>1. signals' \in [Runs -> [Workloads -> SUBSET Int]]
  BY DEF TypeOK, Forget, Unread
<1>2. QED BY <1>1 DEF TypeOK, Forget

\* A statement finds samples of collections that committed.
LEMMA PointsAreTyped ==
  ASSUME NEW r \in Runs, NEW w \in Workloads, TypeOK PROVE Points(r, w) \in SUBSET Nat
BY DEF TypeOK, Points

\* The rows, cards, drafts and memos of all runs keep their types.
LEMMA TypeStep == TypeOK /\ [Next]_vars => TypeOK'
<1> SUFFICES ASSUME TypeOK, [Next]_vars PROVE TypeOK'
  OBVIOUS
<1> USE RunAssumption
<1>1. CASE UNCHANGED vars
  BY <1>1 DEF TypeOK, vars, db, inputs, tx, given
<1>2. ASSUME NEW r \in Runs, Address(r) \/ Ensure(r) \/ Refuse(r) \/ CollectionEnds(r), UNCHANGED dialect
      PROVE  TypeOK'
  <2>1. cluster' \in Nat /\ registered' \in Nat
    BY <1>2 DEF TypeOK, Address, Ensure, Refuse, CollectionEnds, db
  <2>2. home' \in [Runs -> Nat]
    <3>1. CASE Address(r)
      <4>1. PICK c \in 1 .. registered :
              home' = [home EXCEPT ![r] = IF dialect = "sqlite" THEN 1 ELSE c]
        BY <3>1 DEF Address
      <4>2. QED BY <4>1 DEF TypeOK
    <3>2. CASE Ensure(r)
      BY <2>1, <3>2 DEF TypeOK, Ensure
    <3>3. CASE Refuse(r) \/ CollectionEnds(r)
      BY <3>3 DEF TypeOK, Refuse, CollectionEnds, given
    <3>4. QED BY <1>2, <3>1, <3>2, <3>3
  <2>3. pc' \in [Runs -> Labels]
    <3>1. PICK l \in {"waiting", "create", "ended"} : Goto(r, l)
      BY <1>2 DEF Address, Ensure, Refuse, CollectionEnds, Proceed
    <3>2. QED BY <3>1 DEF TypeOK, Goto, Labels
  <2>4. UNCHANGED <<collected, clock, collectorTx, row, cards, inputs, tx, id, contended, answered>>
    BY <1>2 DEF Address, Ensure, Refuse, CollectionEnds, db, given
  <2>5. QED BY <1>2, <2>1, <2>2, <2>3, <2>4 DEF TypeOK, inputs, tx, Labels
<1>3. ASSUME NEW r \in Runs, Create(r), UNCHANGED dialect PROVE TypeOK'
  <2>1. PICK i \in 1 .. Cardinality(Runs) :
          /\ id' = [id EXCEPT ![r] = i]
          /\ contended' =
               IF \E o \in Runs \ {r} : AtWork(o) /\ id[o] = i THEN contended \cup {r} ELSE contended
    BY <1>3 DEF Create
  <2>2. id' \in [Runs -> Nat] /\ contended' \subseteq Runs
    BY <2>1 DEF TypeOK
  <2>3. QED BY <1>3, <2>2 DEF TypeOK, Create, Goto, db, inputs
<1>4. ASSUME NEW r \in Runs, CreateFails(r) \/ FinishFailedFails(r) \/ Crash(r), UNCHANGED dialect
      PROVE  TypeOK'
  <2>1. PICK l \in {"ended", "refused", "dead"} : Close(r, l)
    BY <1>4 DEF CreateFails, FinishFailedFails, Crash
  <2>2. Forget(r)
    BY <2>1 DEF Close
  <2>3. QED BY <1>4, <2>1, <2>2, ForgetIsTyped DEF TypeOK, Close, Goto, db, given
<1>5. ASSUME NEW r \in Runs, List(r), UNCHANGED dialect PROVE TypeOK'
  <2>1. listed' \in [Runs -> SUBSET Workloads] /\ todo' \in [Runs -> SUBSET Workloads]
    BY <1>5 DEF TypeOK, List
  <2>2. QED BY <1>5, <2>1 DEF TypeOK, List, Goto, db, tx, given
<1>6. ASSUME NEW r \in Runs, NEW u \in Workloads, Pick(r, u), UNCHANGED dialect PROVE TypeOK'
  BY <1>6 DEF TypeOK, Pick, Goto, db, tx, given
<1>6a. ASSUME NEW r \in Runs, NEW u \in Workloads, Skip(r, u), UNCHANGED dialect PROVE TypeOK'
  BY <1>6a DEF TypeOK, Skip, Goto, db, tx, given
<1>7. ASSUME NEW r \in Runs, NEW u \in Workloads, NEW w \in Workloads, LoadSeries(r, u, w),
             UNCHANGED dialect
      PROVE  TypeOK'
  <2>1. [of |-> w, points |-> Points(r, w)] \in [of : Workloads, points : SUBSET Nat]
    BY PointsAreTyped
  <2>2. series' \in [Runs -> SUBSET [of : Workloads, points : SUBSET Nat]]
    BY <1>7, <2>1 DEF TypeOK, LoadSeries
  <2>3. QED BY <1>7, <2>2 DEF TypeOK, LoadSeries, db, tx, given
<1>7a. ASSUME NEW r \in Runs, SignalFor(r), UNCHANGED dialect PROVE TypeOK'
  <2>1. PICK s \in series[r] : \E found \in {s.points \cup Points(r, s.of), NoSignal} :
          signals' = [signals EXCEPT ![r][s.of] = found]
    BY <1>7a DEF SignalFor
  <2>2. PICK found \in {s.points \cup Points(r, s.of), NoSignal} :
          signals' = [signals EXCEPT ![r][s.of] = found]
    BY <2>1
  <2>3. s \in [of : Workloads, points : SUBSET Nat]
    BY DEF TypeOK
  <2>4. found \in SUBSET Nat
    BY <2>3, PointsAreTyped DEF NoSignal
  <2>5. found \in SUBSET Int
    BY <2>4
  <2>6. signals' \in [Runs -> [Workloads -> SUBSET Int]]
    BY <2>2, <2>5 DEF TypeOK
  <2>7. series' \in [Runs -> SUBSET [of : Workloads, points : SUBSET Nat]]
    BY <1>7a DEF TypeOK, SignalFor
  <2>8. QED BY <1>7a, <2>6, <2>7 DEF TypeOK, SignalFor, db, tx, given
<1>8. ASSUME NEW r \in Runs, NEW u \in Workloads, InsertCard(r, u), UNCHANGED dialect
      PROVE  TypeOK'
  <2>1. PICK P \in PeerSets(r, u), adhoc \in BOOLEAN :
          draft' = [draft EXCEPT ![r] = {CardFor(r, u, P, adhoc)}]
    BY <1>8 DEF InsertCard
  <2>2. CardFor(r, u, P, adhoc) \in Card
    BY CardIsTyped
  <2>3. draft' \in [Runs -> SUBSET Card]
    BY <2>1, <2>2 DEF TypeOK
  <2>4. QED BY <1>8, <2>3 DEF TypeOK, InsertCard, Goto, db, inputs, given
<1>9. ASSUME NEW r \in Runs, InsertPart(r), UNCHANGED dialect PROVE TypeOK'
  <2>1. PICK c \in draft[r] : c.missing > 0 /\ draft' = [draft EXCEPT ![r] = {[c EXCEPT !.missing = @ - 1]}]
    BY <1>9 DEF InsertPart
  <2>2. c \in Card
    BY DEF TypeOK
  <2>3. [c EXCEPT !.missing = @ - 1] \in Card
    BY <2>1, <2>2 DEF Card
  <2>4. draft' \in [Runs -> SUBSET Card]
    BY <2>1, <2>3 DEF TypeOK
  <2>5. QED BY <1>9, <2>4 DEF TypeOK, InsertPart, db, inputs, given
<1>10. ASSUME NEW r \in Runs, CommitCard(r) \/ Finish(r) \/ FinishFailed(r), UNCHANGED dialect
       PROVE  TypeOK'
  <2>1. PICK s \in {"running", "completed", "failed"} : \E S : Publish(r, S, s)
    BY <1>10 DEF CommitCard, Finish, FinishFailed
  <2>1a. /\ row' \in [Runs -> Statuses]
         /\ cards' \in [Runs -> SUBSET Card] /\ draft' \in [Runs -> SUBSET Card]
         /\ pending' \in [Runs -> BOOLEAN]
    BY <2>1, PublishIsTyped
  <2>2. UNCHANGED <<cluster, registered, collected, clock, collectorTx, aborted, given>>
    BY <2>1 DEF Publish
  <2>3. pc' \in [Runs -> Labels] /\ answered' \in [Runs -> BOOLEAN]
    BY <1>10 DEF TypeOK, CommitCard, Finish, FinishFailed, Goto, Labels
  <2>4. /\ listed' \in [Runs -> SUBSET Workloads] /\ todo' \in [Runs -> SUBSET Workloads]
        /\ cur' \in [Runs -> SUBSET Workloads]
        /\ series' \in [Runs -> SUBSET [of : Workloads, points : SUBSET Nat]]
        /\ signals' \in [Runs -> [Workloads -> SUBSET Int]]
    <3>1. CASE CommitCard(r)
      BY <3>1 DEF TypeOK, CommitCard
    <3>2. CASE Finish(r)
      BY <3>2 DEF TypeOK, Finish, inputs
    <3>3. CASE FinishFailed(r)
      BY <3>3, ForgetIsTyped DEF FinishFailed
    <3>4. QED BY <1>10, <3>1, <3>2, <3>3
  <2>5. QED BY <1>10, <2>1a, <2>2, <2>3, <2>4 DEF TypeOK, Labels, Statuses, given
<1>11. ASSUME NEW r \in Runs, NEW s \in BOOLEAN, Raise(r, s), UNCHANGED dialect PROVE TypeOK'
  BY <1>11 DEF TypeOK, Raise, Goto, db, inputs, given
<1>12. ASSUME CollectorBegins, UNCHANGED dialect PROVE TypeOK'
  BY <1>12 DEF TypeOK, CollectorBegins, inputs, tx, given
<1>13. ASSUME CollectorEnds, UNCHANGED dialect PROVE TypeOK'
  <2>1. clock' \in Nat /\ collected' \in [Workloads -> 0 .. clock']
    <3>1. CASE UNCHANGED <<collected, clock>>
      BY <3>1 DEF TypeOK
    <3>2. CASE ~UNCHANGED <<collected, clock>>
      <4>1. clock' = clock + 1
        BY <1>13, <3>2 DEF CollectorEnds
      <4>2. PICK S \in (SUBSET Workloads) \ {{}} :
              collected' = [w \in Workloads |-> IF w \in S THEN clock + 1 ELSE collected[w]]
        BY <1>13, <3>2 DEF CollectorEnds
      <4>3. QED BY <4>1, <4>2 DEF TypeOK
    <3>3. QED BY <3>1, <3>2
  <2>2. QED BY <1>13, <2>1 DEF TypeOK, CollectorEnds, inputs, tx, given
<1>14. ASSUME DeleteCluster, UNCHANGED dialect PROVE TypeOK'
  <2>1. cards' \in [Runs -> SUBSET Card] /\ collected' \in [Workloads -> 0 .. clock]
    BY <1>14 DEF TypeOK, DeleteCluster
  <2>2. row' \in [Runs -> Statuses]
    BY <1>14 DEF TypeOK, DeleteCluster, Statuses
  <2>3. QED BY <1>14, <2>1, <2>2 DEF TypeOK, DeleteCluster, inputs, tx, given, Statuses
<1>15. ASSUME NEW r \in Runs, Advance(r), UNCHANGED dialect PROVE TypeOK'
  BY <1>15, <1>2, <1>3, <1>4, <1>5, <1>6, <1>6a, <1>7, <1>7a, <1>8, <1>9, <1>10, <1>11
  DEF Advance, AnalysisFails, InsertCardFails, InsertPartFails, FinishTimesOut
<1>16. QED BY <1>1, <1>2, <1>4, <1>12, <1>13, <1>14, <1>15 DEF Next, Request

-----------------------------------------------------------------------------
(* One run's step.                                                         *)

\* Nothing of r's process changes.
SameProcess(r) ==
  /\ pending'[r] = pending[r] /\ draft'[r] = draft[r] /\ aborted'[r] = aborted[r]
  /\ listed'[r] = listed[r] /\ todo'[r] = todo[r] /\ cur'[r] = cur[r]
  /\ series'[r] = series[r] /\ signals'[r] = signals[r]
  /\ pc'[r] = pc[r] /\ answered'[r] = answered[r] /\ id'[r] = id[r]

\* Nor its row and cards.
Same(r) == SameProcess(r) /\ row'[r] = row[r] /\ cards'[r] = cards[r]

\* Or somebody else writes to its row, which is no longer its own.
Shared(r) == SameProcess(r) /\ ~Alone(r) /\ Stored(r) /\ Stored(r)'

\* What is not touched keeps its invariant.
LEMMA SameRun ==
  ASSUME NEW r \in Runs, Same(r), UNCHANGED dialect, Alone(r)' => Alone(r), RunInv(r)
  PROVE  RunInv(r)'
<1> USE DEF Same, SameProcess
<1>1. Stored(r)' = Stored(r) /\ AtWork(r)' = AtWork(r)
  BY DEF Stored, AtWork
<1>2. Process(r)'
  BY <1>1 DEF RunInv, Process, Fresh, RowStage, DraftStage, FromMemo, Read
<1>3. ASSUME Own(r) PROVE Own(r)'
  <2>1. OwnStatus(r)' /\ OwnCards(r)' /\ Agreed(r)' /\ Committed(r)'
    BY <1>1, <1>3 DEF Own, OwnStatus, OwnCards, Agreed, Committed, FromMemo, Read
  <2>2. Done(r)' = Done(r) /\ Going(r)' = Going(r) /\ Visible(r)' = Visible(r)
    BY <1>1 DEF Done, Going, Visible
  <2>3. Covered(r)'
    BY <1>3, <2>2 DEF Own, Covered
  <2>4. QED BY <2>1, <2>3 DEF Own
<1>4. QED BY <1>2, <1>3 DEF RunInv

\* Of a row that two runs write to nothing is claimed but that it is stored.
LEMMA SharedRun ==
  ASSUME NEW r \in Runs, Shared(r), UNCHANGED <<dialect, contended>>, RunInv(r)
  PROVE  RunInv(r)'
<1> USE DEF Shared, SameProcess
<1>1. ~Alone(r)' /\ AtWork(r)' = AtWork(r)
  BY DEF Alone, AtWork
<1>2. row[r] \notin {"absent", "deleted"} /\ row'[r] \notin {"absent", "deleted"}
  BY DEF Stored
<1>3. Fresh(r)' /\ RowStage(r)'
  BY <1>1, <1>2 DEF RunInv, Process, Fresh, RowStage
<1>4. DraftStage(r)'
  BY DEF RunInv, Process, DraftStage, FromMemo, Read
<1>5. QED BY <1>1, <1>3, <1>4 DEF RunInv, Process

\* A step of one run that is given no id leaves every other run's invariant alone.
LEMMA OneRun ==
  ASSUME NEW r \in Runs, IInv, TypeOK', RunInv(r)', UNCHANGED <<dialect, id, contended>>,
         Visible(r)' => Visible(r), AtWork(r)' => AtWork(r),
         \A o \in Runs \ {r} : Same(o) \/ Shared(o)
  PROVE  IInv'
<1>1. ASSUME NEW o \in Runs PROVE RunInv(o)'
  <2>1. CASE o = r
    BY <2>1
  <2>2. CASE o # r /\ Same(o)
    BY <2>2, SameRun DEF IInv, Alone
  <2>3. CASE o # r /\ Shared(o)
    BY <2>3, SharedRun DEF IInv
  <2>4. QED BY <2>1, <2>2, <2>3
<1>2. \A o \in Runs : (Visible(o)' => Visible(o)) /\ (AtWork(o)' => AtWork(o)) /\ (Alone(o)' => Alone(o))
  BY DEF Same, Shared, SameProcess, Visible, Stored, AtWork, Alone
<1>3. Exclusive'
  <2> SUFFICES ASSUME NEW o \in Runs, NEW p \in Runs, o # p, Alone(o)', Visible(o)', AtWork(p)'
               PROVE  id'[p] # id'[o]
    BY DEF Exclusive
  <2>1. Alone(o) /\ Visible(o) /\ AtWork(p)
    BY <1>2
  <2>2. QED BY <2>1 DEF IInv, Exclusive
<1>4. QED BY <1>1, <1>3 DEF IInv

\* Before the row: only the place in the program changes, from "idle" or "waiting".
LEMMA Prelude ==
  ASSUME NEW r \in Runs, NEW l \in {"waiting", "create", "ended"}, IInv, TypeOK',
         pc[r] \in {"idle", "waiting"}, Goto(r, l),
         UNCHANGED <<dialect, row, cards, inputs, tx, id, contended, answered>>
  PROVE  IInv'
<1>1. \A o \in Runs \ {r} : Same(o)
  BY DEF IInv, TypeOK, Goto, Same, SameProcess, inputs, tx
<1>2. /\ pc'[r] = l
      /\ UNCHANGED <<row, cards, pending, draft, aborted, listed, todo, cur, series, signals, answered, id>>
  BY DEF IInv, TypeOK, Goto, inputs, tx
<1>3. Process(r) /\ row[r] = "absent" /\ cards[r] = {} /\ draft[r] = {} /\ ~answered[r] /\ ~pending[r]
  BY DEF IInv, RunInv, Process, Fresh, RowStage
<1>4. listed[r] = {} /\ todo[r] = {} /\ cur[r] = {} /\ id[r] = 0
  BY DEF IInv, RunInv, Process, Fresh
<1>5. Process(r)'
  BY <1>2, <1>3, <1>4 DEF Process, Fresh, RowStage, DraftStage, AtWork, Stored, FromMemo, Read
<1>6. Own(r)'
  BY <1>2, <1>3, <1>4 DEF Own, OwnStatus, OwnCards, Agreed, Covered, Committed, Going, AtWork
<1>7. ~Visible(r)' /\ ~AtWork(r)'
  BY <1>2, <1>3 DEF Visible, Stored, AtWork
<1>8. QED BY <1>1, <1>2, <1>5, <1>6, <1>7, OneRun DEF RunInv

\* A transaction given up, or a process gone: the row stays as committed.
LEMMA Closes ==
  ASSUME NEW r \in Runs, NEW l \in {"ended", "refused", "dead"}, IInv, TypeOK', Close(r, l),
         UNCHANGED dialect, pc[r] \in {"waiting", "create"} \/ AtWork(r),
         l = "ended" => pc[r] = "create"
  PROVE  IInv'
<1>1. \A o \in Runs \ {r} : Same(o)
  BY DEF IInv, TypeOK, Close, Forget, Goto, Same, SameProcess, db, given
<1>2. /\ pc'[r] = l /\ ~pending'[r] /\ draft'[r] = {} /\ listed'[r] = {} /\ todo'[r] = {}
      /\ cur'[r] = {} /\ series'[r] = {}
      /\ UNCHANGED <<row, cards, answered, id, contended>>
  BY DEF IInv, TypeOK, Close, Forget, Goto, db, given
<1>3. RunInv(r) /\ ~answered[r] /\ (l = "ended" => row[r] = "absent")
  BY DEF IInv, RunInv, Process, RowStage, Fresh, AtWork
<1>4. ~AtWork(r)' /\ Stored(r)' = Stored(r) /\ (Visible(r)' => Visible(r)) /\ Alone(r)' = Alone(r)
  BY <1>2 DEF AtWork, Stored, Visible, Alone
<1>5. Process(r)'
  BY <1>2, <1>3, <1>4 DEF RunInv, Process, Fresh, RowStage, DraftStage
<1>6. ASSUME Alone(r) PROVE Own(r)'
  <2>1. row[r] \in {"absent", "running", "deleted"}
    BY <1>3, <1>6 DEF IInv, TypeOK, RunInv, Own, OwnStatus, AtWork, Process, Fresh
  <2>2. OwnStatus(r)' /\ ~Going(r)'
    BY <1>2, <1>3, <2>1 DEF OwnStatus, Going
  <2>3. OwnCards(r)' /\ Agreed(r)' /\ Committed(r)' /\ Covered(r)'
    BY <1>2, <1>3, <1>4, <1>6, <2>1, <2>2 DEF RunInv, Own, OwnCards, Agreed, Committed, Covered
  <2>4. QED BY <2>2, <2>3 DEF Own
<1>7. QED BY <1>1, <1>2, <1>4, <1>5, <1>6, OneRun DEF RunInv

\* The id a new row is given is nobody's who is visible, and of those at work only of runs
\* whose row was deleted; then the new run is not alone.
LEMMA Creates ==
  ASSUME NEW r \in Runs, IInv, TypeOK', Create(r), UNCHANGED dialect
  PROVE  IInv'
<1>1. PICK i \in 1 .. Cardinality(Runs) :
        /\ IsNextId(i)
        /\ id' = [id EXCEPT ![r] = i]
        /\ contended' =
             IF \E o \in Runs \ {r} : AtWork(o) /\ id[o] = i THEN contended \cup {r} ELSE contended
  BY DEF Create
<1>2. \A o \in Runs \ {r} : Same(o)
  BY <1>1 DEF IInv, TypeOK, Create, Goto, Same, SameProcess, db, inputs
<1>3. /\ pc[r] = "create" /\ pc'[r] = "list" /\ pending'[r] = TRUE /\ id'[r] = i /\ CanWrite(r)
      /\ UNCHANGED <<row, cards, draft, aborted, listed, todo, cur, series, signals, answered, dialect>>
  BY <1>1 DEF IInv, TypeOK, Create, Goto, db, inputs
<1>4. row[r] = "absent" /\ cards[r] = {} /\ draft[r] = {} /\ ~answered[r] /\ series'[r] = series[r]
  BY <1>3 DEF IInv, RunInv, Process, Fresh, RowStage
<1>5. listed[r] = {} /\ todo[r] = {} /\ cur[r] = {} /\ i # 0
  BY <1>3, RunAssumption, FS_CardinalityType DEF IInv, RunInv, Process, Fresh
<1>6. Process(r)'
  BY <1>3, <1>4, <1>5 DEF IInv, RunInv, Process, Fresh, RowStage, DraftStage, AtWork, Stored
<1>7. Own(r)'
  BY <1>3, <1>4, <1>5 DEF Own, OwnStatus, OwnCards, Agreed, Covered, Committed, Done
<1>8. \A o \in Runs \ {r} : Alone(o)' => Alone(o)
  BY <1>1 DEF Alone
<1>9. \A o \in Runs : RunInv(o)'
  BY <1>2, <1>3, <1>6, <1>7, <1>8, SameRun DEF IInv, RunInv
<1>10. \A o \in Runs : Stored(o) => id[o] < i
  BY <1>1 DEF IsNextId, IInv, RunInv, Process, RowStage
<1>11. \A o \in Runs \ {r} : pending[o] => dialect # "sqlite"
  BY <1>3 DEF CanWrite, OthersWriting, Writing
<1>12. dialect # "sqlite" => \A o \in Runs : id[o] # 0 => id[o] < i
  BY <1>1 DEF IsNextId
<1>13. \A o \in Runs \ {r} : Visible(o) => id[o] < i
  BY <1>10, <1>11, <1>12 DEF Visible, IInv, RunInv, Process, RowStage
<1>14. \A o \in Runs \ {r} : Visible(o)' = Visible(o) /\ AtWork(o)' = AtWork(o) /\ id'[o] = id[o]
  BY <1>2 DEF Same, SameProcess, Visible, Stored, AtWork
<1>15. \A o \in Runs : id[o] \in Nat
  BY DEF IInv, TypeOK
<1>16. Exclusive'
  <2> SUFFICES ASSUME NEW o \in Runs, NEW p \in Runs, o # p, Alone(o)', Visible(o)', AtWork(p)'
               PROVE  id'[p] # id'[o]
    BY DEF Exclusive
  <2>1. CASE o = r
    <3>1. CASE dialect = "sqlite"
      <4>1. r \notin contended'
        BY <2>1, <3>1, <1>3 DEF Alone
      <4>2. QED BY <4>1, <1>1, <1>3, <1>14, <2>1
    <3>2. CASE dialect # "sqlite"
      <4>1. id[p] # 0
        BY <1>14, <2>1 DEF IInv, RunInv, Process, RowStage
      <4>2. id[p] < i
        BY <4>1, <3>2, <1>12
      <4>3. QED BY <4>2, <1>3, <1>14, <1>15, <2>1
    <3>3. QED BY <3>1, <3>2
  <2>2. CASE p = r
    <3>1. id[o] < i
      BY <1>13, <1>14, <2>2
    <3>2. QED BY <3>1, <1>3, <1>14, <1>15, <2>2
  <2>3. CASE o # r /\ p # r
    BY <2>3, <1>8, <1>14 DEF IInv, Exclusive
  <2>4. QED BY <2>1, <2>2, <2>3
<1>17. QED BY <1>9, <1>16 DEF IInv

\* A step of a run's process that writes nothing to the database.
LEMMA QuietStep ==
  ASSUME NEW r \in Runs, IInv, TypeOK', Process(r)', Alone(r) => Own(r)',
         UNCHANGED <<dialect, db, pending, given>>, AtWork(r)' => AtWork(r),
         \A o \in Runs \ {r} : SameProcess(o)
  PROVE  IInv'
<1>1. \A o \in Runs \ {r} : Same(o)
  BY DEF Same, db
<1>2. Visible(r)' = Visible(r) /\ (Alone(r)' => Alone(r)) /\ UNCHANGED <<id, contended>>
  BY DEF Visible, Stored, Alone, db, given
<1>3. QED BY <1>1, <1>2, OneRun DEF RunInv

\* Nothing of what was listed is done with yet.
LEMMA Lists ==
  ASSUME NEW r \in Runs, IInv, TypeOK', List(r), UNCHANGED dialect
  PROVE  IInv'
<1>1. \A o \in Runs \ {r} : SameProcess(o)
  BY DEF IInv, TypeOK, List, Goto, SameProcess, db, tx, given
<1>2. /\ pc[r] = "list" /\ pc'[r] = "loop" /\ listed'[r] = todo'[r]
      /\ UNCHANGED <<row, cards, draft, aborted, pending, cur, series, signals, answered, id>>
  BY DEF IInv, TypeOK, List, Goto, db, tx, given
<1>3. row[r] = "absent" /\ cards[r] = {} /\ draft[r] = {} /\ cur[r] = {} /\ ~answered[r] /\ Process(r)
  BY <1>2 DEF IInv, RunInv, Process, Fresh, RowStage
<1>4. AtWork(r)' /\ AtWork(r) /\ Stored(r)' = Stored(r)
  BY <1>2 DEF AtWork, Stored
<1>5. Process(r)'
  BY <1>2, <1>3, <1>4 DEF Process, Fresh, RowStage, DraftStage
<1>6. Done(r)' = {}
  BY <1>2 DEF Done
<1>7. Own(r)'
  BY <1>2, <1>3, <1>6 DEF Own, OwnStatus, OwnCards, Agreed, Covered, Committed
<1>8. QED BY <1>1, <1>4, <1>5, <1>7, QuietStep DEF List, tx

\* The picked workload moves from todo to cur; what is done with stays the same.
LEMMA Picks ==
  ASSUME NEW r \in Runs, NEW u \in Workloads, IInv, TypeOK', Pick(r, u), UNCHANGED dialect
  PROVE  IInv'
<1>1. \A o \in Runs \ {r} : SameProcess(o)
  BY DEF IInv, TypeOK, Pick, Goto, SameProcess, db, tx, given
<1>2. /\ pc[r] = "loop" /\ pc'[r] = "analyze" /\ cur'[r] = {u} /\ todo'[r] = todo[r] \ {u}
      /\ u \in todo[r]
      /\ UNCHANGED <<row, cards, draft, aborted, pending, listed, series, signals, answered, id>>
  BY DEF IInv, TypeOK, Pick, Goto, db, tx, given
<1>3. draft[r] = {} /\ cur[r] = {} /\ ~answered[r] /\ Process(r)
  BY <1>2 DEF IInv, RunInv, Process, DraftStage, RowStage
<1>4. AtWork(r)' /\ AtWork(r) /\ Stored(r)' = Stored(r)
  BY <1>2 DEF AtWork, Stored
<1>5. Process(r)'
  BY <1>2, <1>3, <1>4 DEF Process, Fresh, RowStage, DraftStage
<1>6. ASSUME Alone(r) PROVE Own(r)'
  <2>1. Own(r) /\ row[r] \notin {"completed", "failed"}
    BY <1>2, <1>6 DEF IInv, RunInv, Own, OwnStatus
  <2>2. OwnStatus(r)' /\ OwnCards(r)' /\ Agreed(r)' /\ Committed(r)'
    BY <1>2, <1>3, <1>4, <2>1 DEF Own, OwnStatus, OwnCards, Agreed, Committed, FromMemo, Read
  <2>3. Done(r)' = Done(r) /\ Going(r) /\ Visible(r)' = Visible(r)
    BY <1>2, <1>3, <1>4 DEF Done, Going, Visible
  <2>4. Covered(r)'
    BY <1>2, <2>1, <2>3 DEF Own, Covered
  <2>5. QED BY <2>2, <2>4 DEF Own
<1>7. QED BY <1>1, <1>4, <1>5, <1>6, QuietStep DEF Pick, tx

\* The series of one workload at a time, of which the memo has nothing yet.
LEMMA Loads ==
  ASSUME NEW r \in Runs, NEW u \in Workloads, NEW w \in Workloads, IInv, TypeOK',
         LoadSeries(r, u, w), UNCHANGED dialect
  PROVE  IInv'
<1>1. \A o \in Runs \ {r} : SameProcess(o)
  BY DEF IInv, TypeOK, LoadSeries, SameProcess, db, tx, given
<1>2. /\ pc[r] = "analyze" /\ signals[r][w] = Unread
      /\ series'[r] = {[of |-> w, points |-> Points(r, w)]}
      /\ UNCHANGED <<row, cards, draft, aborted, pending, listed, todo, cur, signals, pc, answered, id>>
  BY DEF IInv, TypeOK, LoadSeries, db, tx, given
<1>3. AtWork(r)' = AtWork(r) /\ Stored(r)' = Stored(r) /\ Process(r)
  BY <1>2 DEF AtWork, Stored, IInv, RunInv
<1>4. Fresh(r)' /\ RowStage(r)'
  BY <1>2, <1>3 DEF Process, Fresh, RowStage
<1>5. DraftStage(r)'
  BY <1>2, <1>3 DEF Process, DraftStage, FromMemo, Read
<1>6. ASSUME Alone(r) PROVE Own(r)'
  <2>1. Own(r)
    BY <1>6 DEF IInv, RunInv
  <2>2. OwnStatus(r)' /\ OwnCards(r)' /\ Agreed(r)' /\ Committed(r)'
    BY <1>2, <1>3, <2>1 DEF Own, OwnStatus, OwnCards, Agreed, Committed, FromMemo, Read
  <2>3. Done(r)' = Done(r) /\ Going(r)' = Going(r) /\ Visible(r)' = Visible(r)
    BY <1>2, <1>3 DEF Done, Going, Visible
  <2>4. Covered(r)'
    BY <1>2, <2>1, <2>3 DEF Own, Covered
  <2>5. QED BY <2>2, <2>4 DEF Own
<1>7. QED BY <1>1, <1>3, <1>4, <1>5, <1>6, QuietStep DEF LoadSeries, tx, Process

\* The memo is written where it was not read yet.
LEMMA Signals ==
  ASSUME NEW r \in Runs, IInv, TypeOK', SignalFor(r), UNCHANGED dialect
  PROVE  IInv'
<1>1. PICK s \in series[r] : \E found \in {s.points \cup Points(r, s.of), NoSignal} :
        signals' = [signals EXCEPT ![r][s.of] = found]
  BY DEF SignalFor
<1>2. PICK found : signals' = [signals EXCEPT ![r][s.of] = found]
  BY <1>1
<1>3. \A o \in Runs \ {r} : SameProcess(o)
  BY <1>2 DEF IInv, TypeOK, SignalFor, SameProcess, db, tx, given
<1>4. /\ pc[r] = "analyze" /\ series'[r] = {}
      /\ UNCHANGED <<row, cards, draft, aborted, pending, listed, todo, cur, pc, answered, id>>
  BY DEF IInv, TypeOK, SignalFor, db, tx, given
<1>5. AtWork(r)' = AtWork(r) /\ Stored(r)' = Stored(r) /\ Process(r)
  BY <1>4 DEF AtWork, Stored, IInv, RunInv
<1>6. signals[r][s.of] = Unread
  BY <1>5 DEF Process, DraftStage
<1>7. \A v : signals[r][v] # Unread => signals'[r][v] = signals[r][v]
  BY <1>2, <1>6 DEF IInv, TypeOK
<1>8. \A c : FromMemo(r, c) => FromMemo(r, c)'
  BY <1>7 DEF FromMemo, Read
<1>9. Fresh(r)' /\ RowStage(r)'
  BY <1>4, <1>5 DEF Process, Fresh, RowStage
<1>10. DraftStage(r)'
  BY <1>4, <1>5, <1>8 DEF Process, DraftStage
<1>11. ASSUME Alone(r) PROVE Own(r)'
  <2>1. Own(r)
    BY <1>11 DEF IInv, RunInv
  <2>2. OwnStatus(r)' /\ Agreed(r)' /\ Committed(r)'
    BY <1>4, <2>1 DEF Own, OwnStatus, Agreed, Committed
  <2>3. OwnCards(r)'
    BY <1>4, <1>5, <1>8, <2>1 DEF Own, OwnCards
  <2>4. Done(r)' = Done(r) /\ Going(r) /\ Visible(r)' = Visible(r)
    BY <1>4, <1>5 DEF Done, Going, Visible
  <2>5. \A v \in Done(r) : signals[r][v] # Unread /\ signals'[r][v] = signals[r][v]
    BY <1>7, <2>1, <2>4 DEF Own, Covered
  <2>6. {v \in Done(r) : r \in MaintRuns \/ signals'[r][v] # NoSignal}
          = {v \in Done(r) : r \in MaintRuns \/ signals[r][v] # NoSignal}
    BY <2>5
  <2>7. Covered(r)'
    BY <1>4, <2>1, <2>4, <2>5, <2>6 DEF Own, Covered
  <2>8. QED BY <2>2, <2>3, <2>7 DEF Own
<1>12. QED BY <1>3, <1>5, <1>9, <1>10, <1>11, QuietStep DEF SignalFor, tx, Process

\* A skipped workload is done with and has no signal, hence needs no card.
LEMMA Skips ==
  ASSUME NEW r \in Runs, NEW u \in Workloads, IInv, TypeOK', Skip(r, u), UNCHANGED dialect
  PROVE  IInv'
<1>1. \A o \in Runs \ {r} : SameProcess(o)
  BY DEF IInv, TypeOK, Skip, Goto, SameProcess, db, tx, given
<1>2. /\ pc[r] = "analyze" /\ pc'[r] = "loop" /\ cur[r] = {u} /\ cur'[r] = {}
      /\ r \notin MaintRuns /\ signals[r][u] = NoSignal
      /\ UNCHANGED <<row, cards, draft, aborted, pending, listed, todo, series, signals, answered, id>>
  BY DEF IInv, TypeOK, Skip, Goto, db, tx, given
<1>3. draft[r] = {} /\ u \in listed[r] \ todo[r] /\ ~answered[r] /\ Process(r)
  BY <1>2 DEF IInv, RunInv, Process, DraftStage, RowStage
<1>4. AtWork(r)' /\ AtWork(r) /\ Stored(r)' = Stored(r)
  BY <1>2 DEF AtWork, Stored
<1>5. Process(r)'
  BY <1>2, <1>3, <1>4 DEF Process, Fresh, RowStage, DraftStage
<1>6. ASSUME Alone(r) PROVE Own(r)'
  <2>1. Own(r) /\ row[r] \notin {"completed", "failed"}
    BY <1>2, <1>6 DEF IInv, RunInv, Own, OwnStatus
  <2>2. OwnStatus(r)' /\ OwnCards(r)' /\ Agreed(r)' /\ Committed(r)'
    BY <1>2, <1>3, <1>4, <2>1 DEF Own, OwnStatus, OwnCards, Agreed, Committed, FromMemo, Read
  <2>3. Done(r)' = Done(r) \cup {u} /\ Going(r) /\ Visible(r)' = Visible(r)
    BY <1>2, <1>3, <1>4 DEF Done, Going, Visible
  <2>4. {w \in Done(r)' : r \in MaintRuns \/ signals[r][w] # NoSignal}
          = {w \in Done(r) : r \in MaintRuns \/ signals[r][w] # NoSignal}
    BY <1>2, <2>3
  <2>5. signals[r][u] # Unread
    BY <1>2 DEF NoSignal, Unread
  <2>6. Covered(r)'
    BY <1>2, <2>1, <2>3, <2>4, <2>5 DEF Own, Covered
  <2>7. QED BY <2>2, <2>6 DEF Own
<1>7. QED BY <1>1, <1>4, <1>5, <1>6, QuietStep DEF Skip, tx

\* As long as only the draft and the place in the program change, the row's cards stay
\* as they were found.
LEMMA OwnKept ==
  ASSUME NEW r \in Runs, Own(r), UNCHANGED <<dialect, row, cards, pending, listed, todo, cur, signals, answered>>,
         AtWork(r), row[r] \notin {"completed", "failed"}, ~answered[r],
         pc'[r] \in {"analyze", "parts", "except"}, Going(r) \/ ~Going(r)'
  PROVE  Own(r)'
<1>1. OwnStatus(r)' /\ OwnCards(r)' /\ Agreed(r)' /\ Committed(r)'
  BY DEF Own, OwnStatus, OwnCards, Agreed, Committed, FromMemo, Read
<1>2. Done(r)' = Done(r) /\ Visible(r)' = Visible(r)
  BY DEF Done, Visible, Stored
<1>3. Covered(r)'
  BY <1>2 DEF Own, Covered
<1>4. QED BY <1>1, <1>3 DEF Own

\* A new card tells what the memo tells.
LEMMA Inserts ==
  ASSUME NEW r \in Runs, NEW u \in Workloads, IInv, TypeOK', InsertCard(r, u), UNCHANGED dialect
  PROVE  IInv'
<1> USE RunAssumption
<1>1. PICK P \in PeerSets(r, u), adhoc \in BOOLEAN :
        draft' = [draft EXCEPT ![r] = {CardFor(r, u, P, adhoc)}]
  BY DEF InsertCard
<1>2. \A o \in Runs \ {r} : SameProcess(o)
  BY <1>1 DEF IInv, TypeOK, InsertCard, Goto, SameProcess, db, inputs, given
<1> DEFINE k == CardFor(r, u, P, adhoc)
<1>3. /\ pc[r] = "analyze" /\ pc'[r] = "parts" /\ cur[r] = {u} /\ draft'[r] = {k}
      /\ UNCHANGED <<row, cards, aborted, pending, listed, todo, cur, series, signals, answered, id>>
  BY <1>1 DEF IInv, TypeOK, InsertCard, ReadyFor, Goto, db, inputs, given
<1>4. /\ k.of = u /\ k.own = signals[r][u]
      /\ k.peers = {[of |-> w, own |-> signals[r][w], knative |-> FALSE] : w \in P}
  BY DEF CardFor
<1>5. signals[r][u] # Unread /\ (r \notin MaintRuns => signals[r][u] # NoSignal)
      /\ \A w \in P : signals[r][w] # Unread
  <2>1. P \subseteq Needed(r, u) /\ u \in Needed(r, u)
    BY DEF PeerSets, Needed
  <2>2. QED BY <2>1 DEF InsertCard, ReadyFor
<1> HIDE DEF k
<1>6. FromMemo(r, k)
  <2>1. \A p \in k.peers : Read(r, p)
    BY <1>4, <1>5 DEF Read
  <2>2. QED BY <1>4, <1>5, <2>1 DEF FromMemo, Read
<1>7. AtWork(r)' /\ AtWork(r) /\ Stored(r)' = Stored(r) /\ Process(r) /\ ~answered[r]
  BY <1>3 DEF AtWork, Stored, IInv, RunInv, Process, RowStage
<1>8. Fresh(r)' /\ RowStage(r)'
  BY <1>3, <1>7 DEF Process, Fresh, RowStage
<1>9. DraftStage(r)'
  BY <1>3, <1>4, <1>6, <1>7 DEF Process, DraftStage, FromMemo, Read
<1>10. ASSUME Alone(r) PROVE Own(r)'
  <2>1. Own(r) /\ row[r] \notin {"completed", "failed"} /\ Going(r)
    BY <1>3, <1>10 DEF IInv, RunInv, Own, OwnStatus, Going
  <2>2. QED BY <1>3, <1>7, <2>1, OwnKept
<1>11. QED BY <1>2, <1>7, <1>8, <1>9, <1>10, QuietStep DEF InsertCard, Process

\* The figures of the card stay; one part less is missing.
LEMMA InsertsPart ==
  ASSUME NEW r \in Runs, IInv, TypeOK', InsertPart(r), UNCHANGED dialect
  PROVE  IInv'
<1>1. PICK c \in draft[r] : c.missing > 0 /\ draft' = [draft EXCEPT ![r] = {[c EXCEPT !.missing = @ - 1]}]
  BY DEF InsertPart
<1>2. \A o \in Runs \ {r} : SameProcess(o)
  BY <1>1 DEF IInv, TypeOK, InsertPart, SameProcess, db, inputs, given
<1> DEFINE k == [c EXCEPT !.missing = @ - 1]
<1>3. c \in Card
  BY DEF IInv, TypeOK
<1>4. k.of = c.of /\ k.own = c.own /\ k.peers = c.peers
  BY <1>3 DEF Card
<1>5. /\ pc[r] = "parts" /\ pc'[r] = "parts" /\ draft'[r] = {k}
      /\ UNCHANGED <<row, cards, aborted, pending, listed, todo, cur, series, signals, answered, id>>
  BY <1>1 DEF IInv, TypeOK, InsertPart, db, inputs, given
<1> HIDE DEF k
<1>6. AtWork(r)' /\ AtWork(r) /\ Stored(r)' = Stored(r) /\ Process(r) /\ ~answered[r]
  BY <1>5 DEF AtWork, Stored, IInv, RunInv, Process, RowStage
<1>7. cur[r] = {c.of} /\ FromMemo(r, c)
  BY <1>5, <1>6 DEF Process, DraftStage
<1>8. FromMemo(r, k)
  BY <1>4, <1>7 DEF FromMemo, Read
<1>9. Fresh(r)' /\ RowStage(r)'
  BY <1>5, <1>6 DEF Process, Fresh, RowStage
<1>10. DraftStage(r)'
  BY <1>4, <1>5, <1>6, <1>7, <1>8 DEF Process, DraftStage, FromMemo, Read
<1>11. ASSUME Alone(r) PROVE Own(r)'
  <2>1. Own(r) /\ row[r] \notin {"completed", "failed"} /\ Going(r)
    BY <1>5, <1>11 DEF IInv, RunInv, Own, OwnStatus, Going
  <2>2. QED BY <1>5, <1>6, <2>1, OwnKept
<1>12. QED BY <1>2, <1>6, <1>9, <1>10, <1>11, QuietStep DEF InsertPart, Process

\* An error in the try block; in Postgres a failed statement aborts the transaction.
LEMMA Raises ==
  ASSUME NEW r \in Runs, NEW s \in BOOLEAN, IInv, TypeOK', Raise(r, s), UNCHANGED dialect,
         pc[r] \in {"list", "loop", "analyze"} \/ (pc[r] = "parts" /\ s)
  PROVE  IInv'
<1>1. \A o \in Runs \ {r} : SameProcess(o)
  BY DEF IInv, TypeOK, Raise, Goto, SameProcess, db, inputs, given
<1>2. /\ pc'[r] = "except" /\ aborted'[r] = (s /\ dialect = "postgres")
      /\ UNCHANGED <<row, cards, draft, pending, listed, todo, cur, series, signals, answered, id>>
  BY DEF IInv, TypeOK, Raise, Goto, db, inputs, given
<1>3. AtWork(r)' /\ AtWork(r) /\ Stored(r)' = Stored(r) /\ Process(r) /\ ~answered[r]
  BY <1>2 DEF AtWork, Stored, IInv, RunInv, Process, RowStage
<1>4. draft[r] # {} => s
  BY <1>3 DEF Process, DraftStage
<1>5. Fresh(r)' /\ RowStage(r)'
  BY <1>2, <1>3 DEF Process, Fresh, RowStage
<1>6. DraftStage(r)'
  BY <1>2, <1>3, <1>4 DEF Process, DraftStage, FromMemo, Read
<1>7. ASSUME Alone(r) PROVE Own(r)'
  <2>1. Own(r) /\ row[r] \notin {"completed", "failed"}
    BY <1>7 DEF IInv, RunInv, Own, OwnStatus
  <2>2. ~Going(r)'
    BY <1>2, <2>1 DEF Going
  <2>3. QED BY <1>2, <1>3, <2>1, <2>2, OwnKept
<1>8. QED BY <1>1, <1>3, <1>5, <1>6, <1>7, QuietStep DEF Raise, Process

-----------------------------------------------------------------------------
(* What is published.                                                      *)

\* A commit changes no row but the run's own and, if the run's row was deleted, one that
\* was given its id and is not alone.
LEMMA Publishes ==
  ASSUME NEW r \in Runs, NEW S \in SUBSET Hits(r), NEW s \in {"running", "completed", "failed"},
         IInv, Publish(r, S, s), AtWork(r), UNCHANGED dialect, \A o \in Runs \ {r} : SameProcess(o)
  PROVE  /\ \A o \in Runs \ {r} : Same(o) \/ Shared(o)
         /\ UNCHANGED <<id, contended>> /\ (Visible(r)' => Visible(r))
<1>1. \A o \in Runs : /\ row'[o] = IF o \in S THEN s ELSE row[o]
                      /\ cards'[o] = IF o \in Hits(r) THEN cards[o] \cup draft[r] ELSE cards[o]
  BY DEF Publish
<1>2. \A o \in Hits(r) : id[o] = id[r] /\ (Stored(o) \/ (o = r /\ pending[r]))
  BY DEF Hits
<1>3. ASSUME NEW o \in Runs \ {r}, o \in Hits(r) PROVE Shared(o)
  <2>1. id[o] = id[r] /\ Stored(o)
    BY <1>2, <1>3
  <2>2. ~Alone(o)
    BY <2>1 DEF IInv, Exclusive, Visible
  <2>3. Stored(o)'
    BY <1>1, <2>1 DEF Stored
  <2>4. QED BY <2>1, <2>2, <2>3 DEF Shared
<1>4. ASSUME NEW o \in Runs \ {r}, o \notin Hits(r) PROVE Same(o)
  BY <1>1, <1>4 DEF Same
<1>5. ~pending'[r]
  BY DEF Publish, IInv, TypeOK
<1>6. Stored(r)' => Visible(r)
  BY <1>1, <1>2 DEF Visible, Stored
<1>7. QED BY <1>3, <1>4, <1>5, <1>6 DEF Publish, given, Visible

\* What a commit does to the run's own row.
LEMMA PublishesOwn ==
  ASSUME NEW r \in Runs, NEW S, NEW s, IInv, Publish(r, S, s)
  PROVE  /\ row'[r] = IF r \in S THEN s ELSE row[r]
         /\ cards'[r] = IF Visible(r) THEN cards[r] \cup draft[r] ELSE cards[r]
         /\ r \in Hits(r) <=> Visible(r)
         /\ ~pending'[r] /\ draft'[r] = {} /\ aborted' = aborted /\ id' = id /\ contended' = contended
<1>1. r \in Hits(r) <=> Visible(r)
  BY DEF Hits, Visible
<1>2. QED BY <1>1 DEF Publish, given, IInv, TypeOK

\* A card is published whole, and it is the first of its workload.
LEMMA CommitsCard ==
  ASSUME NEW r \in Runs, IInv, TypeOK', CommitCard(r), UNCHANGED dialect
  PROVE  IInv'
<1>1. PICK c \in draft[r] : draft[r] = {c} /\ cur[r] = {c.of}
  BY DEF IInv, RunInv, Process, DraftStage, CommitCard
<1>2. \A o \in Runs \ {r} : SameProcess(o)
  BY DEF IInv, TypeOK, CommitCard, Publish, Goto, SameProcess, given
<1>3. /\ pc[r] = "parts" /\ pc'[r] = "loop" /\ cur'[r] = {} /\ c.missing = 0
      /\ UNCHANGED <<listed, todo, series, signals, answered>> /\ Publish(r, NewRow(r), "running")
  BY <1>1 DEF IInv, TypeOK, CommitCard, Goto
<1>4. AtWork(r) /\ AtWork(r)' /\ Process(r)
  BY <1>3 DEF AtWork, IInv, RunInv
<1>5. /\ row'[r] = IF pending[r] THEN "running" ELSE row[r]
      /\ cards'[r] = IF Visible(r) THEN cards[r] \cup {c} ELSE cards[r]
      /\ ~pending'[r] /\ draft'[r] = {} /\ aborted' = aborted /\ id' = id /\ contended' = contended
  <2>1. /\ row'[r] = IF r \in NewRow(r) THEN "running" ELSE row[r]
        /\ cards'[r] = IF Visible(r) THEN cards[r] \cup draft[r] ELSE cards[r]
        /\ ~pending'[r] /\ draft'[r] = {} /\ aborted' = aborted /\ id' = id /\ contended' = contended
    <3>1. \A S, s : Publish(r, S, s) =>
            /\ row'[r] = IF r \in S THEN s ELSE row[r]
            /\ cards'[r] = IF Visible(r) THEN cards[r] \cup draft[r] ELSE cards[r]
            /\ ~pending'[r] /\ draft'[r] = {} /\ aborted' = aborted /\ id' = id /\ contended' = contended
      BY PublishesOwn
    <3>2. QED BY <1>3, <3>1
  <2>2. r \in NewRow(r) <=> pending[r]
    BY DEF NewRow
  <2>3. QED BY <1>1, <2>1, <2>2
<1>6. NewRow(r) \subseteq Hits(r)
  BY DEF NewRow, Hits
<1>7. /\ \A o \in Runs \ {r} : Same(o) \/ Shared(o)
      /\ UNCHANGED <<id, contended>> /\ (Visible(r)' => Visible(r))
  BY <1>2, <1>3, <1>4, <1>6, Publishes
<1>8. FromMemo(r, c) /\ ~answered[r] /\ c.of \in listed[r] \ todo[r] /\ id[r] # 0
  BY <1>1, <1>3, <1>4 DEF Process, DraftStage, RowStage
<1>9. row'[r] # "absent" /\ (row'[r] = "deleted" => cards'[r] = {})
  BY <1>4, <1>5 DEF Process, RowStage, Visible, Stored
<1>10. Fresh(r)' /\ RowStage(r)'
  BY <1>3, <1>4, <1>5, <1>8, <1>9 DEF Fresh, RowStage
<1>11. DraftStage(r)'
  BY <1>3, <1>4, <1>5 DEF Process, DraftStage
<1>12. ASSUME Alone(r) PROVE Own(r)'
  <2>1. Own(r) /\ row[r] \notin {"completed", "failed"} /\ Going(r)
    BY <1>3, <1>12 DEF IInv, RunInv, Own, OwnStatus, Going
  <2>2. OwnStatus(r)'
    BY <1>3, <1>5, <1>8, <2>1 DEF OwnStatus
  <2>3. \A d \in cards'[r] : FromMemo(r, d)
    BY <1>4, <1>5, <1>8, <2>1 DEF Own, OwnCards
  <2>4. OwnCards(r)' /\ Agreed(r)'
    BY <1>3, <2>3 DEF OwnCards, Agreed, FromMemo, Read
  <2>5. Committed(r)'
    BY <1>3, <1>5, <2>1 DEF Own, Committed
  <2>6. Done(r)' = Done(r) \cup {c.of} /\ c.of \notin Done(r)
    BY <1>1, <1>3, <1>8 DEF Done
  <2>7. signals[r][c.of] # Unread /\ (r \in MaintRuns \/ signals[r][c.of] # NoSignal)
    BY <1>8 DEF FromMemo, Read
  <2>8. {w \in Done(r)' : r \in MaintRuns \/ signals[r]'[w] # NoSignal}
          = {w \in Done(r) : r \in MaintRuns \/ signals[r][w] # NoSignal} \cup {c.of}
    BY <1>3, <2>6, <2>7
  <2>9. \A w \in Done(r)' : signals[r]'[w] # Unread
    BY <1>3, <2>1, <2>6, <2>7 DEF Own, Covered
  <2>10. CASE Visible(r)
    <3>1. {d.of : d \in cards[r]'} = {d.of : d \in cards[r]} \cup {c.of}
      BY <1>5, <2>10
    <3>2. {d.of : d \in cards[r]'} = {w \in Done(r)' : r \in MaintRuns \/ signals[r]'[w] # NoSignal}
      BY <2>1, <2>8, <2>10, <3>1 DEF Own, Covered
    <3>3. \A d \in cards[r] : d.of \in Done(r)
      BY <2>1, <2>10 DEF Own, Covered
    <3>4. \A d, e \in cards[r]' : d.of = e.of => d = e
      BY <1>5, <2>1, <2>6, <2>10, <3>3 DEF Own, Covered
    <3>5. Covered(r)'
      BY <2>9, <3>2, <3>4 DEF Covered
    <3>6. QED BY <2>2, <2>4, <2>5, <3>5 DEF Own
  <2>11. CASE ~Visible(r)
    <3>1. \A d, e \in cards[r]' : d.of = e.of => d = e
      BY <1>5, <2>1, <2>11 DEF Own, Covered
    <3>2. Covered(r)'
      BY <1>7, <2>9, <2>11, <3>1 DEF Covered
    <3>3. QED BY <2>2, <2>4, <2>5, <3>2 DEF Own
  <2>12. QED BY <2>10, <2>11
<1>13. QED BY <1>4, <1>5, <1>7, <1>10, <1>11, <1>12, OneRun DEF RunInv, Process, Alone

\* The run is completed when every workload is done with.
LEMMA Finishes ==
  ASSUME NEW r \in Runs, IInv, TypeOK', Finish(r), UNCHANGED dialect
  PROVE  IInv'
<1>1. \A o \in Runs \ {r} : SameProcess(o)
  BY DEF IInv, TypeOK, Finish, Publish, Goto, SameProcess, inputs, given
<1>2. /\ pc[r] = "loop" /\ pc'[r] = "ended" /\ todo[r] = {} /\ answered'[r]
      /\ UNCHANGED <<listed, todo, cur, series, signals>> /\ Publish(r, Hits(r), "completed")
  BY DEF IInv, TypeOK, Finish, Goto, inputs
<1>3. AtWork(r) /\ ~AtWork(r)' /\ Process(r)
  BY <1>2 DEF AtWork, IInv, RunInv
<1>4. draft[r] = {} /\ cur[r] = {}
  BY <1>2, <1>3 DEF Process, DraftStage
<1>5. /\ row'[r] = IF Visible(r) THEN "completed" ELSE row[r]
      /\ cards'[r] = cards[r]
      /\ ~pending'[r] /\ draft'[r] = {} /\ aborted' = aborted /\ id' = id /\ contended' = contended
  <2>1. \A S, s : Publish(r, S, s) =>
          /\ row'[r] = IF r \in S THEN s ELSE row[r]
          /\ cards'[r] = IF Visible(r) THEN cards[r] \cup draft[r] ELSE cards[r]
          /\ r \in Hits(r) <=> Visible(r)
          /\ ~pending'[r] /\ draft'[r] = {} /\ aborted' = aborted /\ id' = id /\ contended' = contended
    BY PublishesOwn
  <2>2. Publish(r, Hits(r), "completed")
    BY <1>2
  <2>3. /\ row'[r] = IF r \in Hits(r) THEN "completed" ELSE row[r]
        /\ cards'[r] = IF Visible(r) THEN cards[r] \cup draft[r] ELSE cards[r]
        /\ r \in Hits(r) <=> Visible(r)
        /\ ~pending'[r] /\ draft'[r] = {} /\ aborted' = aborted /\ id' = id /\ contended' = contended
    BY <2>1, <2>2
  <2>4. QED BY <1>4, <2>3
<1>6. /\ \A o \in Runs \ {r} : Same(o) \/ Shared(o)
      /\ UNCHANGED <<id, contended>> /\ (Visible(r)' => Visible(r))
  BY <1>1, <1>2, <1>3, Publishes
<1>7. ~Visible(r) => row[r] = "deleted" /\ cards[r] = {}
  BY <1>3 DEF Process, RowStage, Visible, Stored, IInv, TypeOK
<1>8. Fresh(r)' /\ RowStage(r)'
  BY <1>2, <1>3, <1>5, <1>7 DEF Process, Fresh, RowStage
<1>9. DraftStage(r)'
  BY <1>2, <1>3, <1>5 DEF Process, DraftStage
<1>10. ASSUME Alone(r) PROVE Own(r)'
  <2>1. Own(r) /\ row[r] # "failed" /\ Going(r)
    BY <1>2, <1>10 DEF IInv, RunInv, Own, OwnStatus, Going
  <2>2. OwnStatus(r)'
    BY <1>2, <1>4, <1>5, <1>7 DEF OwnStatus
  <2>3. OwnCards(r)' /\ Agreed(r)' /\ Committed(r)'
    BY <1>2, <1>3, <1>5, <2>1 DEF Own, OwnCards, Agreed, Committed, FromMemo, Read
  <2>4. Done(r)' = Done(r)
    BY <1>2 DEF Done
  <2>5. Covered(r)'
    BY <1>2, <1>5, <1>6, <2>1, <2>4 DEF Own, Covered
  <2>6. QED BY <2>2, <2>3, <2>5 DEF Own
<1>11. QED BY <1>3, <1>5, <1>6, <1>8, <1>9, <1>10, OneRun DEF RunInv, Process, Alone

\* SQLite publishes half a card with the failed row; Postgres has aborted by then.
LEMMA FinishesFailed ==
  ASSUME NEW r \in Runs, IInv, TypeOK', FinishFailed(r), UNCHANGED dialect
  PROVE  IInv'
<1> USE RunAssumption
<1>1. \A o \in Runs \ {r} : SameProcess(o)
  BY DEF IInv, TypeOK, FinishFailed, Forget, Publish, Goto, SameProcess, given
<1>2. /\ pc[r] = "except" /\ pc'[r] = "ended" /\ ~aborted[r] /\ UNCHANGED answered
      /\ listed'[r] = {} /\ todo'[r] = {} /\ cur'[r] = {} /\ series'[r] = {}
      /\ Publish(r, Hits(r), "failed")
  BY DEF IInv, TypeOK, FinishFailed, Forget, Goto
<1>3. AtWork(r) /\ ~AtWork(r)' /\ Process(r)
  BY <1>2 DEF AtWork, IInv, RunInv
<1>4. /\ row'[r] = IF Visible(r) THEN "failed" ELSE row[r]
      /\ cards'[r] = IF Visible(r) THEN cards[r] \cup draft[r] ELSE cards[r]
      /\ ~pending'[r] /\ draft'[r] = {} /\ aborted' = aborted /\ id' = id /\ contended' = contended
  <2>1. \A S, s : Publish(r, S, s) =>
          /\ row'[r] = IF r \in S THEN s ELSE row[r]
          /\ cards'[r] = IF Visible(r) THEN cards[r] \cup draft[r] ELSE cards[r]
          /\ r \in Hits(r) <=> Visible(r)
          /\ ~pending'[r] /\ draft'[r] = {} /\ aborted' = aborted /\ id' = id /\ contended' = contended
    BY PublishesOwn
  <2>2. Publish(r, Hits(r), "failed")
    BY <1>2
  <2>3. /\ row'[r] = IF r \in Hits(r) THEN "failed" ELSE row[r]
        /\ cards'[r] = IF Visible(r) THEN cards[r] \cup draft[r] ELSE cards[r]
        /\ r \in Hits(r) <=> Visible(r)
        /\ ~pending'[r] /\ draft'[r] = {} /\ aborted' = aborted /\ id' = id /\ contended' = contended
    BY <2>1, <2>2
  <2>4. QED BY <2>3
<1>5. /\ \A o \in Runs \ {r} : Same(o) \/ Shared(o)
      /\ UNCHANGED <<id, contended>> /\ (Visible(r)' => Visible(r))
  BY <1>1, <1>2, <1>3, Publishes
<1>6. ~Visible(r) => row[r] = "deleted" /\ cards[r] = {}
  BY <1>3 DEF Process, RowStage, Visible, Stored, IInv, TypeOK
<1>7. ~answered[r] /\ id[r] # 0
  BY <1>2, <1>3 DEF Process, RowStage
<1>8. Fresh(r)' /\ RowStage(r)'
  BY <1>2, <1>3, <1>4, <1>6, <1>7 DEF Fresh, RowStage
<1>9. DraftStage(r)'
  BY <1>2, <1>4 DEF DraftStage
<1>10. dialect \in {"sqlite", "postgres"}
  BY DEF IInv, TypeOK
<1>11. draft[r] # {} => dialect = "sqlite"
  BY <1>2, <1>3, <1>10 DEF Process, DraftStage
<1>12. ASSUME Alone(r) PROVE Own(r)'
  <2>1. Own(r) /\ row[r] \notin {"completed", "failed"}
    BY <1>2, <1>12 DEF IInv, RunInv, Own, OwnStatus
  <2>2. OwnStatus(r)' /\ ~Going(r)' /\ row'[r] # "completed"
    BY <1>2, <1>4, <1>6, <1>7 DEF OwnStatus, Going
  <2>3. \A d \in cards'[r] : FromMemo(r, d)
    BY <1>3, <1>4, <2>1 DEF Own, OwnCards, Process, DraftStage
  <2>4. OwnCards(r)' /\ Agreed(r)'
    BY <1>3, <2>2, <2>3 DEF OwnCards, Agreed, FromMemo, Read
  <2>5. \A d \in cards[r] : ~(d.missing > 0)
    BY <2>1 DEF Own, Committed
  <2>6. Committed(r)'
    BY <1>4, <1>11, <2>5 DEF Committed
  <2>7. QED BY <2>2, <2>4, <2>6 DEF Own, Covered
<1>13. QED BY <1>3, <1>4, <1>5, <1>8, <1>9, <1>12, OneRun DEF RunInv, Process, Alone

-----------------------------------------------------------------------------
(* The rest of the system.                                                 *)

\* A collection changes no run.
LEMMA Collects ==
  ASSUME IInv, TypeOK', UNCHANGED <<dialect, row, cards, inputs, tx, given, pc, answered>>
  PROVE  IInv'
<1>1. \A o \in Runs : Same(o) /\ (Alone(o)' => Alone(o))
  BY DEF Same, SameProcess, inputs, tx, given, Alone
<1>2. \A o \in Runs : RunInv(o)'
  BY <1>1, SameRun DEF IInv
<1>3. Exclusive'
  BY DEF IInv, Exclusive, Visible, Stored, AtWork, Alone, tx, given
<1>4. QED BY <1>2, <1>3 DEF IInv

\* The deletion takes every row and card at once, and waits for open inserts.
LEMMA Deletes ==
  ASSUME IInv, TypeOK', DeleteCluster, UNCHANGED dialect
  PROVE  IInv'
<1>1. ASSUME NEW r \in Runs PROVE RunInv(r)' /\ ~Visible(r)'
  <2>1. ~pending[r] /\ draft[r] = {} /\ Process(r)
    BY DEF DeleteCluster, Writing, IInv, TypeOK, RunInv
  <2>2. /\ row'[r] = (IF Stored(r) THEN "deleted" ELSE row[r]) /\ cards'[r] = {}
        /\ UNCHANGED <<pending, draft, aborted, listed, todo, cur, series, signals, pc, answered, id, contended>>
    BY DEF DeleteCluster, inputs, tx, given
  <2>3. ~Stored(r)' /\ (row'[r] = "absent" <=> row[r] = "absent")
    BY <2>2 DEF Stored
  <2>4. AtWork(r)' = AtWork(r) /\ Alone(r)' = Alone(r)
    BY <2>2 DEF AtWork, Alone
  <2>5. Process(r)'
    BY <2>1, <2>2, <2>3, <2>4 DEF Process, Fresh, RowStage, DraftStage
  <2>6. ASSUME Alone(r) PROVE Own(r)'
    <3>1. Own(r)
      BY <2>6 DEF IInv, RunInv
    <3>2. row'[r] \in {"absent", "deleted"} /\ (row[r] \in {"completed"} => row'[r] = "deleted")
      BY <2>2, <2>3 DEF Stored, IInv, TypeOK
    <3>3. OwnStatus(r)' /\ OwnCards(r)' /\ Agreed(r)' /\ Committed(r)'
      BY <2>2, <3>1, <3>2 DEF Own, OwnStatus, OwnCards, Agreed, Committed
    <3>4. Done(r)' = Done(r) /\ ~Visible(r)' /\ (Going(r)' => Going(r))
      BY <2>1, <2>2, <2>3, <3>2 DEF Done, Going, Visible
    <3>5. Covered(r)'
      BY <2>2, <3>1, <3>4 DEF Own, Covered
    <3>6. QED BY <3>3, <3>5 DEF Own
  <2>7. QED BY <2>1, <2>2, <2>3, <2>4, <2>5, <2>6 DEF RunInv, Visible
<1>2. Exclusive'
  BY <1>1 DEF Exclusive
<1>3. QED BY <1>1, <1>2 DEF IInv

-----------------------------------------------------------------------------
(* The invariant, and what can be read of a run.                           *)

\* No run has begun.
LEMMA InitInv == Init => IInv
<1> SUFFICES ASSUME Init PROVE IInv
  OBVIOUS
<1> USE RunAssumption
<1>1. TypeOK
  <2>1. signals \in [Runs -> [Workloads -> SUBSET Int]]
    BY DEF Init, Unread
  <2>2. clock \in Nat /\ collected \in [Workloads -> 0 .. clock]
    BY DEF Init
  <2>3. /\ cards \in [Runs -> SUBSET Card] /\ draft \in [Runs -> SUBSET Card]
        /\ row \in [Runs -> {"absent", "running", "completed", "failed", "deleted"}]
        /\ series \in [Runs -> SUBSET [of : Workloads, points : SUBSET Nat]]
    BY DEF Init
  <2>4. QED BY <2>1, <2>2, <2>3 DEF Init, TypeOK
<1>2. ASSUME NEW r \in Runs PROVE RunInv(r)
  <2>1. /\ row[r] = "absent" /\ cards[r] = {} /\ pc[r] = "idle" /\ id[r] = 0 /\ ~pending[r] /\ draft[r] = {}
        /\ listed[r] = {} /\ todo[r] = {} /\ cur[r] = {} /\ series[r] = {} /\ ~answered[r]
    BY DEF Init
  <2>2. Process(r)
    BY <2>1 DEF Process, Fresh, RowStage, DraftStage, AtWork, Stored
  <2>3. Own(r)
    BY <2>1 DEF Own, OwnStatus, OwnCards, Agreed, Covered, Committed, Going, AtWork
  <2>4. QED BY <2>2, <2>3 DEF RunInv
<1>3. Exclusive
  BY DEF Init, Exclusive, AtWork
<1>4. QED BY <1>1, <1>2, <1>3 DEF IInv

\* One case per action.
LEMMA StepInv == IInv /\ [Next]_vars => IInv'
<1> SUFFICES ASSUME IInv, [Next]_vars PROVE IInv'
  OBVIOUS
<1>0. TypeOK'
  BY TypeStep DEF IInv
<1>1. CASE UNCHANGED vars
  BY <1>0, <1>1, Collects DEF vars, db
<1>2. ASSUME NEW r \in Runs, Address(r) \/ Ensure(r) \/ Refuse(r) \/ CollectionEnds(r), UNCHANGED dialect
      PROVE  IInv'
  <2>1. PICK l \in {"waiting", "create", "ended"} : Goto(r, l)
    BY <1>2 DEF Address, Ensure, Refuse, CollectionEnds, Proceed
  <2>2. UNCHANGED <<dialect, row, cards, inputs, tx, id, contended, answered>> /\ pc[r] \in {"idle", "waiting"}
    BY <1>2 DEF Address, Ensure, Refuse, CollectionEnds, db, given
  <2>3. QED BY <1>0, <2>1, <2>2, Prelude
<1>3. ASSUME NEW r \in Runs, CreateFails(r) \/ FinishFailedFails(r), UNCHANGED dialect PROVE IInv'
  BY <1>0, <1>3, Closes DEF CreateFails, FinishFailedFails, AtWork
<1>4. ASSUME NEW r \in Runs, Crash(r), UNCHANGED dialect PROVE IInv'
  <2>1. pc[r] \in {"waiting", "create"} \/ AtWork(r)
    BY <1>4 DEF Crash, IInv, TypeOK, AtWork
  <2>2. QED BY <1>0, <1>4, <2>1, Closes DEF Crash
<1>5. ASSUME NEW r \in Runs, NEW u \in Workloads, Pick(r, u) \/ Skip(r, u) \/ InsertCard(r, u), UNCHANGED dialect
      PROVE  IInv'
  BY <1>0, <1>5, Picks, Skips, Inserts
<1>6. ASSUME NEW r \in Runs, NEW u \in Workloads, InsertCardFails(r, u), UNCHANGED dialect PROVE IInv'
  BY <1>0, <1>6, Raises DEF InsertCardFails, ReadyFor
<1>7. ASSUME NEW r \in Runs, AnalysisFails(r) \/ InsertPartFails(r) \/ FinishTimesOut(r), UNCHANGED dialect
      PROVE  IInv'
  <2>1. PICK s \in BOOLEAN : Raise(r, s) /\ (pc[r] \in {"list", "loop", "analyze"} \/ (pc[r] = "parts" /\ s))
    <3>1. CASE AnalysisFails(r)
      BY <3>1 DEF AnalysisFails
    <3>2. CASE InsertPartFails(r)
      BY <3>2 DEF InsertPartFails
    <3>3. CASE FinishTimesOut(r)
      BY <3>3 DEF FinishTimesOut
    <3>4. QED BY <1>7, <3>1, <3>2, <3>3
  <2>2. QED BY <1>0, <1>7, <2>1, Raises
<1>8. ASSUME NEW r \in Runs, Advance(r), UNCHANGED dialect PROVE IInv'
  BY <1>0, <1>8, <1>2, <1>3, <1>5, <1>6, <1>7, Creates, Lists, Loads, Signals, InsertsPart, CommitsCard,
     Finishes, FinishesFailed DEF Advance
<1>9. ASSUME CollectorBegins \/ CollectorEnds, UNCHANGED dialect PROVE IInv'
  BY <1>0, <1>9, Collects DEF CollectorBegins, CollectorEnds
<1>10. QED BY <1>1, <1>2, <1>4, <1>8, <1>9, <1>0, Deletes DEF Next, Request

\* The rows, cards, drafts and memos of all runs have their types in every state.
THEOREM TypeCorrect == Spec => []TypeOK
<1>1. Init => TypeOK
  BY InitInv DEF IInv
<1>2. QED BY <1>1, TypeStep, PTL DEF Spec

\* The invariant the theorems below follow from.
THEOREM Invariance == Spec => []IInv
BY InitInv, StepInv, PTL DEF Spec

\* Nobody at work has the id of another run's row, in Postgres ever, in SQLite unless the
\* row was inserted while a run of a deleted cluster still had the id (Exclusive).
THEOREM IdsExclusive == Spec => []Exclusive
<1>1. IInv => Exclusive
  BY DEF IInv
<1>2. QED BY <1>1, Invariance, PTL

\* A run read as completed is complete (CompletedIsComplete): finish_analysis_run
\* sets the status after the card of the last workload with a signal is committed.
THEOREM CompletedWhole == Spec => []CompletedIsComplete
<1>1. IInv => CompletedIsComplete
  <2> SUFFICES ASSUME IInv, NEW r \in Runs, row[r] = "completed", Alone(r)
               PROVE  /\ {c.of : c \in cards[r]} =
                           {w \in listed[r] : r \in MaintRuns \/ signals[r][w] # NoSignal}
                      /\ \A c, d \in cards[r] : c.of = d.of => c = d
                      /\ \A c \in cards[r] : c.missing = 0
    BY DEF CompletedIsComplete
  <2>1. Own(r) /\ Going(r) /\ Visible(r)
    BY DEF IInv, RunInv, Going, Visible, Stored
  <2>2. Done(r) = listed[r]
    BY <2>1 DEF Own, OwnStatus, Done
  <2>3. \A c \in cards[r] : c.missing = 0
    <3>1. \A c \in cards[r] : c \in Card
      BY DEF IInv, TypeOK
    <3>2. QED BY <2>1, <3>1 DEF Own, Committed, Card
  <2>4. QED BY <2>1, <2>2, <2>3 DEF Own, Covered
<1>2. QED BY <1>1, Invariance, PTL

\* A card without all its parts is read only in SQLite and only of a failed run
\* (PartialCardsFailed).
THEOREM PartialCards == Spec => []PartialCardsFailed
<1>1. IInv => PartialCardsFailed
  BY DEF IInv, RunInv, Own, Committed, PartialCardsFailed
<1>2. QED BY <1>1, Invariance, PTL

\* The cards of a run agree on the samples behind every workload's savings (CardsAgree).
THEOREM CardsAgreement == Spec => []CardsAgree
<1>1. IInv => CardsAgree
  BY DEF IInv, RunInv, Own, Agreed, CardsAgree
<1>2. QED BY <1>1, Invariance, PTL

\* Who was answered "completed" finds the run completed until the cluster is deleted
\* (AnsweredRunExists).
THEOREM AnsweredFound == Spec => []AnsweredRunExists
<1>1. IInv => AnsweredRunExists
  BY DEF IInv, RunInv, Own, OwnStatus, AnsweredRunExists
<1>2. QED BY <1>1, Invariance, PTL
=============================================================================
