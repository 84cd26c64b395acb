----------------------------- MODULE ResultReads -----------------------------
(***************************************************************************)
(* How results are read: the run flow and the "Why?" dialogs of a browser  *)
(* tab against the API's run, recommendations and evidence endpoints,      *)
(* while runs of the tab and of others write cards and clusters are        *)
(* deleted.                                                                *)
(*                                                                         *)
(* A handler answers with several statements, each seeing what is          *)
(* committed by then.  Runs and cards are asked for by id.  Postgres       *)
(* never gives an id twice; SQLite gives the id after the largest one      *)
(* present, so ids of deleted rows return, and a run that works on after   *)
(* its row was deleted writes into the row that was given its id.          *)
(*                                                                         *)
(* What a run writes and when is module AnalysisRun; here a card appears   *)
(* whole, the first one together with the row of its run.                  *)
(***************************************************************************)
EXTENDS Integers, FiniteSets, Sequences, FiniteSetsExt

CONSTANTS
  Runs,        \* runs requested
  MaintRuns,   \* those of run_type maintenance; the others are job runs
  Tab,         \* those started in the tab; the others by other clients
  MaxCards,    \* bound: cards of a job run (a maintenance run has one)
  Dialects,    \* the databases the instance looks at
  MaxDeletes,  \* bound: deletions of a cluster
  MaxDialogs   \* bound: "Why?" requests at a time

ASSUME ReadsAssumption ==
  /\ IsFiniteSet(Runs) /\ MaintRuns \subseteq Runs /\ Tab \subseteq Runs
  /\ MaxCards \in Nat \ {0} /\ MaxDeletes \in Nat /\ MaxDialogs \in Nat
  /\ Dialects \subseteq {"sqlite", "postgres"}

\* A card is in the row of one run, and was written by that run or by another.
Card == [of : Runs, by : Runs, id : Nat]
\* A "Why?" request: the card clicked and what its statements have found so far, the
\* run's table, the card's row, its evidence and its peers (of a maintenance result its
\* impacted apps and its evidence).
Dialog == [card : Card, run : Nat, calm : BOOLEAN,
           step : {"run", "rec", "first", "second", "open"},
           table : {"recommendations", "maintenance_results"},
           rec : SUBSET Card, first : SUBSET Card, second : SUBSET Card]

VARIABLES
  dialect,
  present,   \* the runs whose row exists
  idOf,      \* the id each run was given (0: none yet)
  contended, \* history: the runs given an id that another run still wrote by
  cards,     \* the cards that exist
  used,      \* the last id given, by table
  deletes,
  pc,        \* where each run is
  flow,      \* where the tab's flow that started it is
  head,      \* the run the flow's GET found: a set of at most one
  answer,    \* the cards the flow's GET found
  lastRun,   \* state.lastRun
  timers,    \* answers to be rendered, 350 ms after they arrived
  shown,     \* the flow whose cards are on the screen: a set of at most one
  why        \* the "Why?" dialogs asked for or open

db == <<present, idOf, contended, cards, used, deletes>>
tab == <<flow, head, answer, lastRun, timers, shown>>
vars == <<dialect, db, pc, tab, why>>

Table(r) == IF r \in MaintRuns THEN "maintenance_results" ELSE "recommendations"
CardsIn(t) == {c \in cards : Table(c.by) = t}
CardsBy(r) == {c \in cards : c.by = r}
RunsWith(id) == {o \in present : idOf[o] = id}

Ends(r, label) == pc' = [pc EXCEPT ![r] = label]
Goes(r, label) == flow' = [flow EXCEPT ![r] = label]

-----------------------------------------------------------------------------
(* What the runs write.                                                    *)

NewId(t) ==
  1 + IF dialect = "postgres" THEN used[t]
      ELSE Max({0} \cup IF t = "analysis_runs" THEN {idOf[r] : r \in present}
                        ELSE {c.id : c \in CardsIn(t)})

\* The row of the run, if there is none yet.
WithRow(r) ==
  IF pc[r] = "idle"
  THEN /\ present' = present \cup {r}
       /\ idOf' = [idOf EXCEPT ![r] = NewId("analysis_runs")]
       /\ contended' = contended \cup
            {s \in {r} : \E o \in Runs : pc[o] = "running" /\ idOf[o] = NewId("analysis_runs")}
  ELSE UNCHANGED <<present, idOf, contended>>

\* insert_recommendation: a card for the row that has the run's id by now; it fails if
\* there is none.  insert_maintenance_result: the only card, together with its row.
AddCard(r) ==
  /\ pc[r] = "idle" \/ (pc[r] = "running" /\ r \notin MaintRuns)
  /\ Cardinality(CardsBy(r)) < MaxCards
  /\ WithRow(r)
  /\ \E o \in IF pc[r] = "idle" THEN {r} ELSE RunsWith(idOf[r]) :
       cards' = cards \cup {[of |-> o, by |-> r, id |-> NewId(Table(r))]}
  /\ used' = [t \in DOMAIN used |->
                IF t = Table(r) \/ (t = "analysis_runs" /\ pc[r] = "idle") THEN NewId(t) ELSE used[t]]
  /\ Ends(r, "running")
  /\ UNCHANGED <<deletes, tab, why>>

\* finish_analysis_run and the answer to POST /runs, which says completed: the status
\* is not polled any more.  The update may have met no row.
Finish(r) ==
  /\ pc[r] = "running" \/ (pc[r] = "idle" /\ r \notin MaintRuns)
  /\ WithRow(r)
  /\ used' = [used EXCEPT !["analysis_runs"] = IF pc[r] = "idle" THEN NewId("analysis_runs") ELSE @]
  /\ Ends(r, "completed")
  /\ UNCHANGED <<cards, deletes, tab, why>>

\* The run fails, and so does the request; cards written so far stay.
Fail(r) ==
  /\ pc[r] \in {"idle", "running"}
  /\ Ends(r, "failed")
  /\ UNCHANGED <<db, tab, why>>

\* DELETE /clusters/{id}: its runs and their cards go with it.
DeleteCluster ==
  /\ deletes < MaxDeletes
  /\ deletes' = deletes + 1
  /\ \E S \in (SUBSET present) \ {{}} :
       present' = present \ S /\ cards' = {c \in cards : c.of \notin S}
  /\ UNCHANGED <<idOf, contended, used, pc, tab, why>>

-----------------------------------------------------------------------------
(* The flow: GET /runs/{id}/recommendations, then the screen.              *)

\* Mutant: POST /runs answers when the run's row is there.
ReadHeaderEarly(r) ==
  /\ pc[r] \in {"running", "completed"} /\ flow[r] = "waiting"
  /\ head' = [head EXCEPT ![r] = RunsWith(idOf[r])]
  /\ Goes(r, IF RunsWith(idOf[r]) = {} THEN "stopped" ELSE "header")
  /\ UNCHANGED <<db, pc, answer, lastRun, timers, shown, why>>

\* Mutant: the tab remembers the run before it has its cards.
ReadHeaderRemembers(r) ==
  /\ pc[r] = "completed" /\ flow[r] = "waiting"
  /\ head' = [head EXCEPT ![r] = RunsWith(idOf[r])]
  /\ Goes(r, IF RunsWith(idOf[r]) = {} THEN "stopped" ELSE "header")
  /\ lastRun' = idOf[r]
  /\ UNCHANGED <<db, pc, answer, timers, shown, why>>

\* cards_dto: the run first.  Without one it is a 404, and the flow stops.
ReadHeader(r) ==
  /\ pc[r] = "completed" /\ flow[r] = "waiting"
  /\ head' = [head EXCEPT ![r] = RunsWith(idOf[r])]
  /\ Goes(r, IF RunsWith(idOf[r]) = {} THEN "stopped" ELSE "header")
  /\ UNCHANGED <<db, pc, answer, lastRun, timers, shown, why>>

\* Then its cards, by the run's id, from the table of the run's type.
ReadCards(r) ==
  /\ flow[r] = "header"
  /\ \E o \in head[r] :
       answer' = [answer EXCEPT ![r] = {c \in CardsIn(Table(o)) : idOf[c.of] = idOf[r]}]
  /\ Goes(r, "answered")
  /\ UNCHANGED <<db, pc, head, lastRun, timers, shown, why>>

\* The answer arrives: answers of two flows arrive in any order.
Receive(r) ==
  /\ flow[r] = "answered"
  /\ lastRun' = idOf[r]
  /\ timers' = Append(timers, r)
  /\ Goes(r, "received")
  /\ UNCHANGED <<db, pc, head, answer, shown, why>>

\* Mutant: the answer that arrived last is rendered first.
RenderLast ==
  /\ timers # <<>>
  /\ shown' = {timers[Len(timers)]}
  /\ timers' = SubSeq(timers, 1, Len(timers) - 1)
  /\ UNCHANGED <<db, pc, flow, head, answer, lastRun, why>>

\* renderRecommendations: timers of one delay fire in the order they were set.
Render ==
  /\ timers # <<>>
  /\ shown' = {timers[1]}
  /\ timers' = Tail(timers)
  /\ UNCHANGED <<db, pc, flow, head, answer, lastRun, why>>

-----------------------------------------------------------------------------
(* The dialogs: GET /runs/{lastRun}/recommendations/{rec}/evidence.        *)

Pending == {w \in why : w.step # "open"}
\* The rows that have the id of the card clicked.
Asked(w) == {c \in CardsIn(w.table) : c.id = w.card.id}

\* openWhy, openSimilar, openMaintWhy, openImpacted; requests clicked before may still
\* be under way.  (openImpacted does without the last statement; left out.)
Click(c) ==
  /\ \E r \in shown : c \in answer[r]
  /\ Cardinality(Pending) < MaxDialogs
  /\ why' = Pending \cup {[card |-> c, run |-> lastRun, calm |-> timers = <<>>, step |-> "run",
                          table |-> Table(c.by), rec |-> {}, first |-> {}, second |-> {}]}
  /\ UNCHANGED <<db, pc, tab>>

\* w goes on as one of V; with none it was a 404, and no dialog opens.
Continue(w, V) ==
  /\ why' = (why \ {w}) \cup V
  /\ UNCHANGED <<db, pc, tab>>

\* evidence_dto: the run says which table the id is one of.
WhyRun(w) ==
  /\ w.step = "run"
  /\ Continue(w, {[w EXCEPT !.step = "rec", !.table = Table(o)] : o \in RunsWith(w.run)})

\* The row of the card: of a maintenance result, and only there, the run is compared.
WhyRec(w) ==
  /\ w.step = "rec"
  /\ Continue(w, {[w EXCEPT !.step = "first", !.rec = {c}] :
                    c \in {d \in Asked(w) : w.table = "maintenance_results" => idOf[d.of] = w.run}})

\* Its evidence or impacted apps, then its peers or evidence: by the card's id.
WhyFirst(w) ==
  /\ w.step = "first"
  /\ Continue(w, {[w EXCEPT !.step = "second", !.first = Asked(w)]})

WhySecond(w) ==
  /\ w.step = "second"
  /\ Continue(w, {[w EXCEPT !.step = "open", !.second = Asked(w)]})

-----------------------------------------------------------------------------
Init ==
  /\ dialect \in Dialects
  /\ present = {} /\ contended = {} /\ cards = {} /\ deletes = 0
  /\ idOf = [r \in Runs |-> 0]
  /\ used = [t \in {"analysis_runs", "recommendations", "maintenance_results"} |-> 0]
  /\ pc = [r \in Runs |-> "idle"]
  /\ flow = [r \in Tab |-> "waiting"]
  /\ head = [r \in Tab |-> {}]
  /\ answer = [r \in Tab |-> {}]
  /\ lastRun = 0 /\ timers = <<>> /\ shown = {} /\ why = {}

Next ==
  /\ \/ \E r \in Runs : AddCard(r) \/ Finish(r) \/ Fail(r)
     \/ \E r \in Tab : ReadHeader(r) \/ ReadCards(r) \/ Receive(r)
     \/ DeleteCluster
     \/ Render
     \/ \E c \in UNION {answer[r] : r \in shown} : Click(c)
     \/ \E w \in why : WhyRun(w) \/ WhyRec(w) \/ WhyFirst(w) \/ WhySecond(w)
  /\ UNCHANGED dialect

Spec == Init /\ [][Next]_vars

-----------------------------------------------------------------------------
TypeOK ==
  /\ dialect \in Dialects
  /\ present \subseteq Runs /\ contended \subseteq Runs /\ cards \subseteq Card
  /\ idOf \in [Runs -> Nat]
  /\ used \in [{"analysis_runs", "recommendations", "maintenance_results"} -> Nat]
  /\ deletes \in 0 .. MaxDeletes
  /\ pc \in [Runs -> {"idle", "running", "completed", "failed"}]
  /\ flow \in [Tab -> {"waiting", "stopped", "header", "answered", "received"}]
  /\ head \in [Tab -> SUBSET Runs]
  /\ answer \in [Tab -> SUBSET Card]
  /\ lastRun \in Nat /\ timers \in Seq(Tab) /\ shown \subseteq Tab
  /\ why \subseteq Dialog

\* The cards a flow received are those its run wrote, and all of them, unless the
\* cluster was deleted meanwhile: no card is written after the answer to POST /runs,
\* and no other run has the id while this one exists.  Except in SQLite, when the run
\* was given the id of a deleted run that was still at work (statestore.py:271): that
\* one's cards may be among them, before the answer and after.
AnswerIsWhole ==
  /\ \A r \in Tab :
       flow[r] \in {"answered", "received"} /\ r \in present \ contended =>
         head[r] = {r} /\ answer[r] = CardsBy(r)
  /\ dialect = "postgres" => contended = {}

\* The card is in the row of its writer or of another run of its type.
Placed(c) == Table(c.of) = Table(c.by)

\* An opened dialog tells of the card that was clicked - its own row, its own evidence,
\* its own peers - if no other answer was about to be rendered at the click and the card
\* still exists, also if a deleted run wrote it into another's row, of the same type;
\* on Postgres a deleted card's dialog may lack parts but never has another's.
EvidenceIsOfCard ==
  \A w \in why : w.step = "open" /\ w.calm =>
    /\ w.card \in cards /\ Placed(w.card) =>
         w.rec = {w.card} /\ w.first = {w.card} /\ w.second = {w.card}
    /\ dialect = "postgres" =>
         w.rec = {w.card} /\ w.first \subseteq {w.card} /\ w.second \subseteq {w.card}

\* When nothing is about to be rendered, the run that the dialogs ask about is the run
\* on the screen, in whatever order the flows ended (state.lastRun and the timer).
LastRunIsShown ==
  timers = <<>> => \A r \in shown : lastRun = idOf[r]
=============================================================================
