-------------------------- MODULE ResultReads_proofs --------------------------
(***************************************************************************)
(* For any number of runs, cards, flows and deletions, on SQLite and on    *)
(* Postgres: the cards a flow received are its run's, a dialog tells of    *)
(* the card that was clicked, and the dialogs ask about the run shown.     *)
(*                                                                         *)
(* The argument is about ids.  On Postgres an id names one row for ever;   *)
(* on SQLite it names one of the rows that exist, and a run that works on  *)
(* after its row was deleted writes into another's row only if that one    *)
(* was given its id meanwhile, which the history variable remembers.       *)
(***************************************************************************)
EXTENDS ResultReads, WellFoundedInduction, FiniteSetTheorems, SequenceTheorems, TLAPS

\* A nonempty set of numbers has a least element.
LEMMA LeastNumber ==
  ASSUME NEW S \in SUBSET Nat, S # {}
  PROVE  \E m \in S : \A n \in S : m <= n
<1>1. PICK m \in S : \A n \in S : <<n, m>> \notin OpToRel(<, Nat)
  BY NatLessThanWellFounded, WFMin, Zenon
<1>2. \A n \in S : ~ (n < m)
  BY <1>1 DEF OpToRel
<1>3. QED BY <1>2

\* A finite nonempty set of numbers has a largest element, and Max is it: of the
\* subsets without one, none has the fewest elements.
LEMMA MaxIsLargest ==
  ASSUME NEW S \in SUBSET Nat, IsFiniteSet(S), S # {}
  PROVE  Max(S) \in S /\ \A n \in S : n <= Max(S)
<1> DEFINE Top(T) == \E m \in T : \A n \in T : n <= m
           Bad == {T \in SUBSET S : T # {} /\ ~Top(T)}
           Sizes == {k \in Nat : \E T \in Bad : Cardinality(T) = k}
<1>1. \A T \in SUBSET S : IsFiniteSet(T) /\ Cardinality(T) \in Nat
  BY FS_Subset, FS_CardinalityType
<1>2. Bad = {}
  <2> SUFFICES ASSUME Bad # {} PROVE FALSE
    OBVIOUS
  <2>1. Sizes # {} /\ Sizes \in SUBSET Nat
    BY <1>1
  <2>2. PICK k \in Sizes : \A n \in Sizes : k <= n
    BY <2>1, LeastNumber
  <2>3. PICK T \in Bad : Cardinality(T) = k
    BY <2>2
  <2>4. T \in SUBSET S /\ T # {} /\ ~Top(T)
    BY <2>3
  <2>5. PICK x \in T : TRUE
    BY <2>4
  <2>6. T \ {x} \in SUBSET S /\ IsFiniteSet(T) /\ Cardinality(T) \in Nat
    BY <1>1, <2>4
  <2>7. Cardinality(T \ {x}) = Cardinality(T) - 1
    BY <2>5, <2>6, FS_RemoveElement
  <2>8. T \ {x} \notin Bad
    <3> SUFFICES ASSUME T \ {x} \in Bad PROVE FALSE
      OBVIOUS
    <3>1. Cardinality(T \ {x}) \in Sizes
      BY <1>1, <2>6
    <3>2. k <= Cardinality(T \ {x})
      BY <2>2, <3>1
    <3>3. QED BY <2>3, <2>6, <2>7, <3>2
  <2>9. CASE T \ {x} = {}
    <3>1. \A n \in T : n <= x
      BY <2>4, <2>5, <2>9
    <3>2. QED BY <2>4, <2>5, <3>1
  <2>10. CASE T \ {x} # {}
    <3>1. PICK m \in T \ {x} : \A n \in T \ {x} : n <= m
      BY <2>6, <2>8, <2>10
    <3>2. CASE m <= x
      <4>1. \A n \in T : n <= x
        BY <2>4, <2>5, <3>1, <3>2
      <4>2. QED BY <2>4, <2>5, <4>1
    <3>3. CASE x <= m
      <4>1. \A n \in T : n <= m
        BY <2>4, <2>5, <3>1, <3>3
      <4>2. QED BY <2>4, <3>1, <4>1
    <3>4. QED BY <2>4, <2>5, <3>1, <3>2, <3>3
  <2>11. QED BY <2>9, <2>10
<1>3. PICK m \in S : \A n \in S : m >= n
  BY <1>2
<1>4. QED BY <1>3 DEF Max

\* The values of a function on a finite set are finitely many.
LEMMA ImageIsFinite ==
  ASSUME NEW S, IsFiniteSet(S), NEW T, NEW f \in [S -> T]
  PROVE  IsFiniteSet({f[x] : x \in S})
<1> DEFINE I == {f[x] : x \in S}
<1>1. f \in Surjection(S, I)
  BY DEF Surjection
<1>2. QED BY <1>1, FS_Surjection

-----------------------------------------------------------------------------
Tables == {"analysis_runs", "recommendations", "maintenance_results"}

\* Every card somebody has: a table, a flow or a dialog.
Answered == UNION {answer[r] : r \in Tab}
Clicked == {w.card : w \in why}
Held == cards \cup Answered \cup Clicked

\* The rows that exist have ids of their own; on Postgres all rows ever had.
RunIds ==
  /\ \A o \in present : pc[o] # "idle" /\ idOf[o] > 0
  /\ \A o, p \in present : idOf[o] = idOf[p] => o = p
  /\ dialect = "postgres" =>
       /\ \A o \in Runs : idOf[o] <= used["analysis_runs"]
       /\ \A o, p \in Runs : idOf[o] = idOf[p] => o = p \/ idOf[o] = 0

\* Nobody else writes by the id of a run that is not contended.
Alone ==
  /\ \A r \in present \ contended, o \in Runs :
       pc[o] = "running" /\ idOf[o] = idOf[r] => o = r
  /\ dialect = "postgres" => contended = {}

CardIds ==
  /\ IsFiniteSet(cards)
  /\ \A c \in cards :
       /\ c.of \in present /\ pc[c.by] # "idle" /\ idOf[c.by] = idOf[c.of]
       /\ c.of \notin contended => c.by = c.of
  /\ \A c, d \in cards : Table(c.by) = Table(d.by) /\ c.id = d.id => c = d

\* A card of a run that exists exists too: only with its run can it have gone.
Holds(c) ==
  /\ pc[c.of] # "idle" /\ idOf[c.of] > 0
  /\ c.of \in present => c \in cards
  /\ dialect = "postgres" =>
       /\ c.by = c.of /\ c.id <= used[Table(c.by)]
       /\ \A d \in cards : Table(d.by) = Table(c.by) /\ d.id = c.id => d = c

Flow(r) ==
  /\ flow[r] \in {"header", "answered", "received"} =>
       pc[r] = "completed" /\ (r \in present => head[r] = {r})
  /\ flow[r] \in {"answered", "received"} /\ r \in present \ contended => answer[r] = CardsBy(r)
  /\ \A c \in answer[r] : flow[r] \in {"answered", "received"} /\ idOf[c.of] = idOf[r]

Screen ==
  /\ \A i \in 1 .. Len(timers) : flow[timers[i]] = "received"
  /\ \A r \in shown : flow[r] = "received"
  /\ timers # <<>> => lastRun = idOf[timers[Len(timers)]]
  /\ timers = <<>> => \A r \in shown : lastRun = idOf[r]

\* How far a dialog is right about its card.
Tells(w) ==
  w.calm =>
    /\ w.run = idOf[w.card.of]
    /\ (dialect = "postgres" \/ (w.card \in cards /\ Placed(w.card))) =>
         /\ w.step # "run" => w.table = Table(w.card.by)
         /\ w.step \in {"first", "second", "open"} => w.rec = {w.card}
         /\ w.step \in {"second", "open"} => w.first \subseteq {w.card}
         /\ w.step = "open" => w.second \subseteq {w.card}
    /\ w.card \in cards /\ Placed(w.card) =>
         /\ w.step \in {"second", "open"} => w.first = {w.card}
         /\ w.step = "open" => w.second = {w.card}

IInv ==
  /\ TypeOK /\ RunIds /\ Alone /\ CardIds
  /\ \A c \in Held : Holds(c)
  /\ \A r \in Tab : Flow(r)
  /\ Screen
  /\ \A w \in why : Tells(w)

-----------------------------------------------------------------------------
(* Ids.                                                                    *)

\* Cards are never in the table of the runs.
LEMMA TableOf == \A r : Table(r) \in Tables /\ Table(r) # "analysis_runs"
BY DEF Table, Tables

\* On SQLite the next id is beyond those present, on Postgres beyond all given.
LEMMA NewRunId ==
  ASSUME IInv
  PROVE  /\ NewId("analysis_runs") \in Nat \ {0}
         /\ \A o \in present : idOf[o] < NewId("analysis_runs")
         /\ dialect = "postgres" => NewId("analysis_runs") = used["analysis_runs"] + 1
<1> USE ReadsAssumption
<1>1. CASE dialect = "postgres"
  <2>1. NewId("analysis_runs") = 1 + used["analysis_runs"] /\ used["analysis_runs"] \in Nat
    BY <1>1 DEF NewId, IInv, TypeOK
  <2>2. \A o \in present : idOf[o] \in Nat /\ idOf[o] <= used["analysis_runs"]
    BY <1>1 DEF IInv, TypeOK, RunIds
  <2>3. QED BY <2>1, <2>2
<1>2. CASE dialect # "postgres"
  <2> DEFINE f == [o \in present |-> idOf[o]]
             I == {f[o] : o \in present}
  <2>1. present \subseteq Runs /\ IsFiniteSet(present) /\ f \in [present -> Nat]
    BY FS_Subset DEF IInv, TypeOK
  <2>2. IsFiniteSet(I) /\ I \subseteq Nat
    <3>1. I \subseteq Nat
      BY <2>1
    <3> HIDE DEF f
    <3>2. IsFiniteSet(I)
      BY <2>1, ImageIsFinite
    <3>3. QED BY <3>1, <3>2
  <2>3. I = {idOf[o] : o \in present}
    OBVIOUS
  <2> HIDE DEF f, I
  <2>4. {0} \cup I = I \cup {0} /\ IsFiniteSet(I \cup {0}) /\ {0} \cup I \in SUBSET Nat
    BY <2>2, FS_AddElement
  <2>5. Max({0} \cup I) \in Nat /\ \A n \in {0} \cup I : n <= Max({0} \cup I)
    BY <2>4, MaxIsLargest
  <2>6. NewId("analysis_runs") = 1 + Max({0} \cup I)
    BY <1>2, <2>3 DEF NewId
  <2>7. \A o \in present : idOf[o] \in Nat /\ idOf[o] <= Max({0} \cup I)
    BY <2>1, <2>3, <2>5 DEF IInv, TypeOK
  <2> DEFINE m == Max({0} \cup I)
  <2> HIDE DEF m
  <2>8. NewId("analysis_runs") = 1 + m /\ m \in Nat /\ \A o \in present : idOf[o] \in Nat /\ idOf[o] <= m
    BY <2>5, <2>6, <2>7 DEF m
  <2>9. QED BY <1>2, <2>8
<1>3. QED BY <1>1, <1>2

\* The same of a card's id, within the table of its run's type.
LEMMA NewCardId ==
  ASSUME IInv, NEW r \in Runs
  PROVE  /\ NewId(Table(r)) \in Nat
         /\ \A c \in cards : Table(c.by) = Table(r) => c.id < NewId(Table(r))
         /\ dialect = "postgres" => NewId(Table(r)) = used[Table(r)] + 1
<1> USE ReadsAssumption
<1> DEFINE t == Table(r)
<1>1. t \in Tables /\ t # "analysis_runs"
  BY TableOf
<1>2. CASE dialect = "postgres"
  <2>1. NewId(t) = 1 + used[t] /\ used[t] \in Nat
    BY <1>1, <1>2 DEF NewId, IInv, TypeOK, Tables
  <2>2. \A c \in cards : Table(c.by) = t => c.id \in Nat /\ c.id <= used[t]
    BY <1>2 DEF IInv, TypeOK, Held, Holds, Card
  <2>3. QED BY <2>1, <2>2
<1>3. CASE dialect # "postgres"
  <2> DEFINE C == CardsIn(t)
             f == [c \in C |-> c.id]
             I == {f[c] : c \in C}
  <2>1. C \subseteq cards /\ IsFiniteSet(C) /\ f \in [C -> Nat]
    <3>1. C \subseteq cards /\ C \subseteq Card
      BY DEF IInv, TypeOK, CardsIn
    <3>2. IsFiniteSet(C)
      BY <3>1, FS_Subset DEF IInv, CardIds
    <3>3. QED BY <3>1, <3>2 DEF Card
  <2>2. IsFiniteSet(I) /\ I \subseteq Nat
    <3>1. I \subseteq Nat
      BY <2>1
    <3> HIDE DEF f
    <3>2. IsFiniteSet(I)
      BY <2>1, ImageIsFinite
    <3>3. QED BY <3>1, <3>2
  <2>3. I = {c.id : c \in CardsIn(t)}
    OBVIOUS
  <2> HIDE DEF f, I, C
  <2>4. {0} \cup I = I \cup {0} /\ IsFiniteSet(I \cup {0}) /\ {0} \cup I \in SUBSET Nat
    BY <2>2, FS_AddElement
  <2>5. Max({0} \cup I) \in Nat /\ \A n \in {0} \cup I : n <= Max({0} \cup I)
    BY <2>4, MaxIsLargest
  <2>6. NewId(t) = 1 + Max({0} \cup I)
    BY <1>1, <1>3, <2>3 DEF NewId
  <2>7. \A c \in cards : Table(c.by) = t => c.id \in Nat /\ c.id <= Max({0} \cup I)
    BY <2>3, <2>5 DEF CardsIn, IInv, TypeOK, Card
  <2> DEFINE m == Max({0} \cup I)
  <2> HIDE DEF m
  <2>8. NewId(t) = 1 + m /\ m \in Nat /\ \A c \in cards : Table(c.by) = t => c.id \in Nat /\ c.id <= m
    BY <2>5, <2>6, <2>7 DEF m
  <2>9. QED BY <1>3, <2>8
<1>4. QED BY <1>2, <1>3

\* Whatever is held is a card.
LEMMA HeldIsTyped == ASSUME TypeOK PROVE \A c \in Held : c \in Card /\ c.of \in Runs /\ c.by \in Runs
<1>1. \A w \in why : w.card \in Card
  BY DEF TypeOK, Dialog
<1>2. Clicked \subseteq Card
  BY <1>1 DEF Clicked
<1>3. Answered \subseteq Card
  BY DEF TypeOK, Answered
<1>4. Held \subseteq Card
  BY <1>2, <1>3 DEF TypeOK, Held
<1>5. QED BY <1>4 DEF Card

-----------------------------------------------------------------------------
(* Steps that write.                                                       *)

\* The row of a run that has none yet; nobody else's id changes.
LEMMA RowAdded ==
  ASSUME IInv, NEW r \in Runs, NEW l \in {"running", "completed"}, WithRow(r),
         pc[r] \in {"idle", "running"}, pc' = [pc EXCEPT ![r] = l],
         used'["analysis_runs"] = IF pc[r] = "idle" THEN NewId("analysis_runs") ELSE used["analysis_runs"],
         UNCHANGED dialect
  PROVE  /\ present' \subseteq Runs /\ idOf' \in [Runs -> Nat]
         /\ present \subseteq present' /\ present' \subseteq present \cup {r}
         /\ pc[r] = "idle" => r \in present' /\ idOf'[r] > 0
         /\ \A o \in Runs : pc[o] # "idle" =>
              idOf'[o] = idOf[o] /\ (o \in present' \ contended' => o \in present \ contended)
         /\ \A o \in Runs : pc[o] # "idle" /\ o \in present' => o \in present
         /\ contended' \subseteq Runs /\ contended \subseteq contended'
         /\ RunIds' /\ Alone'
<1> USE DEF IInv, TypeOK
<1>1. CASE pc[r] = "idle"
  <2> DEFINE n == NewId("analysis_runs")
  <2>1. /\ present' = present \cup {r} /\ idOf' = [idOf EXCEPT ![r] = n]
        /\ contended' = contended \cup {s \in {r} : \E o \in Runs : pc[o] = "running" /\ idOf[o] = n}
    BY <1>1 DEF WithRow
  <2>2. n \in Nat \ {0} /\ \A o \in present : idOf[o] < n
    BY NewRunId
  <2>3. dialect = "postgres" => n = used["analysis_runs"] + 1
    BY NewRunId
  <2> HIDE DEF n
  <2>4. used'["analysis_runs"] = n
    BY <1>1 DEF n
  <2>5. idOf' \in [Runs -> Nat] /\ idOf'[r] = n /\ \A o \in Runs \ {r} : idOf'[o] = idOf[o]
    BY <2>1, <2>2
  <2>6. r \notin present
    BY <1>1 DEF RunIds
  <2>7. \A o \in present' : pc'[o] # "idle" /\ idOf'[o] > 0
    BY <2>1, <2>2, <2>5 DEF RunIds
  <2>8. \A o, p \in present' : idOf'[o] = idOf'[p] => o = p
    <3> SUFFICES ASSUME NEW o \in present', NEW p \in present', idOf'[o] = idOf'[p], o # p PROVE FALSE
      OBVIOUS
    <3>1. CASE o = r
      <4>1. p \in present /\ idOf'[p] = idOf[p] /\ idOf[p] \in Nat
        BY <2>1, <2>5, <3>1
      <4>2. QED BY <2>2, <2>5, <3>1, <4>1
    <3>2. CASE p = r
      <4>1. o \in present /\ idOf'[o] = idOf[o] /\ idOf[o] \in Nat
        BY <2>1, <2>5, <3>2
      <4>2. QED BY <2>2, <2>5, <3>2, <4>1
    <3>3. CASE o # r /\ p # r
      BY <2>1, <2>5, <3>3 DEF RunIds
    <3>4. QED BY <3>1, <3>2, <3>3
  <2>9. ASSUME dialect = "postgres"
        PROVE  /\ \A o \in Runs : idOf'[o] <= used'["analysis_runs"]
               /\ \A o, p \in Runs : idOf'[o] = idOf'[p] => o = p \/ idOf'[o] = 0
    <3>1. \A o \in Runs : idOf[o] \in Nat /\ idOf[o] < n
      <4>1. used["analysis_runs"] \in Nat
        OBVIOUS
      <4>2. \A o \in Runs : idOf[o] \in Nat /\ idOf[o] <= used["analysis_runs"]
        BY <2>9 DEF RunIds
      <4>3. QED BY <2>3, <2>9, <4>1, <4>2
    <3>2. \A o \in Runs : idOf'[o] <= used'["analysis_runs"]
      <4>1. ASSUME NEW o \in Runs PROVE idOf'[o] <= n
        <5>1. n \in Nat /\ idOf[o] \in Nat /\ idOf[o] < n
          BY <2>2, <3>1
        <5>2. idOf'[o] = n \/ idOf'[o] = idOf[o]
          BY <2>5
        <5>3. QED BY <5>1, <5>2
      <4>2. QED BY <2>4, <4>1
    <3>3. ASSUME NEW o \in Runs, NEW p \in Runs, idOf'[o] = idOf'[p], o # p PROVE idOf'[o] = 0
      BY <2>2, <2>5, <2>9, <3>1, <3>3 DEF RunIds
    <3>4. QED BY <3>2, <3>3
  <2>10. RunIds'
    BY <2>7, <2>8, <2>9 DEF RunIds
  <2>11. contended' \subseteq contended \cup {r} /\ contended \subseteq contended'
         /\ (r \notin contended' => \A o \in Runs : pc[o] = "running" => idOf[o] # n)
    BY <2>1
  <2>12. ASSUME NEW q \in present' \ contended', NEW o \in Runs,
                pc'[o] = "running", idOf'[o] = idOf'[q]
         PROVE  o = q
    <3> SUFFICES ASSUME o # q PROVE FALSE
      OBVIOUS
    <3>1. CASE q = r
      <4>1. pc[o] = "running" /\ idOf[o] = n
        BY <2>5, <2>12, <3>1
      <4>2. QED BY <2>11, <2>12, <3>1, <4>1
    <3>2. CASE q # r /\ o = r
      <4>1. q \in present /\ idOf[q] \in Nat /\ idOf[q] = n
        BY <2>1, <2>5, <2>12, <3>2
      <4>2. QED BY <2>2, <4>1
    <3>3. CASE q # r /\ o # r
      <4>1. q \in present \ contended /\ q \in Runs
        BY <2>1, <2>11, <2>12, <3>3
      <4>2. pc[o] = "running" /\ idOf[o] = idOf[q]
        BY <2>5, <2>12, <3>3, <4>1
      <4>3. QED BY <4>1, <4>2 DEF Alone
    <3>4. QED BY <3>1, <3>2, <3>3
  <2>13. ASSUME dialect = "postgres" PROVE contended' = {}
    <3>1. contended = {}
      BY <2>13 DEF Alone
    <3>2. \A o \in Runs : idOf[o] # n
      <4>1. \A o \in Runs : idOf[o] \in Nat /\ idOf[o] <= used["analysis_runs"]
        BY <2>13 DEF RunIds
      <4>2. used["analysis_runs"] \in Nat
        OBVIOUS
      <4>3. QED BY <2>3, <2>13, <4>1, <4>2
    <3>3. QED BY <2>1, <3>1, <3>2
  <2>14. Alone'
    BY <2>12, <2>13 DEF Alone
  <2>15. \A o \in Runs : pc[o] # "idle" =>
           idOf'[o] = idOf[o] /\ (o \in present' \ contended' => o \in present \ contended)
    BY <1>1, <2>1, <2>5, <2>11
  <2>16. \A o \in Runs : pc[o] # "idle" /\ o \in present' => o \in present
    BY <1>1, <2>1
  <2>17. QED BY <1>1, <2>1, <2>2, <2>5, <2>10, <2>11, <2>14, <2>15, <2>16
<1>2. CASE pc[r] # "idle"
  <2>1. UNCHANGED <<present, idOf, contended>> /\ used'["analysis_runs"] = used["analysis_runs"]
    BY <1>2 DEF WithRow
  <2>2. \A o \in present : pc'[o] # "idle"
    BY DEF RunIds
  <2>3. RunIds'
    BY <2>1, <2>2 DEF RunIds
  <2>4. \A o \in Runs : pc'[o] = "running" => pc[o] = "running"
    BY <1>2
  <2>5. Alone'
    BY <2>1, <2>4 DEF Alone
  <2>6. QED BY <1>2, <2>1, <2>3, <2>5
<1>3. QED BY <1>1, <1>2

\* A run that writes is one whose answer is not out, so that no flow has read it;
\* and a card that is held is not written again.
LEMMA Grows ==
  ASSUME IInv, TypeOK', NEW r \in Runs, NEW l \in {"running", "completed"},
         pc' = [pc EXCEPT ![r] = l], pc[r] \in {"idle", "running"},
         UNCHANGED <<dialect, tab, why>>,
         RunIds', Alone', CardIds',
         \A o \in Runs : pc[o] # "idle" =>
           idOf'[o] = idOf[o] /\ (o \in present' \ contended' => o \in present \ contended),
         \A o \in Runs : pc[o] # "idle" /\ o \in present' => o \in present,
         cards \subseteq cards',
         \A c \in cards' \ cards : c.by = r /\ Holds(c)',
         dialect = "postgres" =>
           /\ \A t \in Tables : used[t] <= used'[t]
           /\ \A c \in cards' \ cards : c.id > used[Table(c.by)]
  PROVE  IInv'
<1> USE ReadsAssumption
<1>1. \A c \in Held : c \in Card /\ c.of \in Runs /\ pc[c.of] # "idle"
  BY HeldIsTyped DEF IInv, Holds
<1>2. ASSUME NEW c \in Held, c \in cards' PROVE c \in cards
  <2>1. c.of \in present'
    BY <1>2 DEF CardIds
  <2>2. c.of \in present
    BY <1>1, <2>1
  <2>3. QED BY <2>2 DEF IInv, Holds
<1>3. Held' = Held \cup cards'
  BY DEF Held, Answered, Clicked, tab
<1>4. ASSUME NEW c \in Held PROVE Holds(c)'
  <2>1. Holds(c) /\ c \in Card /\ c.of \in Runs /\ pc'[c.of] # "idle" /\ idOf'[c.of] = idOf[c.of]
    BY <1>1 DEF IInv, TypeOK
  <2>2. c.of \in present' => c \in cards'
    BY <1>1 DEF IInv, Holds
  <2>3. ASSUME dialect = "postgres"
        PROVE  /\ c.by = c.of /\ c.id <= used'[Table(c.by)]
               /\ \A d \in cards' : Table(d.by) = Table(c.by) /\ d.id = c.id => d = c
    <3>0. c.by = c.of
      BY <2>1, <2>3 DEF Holds
    <3>1. used[Table(c.by)] \in Nat /\ used'[Table(c.by)] \in Nat /\ c.id \in Nat
      <4>1. used \in [Tables -> Nat] /\ used' \in [Tables -> Nat]
        BY DEF IInv, TypeOK, Tables
      <4>2. c.id \in Nat
        BY <2>1 DEF Card
      <4>3. QED BY <4>1, <4>2, TableOf
    <3>2. c.id <= used[Table(c.by)] /\ used[Table(c.by)] <= used'[Table(c.by)]
      BY <2>1, <2>3, TableOf DEF Holds
    <3>3. ASSUME NEW d \in cards', Table(d.by) = Table(c.by), d.id = c.id PROVE d = c
      <4>1. CASE d \in cards
        BY <2>1, <2>3, <3>3, <4>1 DEF Holds
      <4>2. CASE d \notin cards
        BY <2>3, <3>1, <3>2, <3>3, <4>2
      <4>3. QED BY <4>1, <4>2
    <3>4. QED BY <3>0, <3>1, <3>2, <3>3
  <2>4. QED BY <2>1, <2>2, <2>3 DEF Holds
<1>5. \A c \in Held' : Holds(c)'
  BY <1>3, <1>4 DEF Held
<1>6. ASSUME NEW o \in Tab PROVE Flow(o)'
  <2>0. Flow(o) /\ o \in Runs
    BY DEF IInv
  <2>1. CASE o = r
    <3>1. flow[o] \notin {"header", "answered", "received"} /\ answer[o] = {}
      BY <2>0, <2>1 DEF Flow
    <3>2. QED BY <3>1 DEF Flow, tab
  <2>2. CASE o # r
    <3>1. pc'[o] = pc[o] /\ CardsBy(o)' = CardsBy(o)
      BY <2>0, <2>2 DEF IInv, TypeOK, CardsBy
    <3>2. \A c \in answer[o] : idOf'[c.of] = idOf[c.of]
      BY <1>1 DEF Held, Answered
    <3>3. CASE flow[o] \in {"header", "answered", "received"}
      <4>1. /\ idOf'[o] = idOf[o] /\ (o \in present' => o \in present)
            /\ o \in present' \ contended' => o \in present \ contended
        BY <2>0, <3>3 DEF Flow
      <4>2. QED BY <2>0, <3>1, <3>2, <4>1 DEF Flow, tab
    <3>4. CASE flow[o] \notin {"header", "answered", "received"}
      <4>1. answer[o] = {}
        BY <2>0, <3>4 DEF Flow
      <4>2. QED BY <3>4, <4>1 DEF Flow, tab
    <3>5. QED BY <3>3, <3>4
  <2>3. QED BY <2>1, <2>2
<1>7. Screen'
  <2>1. \A o \in Tab : flow[o] = "received" => idOf'[o] = idOf[o]
    BY DEF IInv, Flow
  <2>2. timers \in Seq(Tab) /\ shown \subseteq Tab
    BY DEF IInv, TypeOK
  <2>3. timers # <<>> => Len(timers) \in 1 .. Len(timers) /\ timers[Len(timers)] \in Tab
    BY <2>2
  <2>4. QED BY <2>1, <2>2, <2>3 DEF IInv, Screen, tab
<1>8. ASSUME NEW w \in why PROVE Tells(w)'
  <2>1. w.card \in Held /\ Tells(w)
    <3>1. w.card \in Clicked
      BY DEF Clicked
    <3>2. QED BY <3>1 DEF Held, IInv
  <2>2. idOf'[w.card.of] = idOf[w.card.of]
    BY <1>1, <2>1
  <2>3. w.card \in cards' => w.card \in cards
    BY <1>2, <2>1
  <2>4. QED BY <2>1, <2>2, <2>3 DEF Tells
<1>9. QED BY <1>5, <1>6, <1>7, <1>8 DEF IInv

\* insert_recommendation: the next id of its table, in a run that exists.
LEMMA AddsCard ==
  ASSUME IInv, NEW r \in Runs, AddCard(r), UNCHANGED dialect
  PROVE  IInv'
<1> USE ReadsAssumption
<1> DEFINE t == Table(r)
           id == NewId(t)
           u == "analysis_runs"
<1>0. PICK h \in IF pc[r] = "idle" THEN {r} ELSE RunsWith(idOf[r]) :
        cards' = cards \cup {[of |-> h, by |-> r, id |-> NewId(Table(r))]}
  BY DEF AddCard
<1>00. PICK k : k = [of |-> h, by |-> r, id |-> id]
  OBVIOUS
<1>1. t \in Tables /\ t # u /\ u \in Tables
  BY TableOf DEF Tables
<1>2. /\ pc[r] \in {"idle", "running"}
      /\ WithRow(r) /\ cards' = cards \cup {k} /\ pc' = [pc EXCEPT ![r] = "running"]
      /\ UNCHANGED <<deletes, tab, why>>
  BY <1>0, <1>00 DEF AddCard, Ends
<1>2a. h \in Runs /\ IF pc[r] = "idle" THEN h = r ELSE h \in present /\ idOf[h] = idOf[r]
  BY <1>0 DEF RunsWith, IInv, TypeOK
<1>3. /\ id \in Nat /\ (dialect = "postgres" => id = used[t] + 1)
      /\ \A c \in cards : Table(c.by) = t => c.id < id
  BY NewCardId
<1>4. /\ NewId(u) \in Nat /\ (dialect = "postgres" => NewId(u) = used[u] + 1)
  BY NewRunId
<1>5. used \in [Tables -> Nat]
  BY DEF IInv, TypeOK, Tables
<1>6. used' = [v \in Tables |-> IF v = t \/ (v = u /\ pc[r] = "idle") THEN NewId(v) ELSE used[v]]
  BY <1>5 DEF AddCard
<1> HIDE DEF id, u
<1>7. used' \in [Tables -> Nat] /\ used'[t] = id
  BY <1>1, <1>3, <1>4, <1>5, <1>6 DEF id
<1>8. used'[u] = IF pc[r] = "idle" THEN NewId(u) ELSE used[u]
  BY <1>1, <1>6
<1>9. k \in Card /\ k.of = h /\ k.by = r /\ k.id = id
  BY <1>00, <1>2a, <1>3 DEF Card
<1>10. /\ present' \subseteq Runs /\ idOf' \in [Runs -> Nat]
       /\ present \subseteq present' /\ present' \subseteq present \cup {r}
       /\ pc[r] = "idle" => r \in present' /\ idOf'[r] > 0
       /\ \A o \in Runs : pc[o] # "idle" =>
            idOf'[o] = idOf[o] /\ (o \in present' \ contended' => o \in present \ contended)
       /\ \A o \in Runs : pc[o] # "idle" /\ o \in present' => o \in present
       /\ contended' \subseteq Runs /\ contended \subseteq contended'
       /\ RunIds' /\ Alone'
  BY <1>2, <1>8, RowAdded DEF u
<1>11. pc'[r] = "running" /\ pc' \in [Runs -> {"idle", "running", "completed", "failed"}]
  BY <1>2 DEF IInv, TypeOK
<1>12. TypeOK'
  <2>1. cards' \subseteq Card
    BY <1>2, <1>9 DEF IInv, TypeOK
  <2>2. QED BY <1>2, <1>7, <1>10, <1>11, <2>1 DEF IInv, TypeOK, tab, Tables
<1>13. h \in present' /\ idOf'[h] > 0 /\ idOf'[r] = idOf'[h]
  <2>1. CASE pc[r] = "idle"
    BY <1>2a, <1>10, <2>1
  <2>2. CASE pc[r] # "idle"
    <3>1. h \in present /\ idOf[h] = idOf[r] /\ pc[h] # "idle" /\ idOf[h] > 0
      BY <1>2a, <2>2 DEF IInv, RunIds
    <3>2. QED BY <1>2a, <1>10, <2>2, <3>1
  <2>3. QED BY <2>1, <2>2
<1>13a. h \notin contended' => h = r
  BY <1>11, <1>13, <1>10 DEF Alone
<1>14. CardIds'
  <2>1. IsFiniteSet(cards')
    BY <1>2, FS_AddElement DEF IInv, CardIds
  <2>2. ASSUME NEW c \in cards'
        PROVE  /\ c.of \in present' /\ pc'[c.by] # "idle" /\ idOf'[c.by] = idOf'[c.of]
               /\ c.of \notin contended' => c.by = c.of
    <3>1. CASE c = k
      BY <1>9, <1>11, <1>13, <1>13a, <3>1
    <3>2. CASE c \in cards
      <4>1. c \in Card /\ c.of \in Runs /\ c.by \in Runs
        BY <3>2, HeldIsTyped DEF IInv, Held
      <4>2. /\ c.of \in present /\ pc[c.by] # "idle" /\ idOf[c.by] = idOf[c.of]
            /\ c.of \notin contended => c.by = c.of
        BY <3>2 DEF IInv, CardIds
      <4>3. pc[c.of] # "idle"
        BY <4>2 DEF IInv, RunIds
      <4>4. idOf'[c.of] = idOf[c.of] /\ idOf'[c.by] = idOf[c.by]
        BY <1>10, <4>1, <4>2, <4>3
      <4>5. pc'[c.by] # "idle"
        BY <1>2, <4>1, <4>2 DEF IInv, TypeOK
      <4>6. QED BY <1>10, <4>2, <4>4, <4>5
    <3>3. QED BY <1>2, <3>1, <3>2
  <2>3. ASSUME NEW c \in cards', NEW d \in cards', Table(c.by) = Table(d.by), c.id = d.id PROVE c = d
    <3>0. \A e \in cards : e.id \in Nat
      BY DEF IInv, TypeOK, Card
    <3>1. CASE c \in cards /\ d \in cards
      BY <2>3, <3>1 DEF IInv, CardIds
    <3>2. CASE c = k /\ d \in cards
      BY <1>3, <1>9, <2>3, <3>0, <3>2
    <3>3. CASE d = k /\ c \in cards
      BY <1>3, <1>9, <2>3, <3>0, <3>3
    <3>4. QED BY <1>2, <3>1, <3>2, <3>3
  <2>4. QED BY <2>1, <2>2, <2>3 DEF CardIds
<1>15. k.id <= used'[Table(k.by)] /\ pc'[k.of] # "idle" /\ idOf'[k.of] > 0 /\ k \in cards'
  <2>1. pc'[h] # "idle"
    BY <1>10, <1>13 DEF RunIds
  <2>2. QED BY <1>2, <1>3, <1>7, <1>9, <1>13, <2>1
<1>15a. dialect = "postgres" => k.by = k.of
  BY <1>9, <1>10, <1>13a DEF Alone
<1>16. Holds(k)'
  BY <1>14, <1>15, <1>15a DEF Holds, CardIds
<1>17. dialect = "postgres" => \A v \in Tables : used[v] <= used'[v]
  <2> SUFFICES ASSUME dialect = "postgres", NEW v \in Tables PROVE used[v] <= used'[v]
    OBVIOUS
  <2>1. used[v] \in Nat
    BY <1>5
  <2>2. CASE v = t
    BY <1>3, <1>7, <2>1, <2>2
  <2>3. CASE v = u /\ pc[r] = "idle"
    BY <1>1, <1>4, <1>8, <2>1, <2>3
  <2>4. CASE v # t /\ ~(v = u /\ pc[r] = "idle")
    BY <1>6, <2>1, <2>4
  <2>5. QED BY <2>2, <2>3, <2>4
<1>18. dialect = "postgres" => k.id > used[Table(k.by)]
  BY <1>1, <1>3, <1>5, <1>9
<1>19. \A c \in cards' \ cards : c = k
  BY <1>2
<1>20. \A c \in cards' \ cards : c.by = r /\ Holds(c)'
  BY <1>9, <1>16, <1>19
<1>20a. dialect = "postgres" => \A c \in cards' \ cards : c.id > used[Table(c.by)]
  BY <1>18, <1>19
<1>21. QED BY <1>2, <1>10, <1>12, <1>14, <1>17, <1>20, <1>20a, Grows

\* finish_analysis_run: a row at most, no card.
LEMMA FinishesRun ==
  ASSUME IInv, NEW r \in Runs, Finish(r), UNCHANGED dialect
  PROVE  IInv'
<1> USE ReadsAssumption
<1> DEFINE u == "analysis_runs"
<1>1. /\ pc[r] \in {"idle", "running"} /\ WithRow(r) /\ pc' = [pc EXCEPT ![r] = "completed"]
      /\ used' = [used EXCEPT ![u] = IF pc[r] = "idle" THEN NewId(u) ELSE @]
      /\ UNCHANGED <<cards, deletes, tab, why>>
  BY DEF Finish, Ends
<1>2. used \in [Tables -> Nat] /\ u \in Tables
  BY DEF IInv, TypeOK, Tables
<1>3. NewId(u) \in Nat /\ (dialect = "postgres" => NewId(u) = used[u] + 1)
  BY NewRunId
<1> HIDE DEF u
<1>4. used' \in [Tables -> Nat] /\ used'[u] = IF pc[r] = "idle" THEN NewId(u) ELSE used[u]
  BY <1>1, <1>2, <1>3
<1>5. dialect = "postgres" => \A v \in Tables : used[v] <= used'[v]
  <2> SUFFICES ASSUME dialect = "postgres", NEW v \in Tables PROVE used[v] <= used'[v]
    OBVIOUS
  <2>1. used[v] \in Nat
    BY <1>2
  <2>2. CASE v = u
    BY <1>2, <1>3, <1>4, <2>1, <2>2
  <2>3. CASE v # u
    BY <1>1, <1>2, <2>1, <2>3
  <2>4. QED BY <2>2, <2>3
<1>6. /\ present' \subseteq Runs /\ idOf' \in [Runs -> Nat]
      /\ present \subseteq present'
      /\ \A o \in Runs : pc[o] # "idle" =>
           idOf'[o] = idOf[o] /\ (o \in present' \ contended' => o \in present \ contended)
      /\ \A o \in Runs : pc[o] # "idle" /\ o \in present' => o \in present
      /\ contended' \subseteq Runs /\ contended \subseteq contended'
      /\ RunIds' /\ Alone'
  BY <1>1, <1>4, RowAdded DEF u
<1>7. pc' \in [Runs -> {"idle", "running", "completed", "failed"}]
  BY <1>1 DEF IInv, TypeOK
<1>8. TypeOK'
  BY <1>1, <1>4, <1>6, <1>7 DEF IInv, TypeOK, tab, Tables
<1>9. CardIds'
  <2>1. ASSUME NEW c \in cards
        PROVE  /\ c.of \in present' /\ pc'[c.by] # "idle" /\ idOf'[c.by] = idOf'[c.of]
               /\ c.of \notin contended' => c.by = c.of
    <3>1. c \in Card /\ c.of \in Runs /\ c.by \in Runs
      BY <2>1, HeldIsTyped DEF IInv, Held
    <3>2. /\ c.of \in present /\ pc[c.by] # "idle" /\ idOf[c.by] = idOf[c.of]
          /\ c.of \notin contended => c.by = c.of
      BY <2>1 DEF IInv, CardIds
    <3>3. pc[c.of] # "idle"
      BY <3>2 DEF IInv, RunIds
    <3>4. pc'[c.by] # "idle"
      BY <1>1, <3>1, <3>2 DEF IInv, TypeOK
    <3>5. QED BY <1>6, <3>1, <3>2, <3>3, <3>4
  <2>2. QED BY <1>1, <2>1 DEF IInv, CardIds
<1>10. cards \subseteq cards' /\ cards' \ cards = {}
  BY <1>1
<1>11. QED BY <1>1, <1>5, <1>6, <1>8, <1>9, <1>10, Grows

\* A failure leaves what was written; nobody reads the run.
LEMMA FailsRun ==
  ASSUME IInv, NEW r \in Runs, Fail(r), UNCHANGED dialect
  PROVE  IInv'
<1> USE ReadsAssumption
<1>1. pc[r] \in {"idle", "running"} /\ pc' = [pc EXCEPT ![r] = "failed"] /\ UNCHANGED <<db, tab, why>>
  BY DEF Fail, Ends
<1>2. pc' \in [Runs -> {"idle", "running", "completed", "failed"}] /\ pc'[r] = "failed"
      /\ \A o \in Runs \ {r} : pc'[o] = pc[o]
  BY <1>1 DEF IInv, TypeOK
<1>3. TypeOK'
  BY <1>1, <1>2 DEF IInv, TypeOK, db, tab
<1>4. \A o \in Runs : pc[o] # "idle" => pc'[o] # "idle"
  BY <1>2
<1>5. RunIds' /\ CardIds' /\ Alone'
  <2>1. RunIds'
    BY <1>1, <1>4 DEF IInv, TypeOK, RunIds, db
  <2>2. \A c \in cards : c.by \in Runs
    BY HeldIsTyped DEF IInv, Held
  <2>3. CardIds'
    BY <1>1, <1>4, <2>2 DEF IInv, CardIds, db
  <2>4. \A o \in Runs : pc'[o] = "running" => pc[o] = "running"
    BY <1>2
  <2>5. Alone'
    BY <1>1, <2>4 DEF IInv, Alone, db
  <2>6. QED BY <2>1, <2>3, <2>5
<1>6. \A c \in Held' : Holds(c)'
  <2>1. Held' = Held
    BY <1>1 DEF Held, Answered, Clicked, db, tab
  <2>2. \A c \in Held : c.of \in Runs
    BY HeldIsTyped DEF IInv
  <2>3. QED BY <1>1, <1>4, <2>1, <2>2 DEF IInv, Holds, db
<1>7. ASSUME NEW o \in Tab PROVE Flow(o)'
  <2>0. Flow(o) /\ o \in Runs
    BY DEF IInv
  <2>1. pc[o] = "completed" => pc'[o] = "completed"
    BY <1>1, <1>2, <2>0
  <2>2. CardsBy(o)' = CardsBy(o)
    BY <1>1 DEF CardsBy, db
  <2>3. QED BY <1>1, <2>0, <2>1, <2>2 DEF Flow, db, tab
<1>8. Screen'
  BY <1>1 DEF IInv, Screen, db, tab
<1>9. \A w \in why' : Tells(w)'
  BY <1>1 DEF IInv, Tells, db
<1>10. QED BY <1>3, <1>5, <1>6, <1>7, <1>8, <1>9 DEF IInv

\* What is held of a deleted run stays what it was; its row has no card any more.
LEMMA Deletes ==
  ASSUME IInv, DeleteCluster, UNCHANGED dialect
  PROVE  IInv'
<1> USE ReadsAssumption
<1>1. PICK S \in SUBSET present :
        present' = present \ S /\ cards' = {c \in cards : c.of \notin S}
  BY DEF DeleteCluster
<1>2. /\ present' \subseteq present /\ cards' \subseteq cards
      /\ \A c \in cards : c \in cards' <=> c.of \in present'
      /\ UNCHANGED <<idOf, contended, used, pc, tab, why>> /\ deletes' \in 0 .. MaxDeletes
  <2>1. deletes' \in 0 .. MaxDeletes
    BY DEF DeleteCluster, IInv, TypeOK
  <2>2. \A c \in cards : c.of \in present
    BY DEF IInv, CardIds
  <2>3. QED BY <1>1, <2>1, <2>2 DEF DeleteCluster
<1>3. TypeOK'
  BY <1>2 DEF IInv, TypeOK, tab
<1>4. RunIds' /\ Alone'
  BY <1>2 DEF IInv, RunIds, Alone
<1>5. CardIds'
  <2>1. IsFiniteSet(cards')
    BY <1>2, FS_Subset DEF IInv, CardIds
  <2>2. QED BY <1>2, <2>1 DEF IInv, CardIds
<1>6. \A c \in Held' : Holds(c)'
  <2>1. Held' \subseteq Held
    BY <1>2 DEF Held, Answered, Clicked, tab
  <2>2. \A c \in Held : c.of \in present' => c \in cards'
    BY <1>2 DEF IInv, Holds
  <2>3. QED BY <1>2, <2>1, <2>2 DEF IInv, Holds
<1>7. ASSUME NEW r \in Tab PROVE Flow(r)'
  <2>1. ASSUME r \in present' \ contended' PROVE CardsBy(r)' = CardsBy(r)
    <3>1. r \in present
      BY <1>2, <2>1
    <3>2. \A c \in cards : c.by = r => c.of = r
      BY <3>1 DEF IInv, CardIds, RunIds
    <3>3. QED BY <1>2, <2>1, <3>2 DEF CardsBy
  <2>2. QED BY <1>2, <2>1 DEF IInv, Flow, tab
<1>8. Screen'
  BY <1>2 DEF IInv, Screen, tab
<1>9. \A w \in why' : Tells(w)'
  BY <1>2 DEF IInv, Tells
<1>10. QED BY <1>3, <1>4, <1>5, <1>6, <1>7, <1>8, <1>9 DEF IInv

-----------------------------------------------------------------------------
(* Steps of the flows.                                                     *)

\* A flow's step writes nothing and has only cards that were read before.
LEMMA Shows ==
  ASSUME IInv, TypeOK', UNCHANGED <<dialect, db, pc, why>>, Answered' \subseteq Held,
         \A r \in Tab : Flow(r)', Screen'
  PROVE  IInv'
<1>1. RunIds' /\ Alone' /\ CardIds'
  BY DEF IInv, RunIds, Alone, CardIds, db
<1>2. \A c \in Held' : Holds(c)'
  <2>1. Held' \subseteq Held
    BY DEF Held, Clicked, db
  <2>2. QED BY <2>1 DEF IInv, Holds, db
<1>3. \A w \in why' : Tells(w)'
  BY DEF IInv, Tells, db
<1>4. QED BY <1>1, <1>2, <1>3 DEF IInv

\* The run that has the id is the flow's, if that one exists.
LEMMA ReadsHeader ==
  ASSUME IInv, NEW r \in Tab, ReadHeader(r), UNCHANGED dialect
  PROVE  IInv'
<1> USE ReadsAssumption
<1> DEFINE l == IF RunsWith(idOf[r]) = {} THEN "stopped" ELSE "header"
<1>1. /\ pc[r] = "completed" /\ flow[r] = "waiting" /\ flow' = [flow EXCEPT ![r] = l]
      /\ head' = [head EXCEPT ![r] = RunsWith(idOf[r])]
      /\ UNCHANGED <<db, pc, answer, lastRun, timers, shown, why>>
  BY DEF ReadHeader, Goes
<1>2. l \in {"stopped", "header"}
  OBVIOUS
<1> HIDE DEF l
<1>3. flow'[r] = l /\ head'[r] = RunsWith(idOf[r])
      /\ \A o \in Tab \ {r} : flow'[o] = flow[o] /\ head'[o] = head[o]
  BY <1>1 DEF IInv, TypeOK
<1>4. RunsWith(idOf[r]) \subseteq Runs
  BY DEF RunsWith, IInv, TypeOK
<1>5. flow' \in [Tab -> {"waiting", "stopped", "header", "answered", "received"}]
      /\ head' \in [Tab -> SUBSET Runs]
  BY <1>1, <1>2, <1>4 DEF IInv, TypeOK
<1>6. TypeOK'
  BY <1>1, <1>5 DEF IInv, TypeOK, db
<1>7. r \in present => RunsWith(idOf[r]) = {r}
  BY DEF IInv, RunIds, RunsWith
<1>8. answer[r] = {}
  BY <1>1 DEF IInv, Flow
<1>9. ASSUME NEW o \in Tab PROVE Flow(o)'
  <2>1. CASE o = r
    BY <1>1, <1>2, <1>3, <1>7, <1>8, <2>1 DEF Flow, db
  <2>2. CASE o # r
    <3>1. Flow(o) /\ CardsBy(o)' = CardsBy(o)
      BY <1>1 DEF IInv, CardsBy, db
    <3>2. QED BY <1>1, <1>3, <2>2, <3>1 DEF Flow, db
  <2>3. QED BY <2>1, <2>2
<1>10. Screen'
  <2>1. \A o \in Tab : flow[o] = "received" => flow'[o] = "received"
    BY <1>1, <1>3
  <2>2. timers \in Seq(Tab) /\ shown \subseteq Tab
    BY DEF IInv, TypeOK
  <2>3. QED BY <1>1, <2>1, <2>2 DEF IInv, Screen, db
<1>11. Answered' \subseteq Held
  BY <1>1 DEF Answered, Held
<1>12. QED BY <1>1, <1>6, <1>9, <1>10, <1>11, Shows

\* The run's cards, all written by then: its answer was given after the last one.
LEMMA ReadsCards ==
  ASSUME IInv, NEW r \in Tab, ReadCards(r), UNCHANGED dialect
  PROVE  IInv'
<1> USE ReadsAssumption
<1>0. PICK o \in head[r] :
        answer' = [answer EXCEPT ![r] = {c \in CardsIn(Table(o)) : idOf[c.of] = idOf[r]}]
  BY DEF ReadCards
<1> DEFINE A == {c \in CardsIn(Table(o)) : idOf[c.of] = idOf[r]}
<1>1. /\ flow[r] = "header" /\ flow' = [flow EXCEPT ![r] = "answered"]
      /\ answer' = [answer EXCEPT ![r] = A]
      /\ UNCHANGED <<db, pc, head, lastRun, timers, shown, why>>
  BY <1>0 DEF ReadCards, Goes
<1>2. A \subseteq cards /\ A \subseteq Card /\ \A c \in A : idOf[c.of] = idOf[r]
  BY DEF CardsIn, IInv, TypeOK
<1>3. r \in present \ contended => A = CardsBy(r)
  <2> SUFFICES ASSUME r \in present \ contended PROVE A = CardsBy(r)
    OBVIOUS
  <2>1. o = r
    BY <1>0, <1>1 DEF IInv, Flow
  <2>2. \A c \in cards : idOf[c.of] = idOf[r] <=> c.by = r
    <3> SUFFICES ASSUME NEW c \in cards PROVE idOf[c.of] = idOf[r] <=> c.by = r
      OBVIOUS
    <3>1. /\ c.of \in present /\ idOf[c.by] = idOf[c.of]
          /\ c.of \notin contended => c.by = c.of
      BY DEF IInv, CardIds
    <3>2. idOf[c.of] = idOf[r] => c.of = r
      BY <3>1 DEF IInv, RunIds
    <3>3. QED BY <3>1, <3>2
  <2>3. QED BY <2>1, <2>2 DEF CardsIn, CardsBy
<1> HIDE DEF A
<1>4. flow'[r] = "answered" /\ answer'[r] = A
      /\ \A p \in Tab \ {r} : flow'[p] = flow[p] /\ answer'[p] = answer[p]
  BY <1>1 DEF IInv, TypeOK
<1>5. flow' \in [Tab -> {"waiting", "stopped", "header", "answered", "received"}]
      /\ answer' \in [Tab -> SUBSET Card]
  BY <1>1, <1>2 DEF IInv, TypeOK
<1>6. TypeOK'
  BY <1>1, <1>5 DEF IInv, TypeOK, db
<1>7. ASSUME NEW p \in Tab PROVE Flow(p)'
  <2>0. Flow(p) /\ CardsBy(p)' = CardsBy(p)
    BY <1>1 DEF IInv, CardsBy, db
  <2>1. CASE p = r
    BY <1>1, <1>2, <1>3, <1>4, <2>0, <2>1 DEF Flow, db
  <2>2. CASE p # r
    BY <1>1, <1>4, <2>0, <2>2 DEF Flow, db
  <2>3. QED BY <2>1, <2>2
<1>8. Screen'
  <2>1. \A p \in Tab : flow[p] = "received" => flow'[p] = "received"
    BY <1>1, <1>4
  <2>2. timers \in Seq(Tab) /\ shown \subseteq Tab
    BY DEF IInv, TypeOK
  <2>3. QED BY <1>1, <2>1, <2>2 DEF IInv, Screen, db
<1>9. Answered' \subseteq Held
  <2>1. \A p \in Tab : answer'[p] \subseteq Held
    BY <1>2, <1>4 DEF Held, Answered
  <2>2. QED BY <2>1 DEF Answered
<1>10. QED BY <1>1, <1>6, <1>7, <1>8, <1>9, Shows

\* The last answer that arrived is the last to be rendered, and lastRun is its run's.
LEMMA Receives ==
  ASSUME IInv, NEW r \in Tab, Receive(r), UNCHANGED dialect
  PROVE  IInv'
<1> USE ReadsAssumption
<1>1. /\ flow[r] = "answered" /\ flow' = [flow EXCEPT ![r] = "received"]
      /\ lastRun' = idOf[r] /\ timers' = Append(timers, r)
      /\ UNCHANGED <<db, pc, head, answer, shown, why>>
  BY DEF Receive, Goes
<1>2. flow'[r] = "received" /\ \A o \in Tab \ {r} : flow'[o] = flow[o]
      /\ flow' \in [Tab -> {"waiting", "stopped", "header", "answered", "received"}]
  BY <1>1 DEF IInv, TypeOK
<1>3. timers \in Seq(Tab) /\ timers' \in Seq(Tab) /\ Len(timers') = Len(timers) + 1
      /\ timers'[Len(timers')] = r /\ timers' # <<>>
      /\ \A i \in 1 .. Len(timers) : timers'[i] = timers[i]
  BY <1>1 DEF IInv, TypeOK
<1>4. TypeOK'
  BY <1>1, <1>2, <1>3 DEF IInv, TypeOK, db
<1>5. ASSUME NEW p \in Tab PROVE Flow(p)'
  <2>0. Flow(p) /\ CardsBy(p)' = CardsBy(p)
    BY <1>1 DEF IInv, CardsBy, db
  <2>1. CASE p = r
    BY <1>1, <1>2, <2>0, <2>1 DEF Flow, db
  <2>2. CASE p # r
    BY <1>1, <1>2, <2>0, <2>2 DEF Flow, db
  <2>3. QED BY <2>1, <2>2
<1>6. \A p \in Tab : flow[p] = "received" => flow'[p] = "received"
  BY <1>1, <1>2
<1>7. Screen'
  <2>1. ASSUME NEW i \in 1 .. Len(timers') PROVE flow'[timers'[i]] = "received"
    <3>1. CASE i = Len(timers')
      BY <1>2, <1>3, <3>1
    <3>2. CASE i # Len(timers')
      <4>1. i \in 1 .. Len(timers) /\ Len(timers) \in Nat
        BY <1>3, <3>2
      <4>2. timers'[i] = timers[i] /\ timers[i] \in Tab /\ flow[timers[i]] = "received"
        BY <1>3, <4>1 DEF IInv, Screen
      <4>3. QED BY <1>6, <4>2
    <3>3. QED BY <3>1, <3>2
  <2>2. \A p \in shown' : flow'[p] = "received"
    BY <1>1, <1>6 DEF IInv, TypeOK, Screen
  <2>3. QED BY <1>1, <1>3, <2>1, <2>2 DEF Screen, db
<1>8. Answered' \subseteq Held
  BY <1>1 DEF Answered, Held
<1>9. QED BY <1>1, <1>4, <1>5, <1>7, <1>8, Shows

\* The timer that fires is the oldest; when it was the only one, it was the last.
LEMMA Renders ==
  ASSUME IInv, Render, UNCHANGED dialect
  PROVE  IInv'
<1> USE ReadsAssumption
<1>1. /\ timers # <<>> /\ shown' = {timers[1]} /\ timers' = Tail(timers)
      /\ UNCHANGED <<db, pc, flow, head, answer, lastRun, why>>
  BY DEF Render
<1>2. timers \in Seq(Tab) /\ Len(timers) \in Nat \ {0}
  BY <1>1 DEF IInv, TypeOK
<1>3. timers' \in Seq(Tab) /\ Len(timers') = Len(timers) - 1
      /\ \A i \in 1 .. Len(timers') : timers'[i] = timers[i + 1]
  BY <1>1, <1>2
<1>4. timers[1] \in Tab /\ flow[timers[1]] = "received"
  BY <1>2 DEF IInv, Screen
<1>5. TypeOK'
  BY <1>1, <1>3, <1>4 DEF IInv, TypeOK, db
<1>6. \A r \in Tab : Flow(r)'
  <2>1. \A r \in Tab : CardsBy(r)' = CardsBy(r)
    BY <1>1 DEF CardsBy, db
  <2>2. QED BY <1>1, <2>1 DEF IInv, Flow, db
<1>7. Screen'
  <2>1. \A i \in 1 .. Len(timers') : flow'[timers'[i]] = "received"
    <3> SUFFICES ASSUME NEW i \in 1 .. Len(timers') PROVE flow'[timers'[i]] = "received"
      OBVIOUS
    <3>1. i + 1 \in 1 .. Len(timers) /\ timers'[i] = timers[i + 1]
      BY <1>2, <1>3
    <3>2. QED BY <1>1, <3>1 DEF IInv, Screen
  <2>2. \A p \in shown' : flow'[p] = "received"
    BY <1>1, <1>4
  <2>3. lastRun = idOf[timers[Len(timers)]]
    BY <1>1 DEF IInv, Screen
  <2>4. timers' # <<>> => lastRun' = idOf'[timers'[Len(timers')]]
    <3> SUFFICES ASSUME timers' # <<>> PROVE lastRun' = idOf'[timers'[Len(timers')]]
      OBVIOUS
    <3>1. Len(timers') \in 1 .. Len(timers')
      BY <1>2, <1>3
    <3>2. timers'[Len(timers')] = timers[Len(timers)]
      BY <1>2, <1>3, <3>1
    <3>3. QED BY <1>1, <2>3, <3>2 DEF db
  <2>5. timers' = <<>> => \A p \in shown' : lastRun' = idOf'[p]
    <3> SUFFICES ASSUME timers' = <<>> PROVE lastRun = idOf[timers[1]]
      BY <1>1 DEF db
    <3>1. Len(timers) = 1
      BY <1>2, <1>3
    <3>2. QED BY <2>3, <3>1
  <2>6. QED BY <2>1, <2>2, <2>4, <2>5 DEF Screen
<1>8. Answered' \subseteq Held
  BY <1>1 DEF Answered, Held
<1>9. QED BY <1>1, <1>5, <1>6, <1>7, <1>8, Shows

-----------------------------------------------------------------------------
(* Steps of the dialogs.                                                   *)

\* A dialog's step writes nothing, and its card was on a screen.
LEMMA Looks ==
  ASSUME IInv, UNCHANGED <<dialect, db, pc, tab>>,
         \A w \in why' : w \in Dialog /\ w.card \in Held /\ Tells(w)'
  PROVE  IInv'
<1>1. TypeOK'
  BY DEF IInv, TypeOK, db, tab
<1>2. RunIds' /\ Alone' /\ CardIds'
  BY DEF IInv, RunIds, Alone, CardIds, db
<1>3. \A c \in Held' : Holds(c)'
  <2>1. Clicked' \subseteq Held
    BY DEF Clicked
  <2>2. Held' \subseteq Held
    BY <2>1 DEF Held, Answered, db, tab
  <2>3. QED BY <2>2 DEF IInv, Holds, db
<1>4. \A r \in Tab : Flow(r)'
  <2>1. \A r \in Tab : CardsBy(r)' = CardsBy(r)
    BY DEF CardsBy, db
  <2>2. QED BY <2>1 DEF IInv, Flow, db, tab
<1>5. Screen'
  BY DEF IInv, Screen, db, tab
<1>6. QED BY <1>1, <1>2, <1>3, <1>4, <1>5 DEF IInv

\* A dialog goes on as another, or not at all; the others are as they were.
LEMMA Continues ==
  ASSUME IInv, NEW w \in why, NEW V, Continue(w, V), UNCHANGED dialect,
         \A v \in V : v \in Dialog /\ v.card \in Held /\ Tells(v)'
  PROVE  IInv'
<1>1. why' = (why \ {w}) \cup V /\ UNCHANGED <<db, pc, tab>>
  BY DEF Continue
<1>2. ASSUME NEW v \in why PROVE v \in Dialog /\ v.card \in Held /\ Tells(v)'
  <2>1. v \in Dialog /\ v.card \in Clicked /\ Tells(v)
    BY DEF IInv, TypeOK, Clicked
  <2>2. Tells(v)'
    BY <1>1, <2>1 DEF Tells, db
  <2>3. QED BY <2>1, <2>2 DEF Held
<1>3. \A v \in why' : v \in Dialog /\ v.card \in Held /\ Tells(v)'
  BY <1>1, <1>2
<1>4. QED BY <1>1, <1>3, Looks

\* The click takes lastRun, the run of the card if nothing waits to be rendered.
LEMMA Clicks ==
  ASSUME IInv, NEW c \in UNION {answer[r] : r \in shown}, Click(c), UNCHANGED dialect
  PROVE  IInv'
<1>0. PICK w : w = [card |-> c, run |-> lastRun, calm |-> timers = <<>>, step |-> "run",
                    table |-> Table(c.by), rec |-> {}, first |-> {}, second |-> {}]
  OBVIOUS
<1>1. why' = Pending \cup {w} /\ UNCHANGED <<db, pc, tab>>
  BY <1>0 DEF Click
<1>2. PICK r \in shown : c \in answer[r]
  BY DEF Click
<1>3. r \in Tab /\ c \in Held /\ c \in Card /\ lastRun \in Nat
  BY <1>2, HeldIsTyped DEF IInv, TypeOK, Held, Answered
<1>4. idOf[c.of] = idOf[r]
  BY <1>2, <1>3 DEF IInv, Flow
<1>5. Table(c.by) \in {"recommendations", "maintenance_results"}
  BY DEF Table
<1>6. w \in Dialog
  BY <1>0, <1>3, <1>5 DEF Dialog
<1>7. w.card = c /\ w.run = lastRun /\ w.step = "run" /\ (w.calm => timers = <<>>)
  BY <1>0
<1>8. timers = <<>> => lastRun = idOf[r]
  BY <1>2 DEF IInv, Screen
<1>9. Tells(w)'
  BY <1>1, <1>4, <1>7, <1>8 DEF Tells, db
<1>10. ASSUME NEW v \in Pending PROVE v \in Dialog /\ v.card \in Held /\ Tells(v)'
  <2>1. v \in Dialog /\ v.card \in Clicked /\ Tells(v)
    BY DEF IInv, TypeOK, Clicked, Pending
  <2>2. Tells(v)'
    BY <1>1, <2>1 DEF Tells, db
  <2>3. QED BY <2>1, <2>2 DEF Held
<1>11. \A v \in why' : v \in Dialog /\ v.card \in Held /\ Tells(v)'
  BY <1>1, <1>3, <1>6, <1>7, <1>9, <1>10
<1>12. QED BY <1>1, <1>11, Looks

\* What a dialog that is asked for is about.
LEMMA AboutClicked ==
  ASSUME IInv, NEW w \in why
  PROVE  /\ w \in Dialog /\ w.card \in Held /\ w.card \in Card /\ w.card.of \in Runs
         /\ Tells(w) /\ Holds(w.card)
<1>1. w \in Dialog /\ w.card \in Clicked /\ Tells(w)
  BY DEF IInv, TypeOK, Clicked
<1>2. w.card \in Held
  BY <1>1 DEF Held
<1>3. QED BY <1>1, <1>2, HeldIsTyped DEF IInv

\* The run found by its id is of the card's type, as far as the card or Postgres vouches for it.
LEMMA RunFound ==
  ASSUME IInv, NEW w \in why, NEW o \in RunsWith(w.run), w.calm,
         dialect = "postgres" \/ (w.card \in cards /\ Placed(w.card))
  PROVE  Table(o) = Table(w.card.by)
<1>1. w.card \in Card /\ w.card.of \in Runs /\ Tells(w) /\ Holds(w.card)
  BY AboutClicked
<1>2. o \in present /\ o \in Runs /\ idOf[o] = w.run
  BY DEF RunsWith, IInv, TypeOK
<1>3. w.run = idOf[w.card.of]
  BY <1>1 DEF Tells
<1>4. CASE w.card \in cards /\ Placed(w.card)
  <2>1. w.card.of \in present
    BY <1>4 DEF IInv, CardIds
  <2>2. o = w.card.of
    BY <1>2, <1>3, <2>1 DEF IInv, RunIds
  <2>3. QED BY <1>4, <2>2 DEF Placed
<1>5. CASE dialect = "postgres"
  <2>1. idOf[w.card.of] > 0
    BY <1>1 DEF Holds
  <2>2. idOf[w.card.of] # 0
    BY <2>1
  <2>3. o = w.card.of
    BY <1>1, <1>2, <1>3, <1>5, <2>2 DEF IInv, RunIds
  <2>4. QED BY <1>1, <1>5, <2>3 DEF Holds
<1>6. QED BY <1>4, <1>5

\* So a dialog goes on in the card's table.
LEMMA LooksUpRun ==
  ASSUME IInv, NEW w \in why, WhyRun(w), UNCHANGED dialect
  PROVE  IInv'
<1> USE ReadsAssumption
<1> DEFINE V == {[w EXCEPT !.step = "rec", !.table = Table(o)] : o \in RunsWith(w.run)}
<1>1. w.step = "run" /\ Continue(w, V) /\ UNCHANGED <<db, pc, tab>>
  BY DEF WhyRun, Continue
<1>2. /\ w \in Dialog /\ w.card \in Held /\ w.card \in Card /\ w.card.of \in Runs
      /\ Tells(w) /\ Holds(w.card)
  BY AboutClicked
<1>4. ASSUME NEW v \in V PROVE v \in Dialog /\ v.card \in Held /\ Tells(v)'
  <2>1. PICK o \in RunsWith(w.run) : v = [w EXCEPT !.step = "rec", !.table = Table(o)]
    OBVIOUS
  <2>2. Table(o) \in {"recommendations", "maintenance_results"}
    BY DEF Table
  <2>3. v \in Dialog /\ v.card = w.card /\ v.run = w.run /\ v.calm = w.calm /\ v.step = "rec" /\ v.table = Table(o)
    BY <1>2, <2>1, <2>2 DEF Dialog
  <2>5. w.calm /\ (dialect = "postgres" \/ (w.card \in cards /\ Placed(w.card))) =>
          Table(o) = Table(w.card.by)
    BY RunFound
  <2>7. Tells(v)'
    BY <1>1, <1>2, <2>3, <2>5 DEF Tells, db
  <2>8. QED BY <1>2, <2>3, <2>7
<1> HIDE DEF V
<1>5. QED BY <1>1, <1>4, Continues

\* The cards with the clicked one's id, in its table, are that one.
LEMMA AskedIsClicked ==
  ASSUME IInv, NEW w \in why, w.table = Table(w.card.by)
  PROVE  /\ dialect = "postgres" => Asked(w) \subseteq {w.card}
         /\ w.card \in cards => Asked(w) = {w.card}
<1>1. \A c \in Asked(w) : c \in cards /\ Table(c.by) = Table(w.card.by) /\ c.id = w.card.id
  BY DEF Asked, CardsIn
<1>2. Holds(w.card)
  BY AboutClicked
<1>3. dialect = "postgres" => Asked(w) \subseteq {w.card}
  BY <1>1, <1>2 DEF Holds
<1>4. ASSUME w.card \in cards PROVE Asked(w) = {w.card}
  <2>1. \A c \in Asked(w) : c = w.card
    BY <1>1, <1>4 DEF IInv, CardIds
  <2>2. w.card \in Asked(w)
    BY <1>4 DEF Asked, CardsIn
  <2>3. QED BY <2>1, <2>2
<1>5. QED BY <1>3, <1>4

\* What is asked for are cards.
LEMMA AskedIsTyped == ASSUME IInv, NEW w PROVE Asked(w) \subseteq Card
BY DEF IInv, TypeOK, Asked, CardsIn

\* The card found by its id is the one that was clicked.
LEMMA LooksUpCard ==
  ASSUME IInv, NEW w \in why, WhyRec(w), UNCHANGED dialect
  PROVE  IInv'
<1> USE ReadsAssumption
<1> DEFINE C == {d \in Asked(w) : w.table = "maintenance_results" => idOf[d.of] = w.run}
           V == {[w EXCEPT !.step = "first", !.rec = {c}] : c \in C}
<1>1. w.step = "rec" /\ Continue(w, V) /\ UNCHANGED <<db, pc, tab>>
  BY DEF WhyRec, Continue
<1>2. w \in Dialog /\ w.card \in Held /\ Tells(w)
  BY AboutClicked
<1>4. ASSUME NEW v \in V PROVE v \in Dialog /\ v.card \in Held /\ Tells(v)'
  <2>1. PICK c \in C : v = [w EXCEPT !.step = "first", !.rec = {c}]
    OBVIOUS
  <2>2. c \in Asked(w) /\ c \in Card
    BY AskedIsTyped
  <2>3. v \in Dialog /\ v.card = w.card /\ v.run = w.run /\ v.calm = w.calm /\ v.step = "first"
        /\ v.table = w.table /\ v.rec = {c}
    BY <1>2, <2>1, <2>2 DEF Dialog
  <2>4. ASSUME w.calm, dialect = "postgres" \/ (w.card \in cards /\ Placed(w.card))
        PROVE  w.table = Table(w.card.by) /\ c = w.card
    <3>1. w.table = Table(w.card.by)
      BY <1>1, <1>2, <2>4 DEF Tells
    <3>2. Asked(w) \subseteq {w.card}
      BY <2>4, <3>1, AskedIsClicked
    <3>3. QED BY <2>2, <3>1, <3>2
  <2>5. Tells(v)'
    BY <1>1, <1>2, <2>3, <2>4 DEF Tells, db
  <2>6. QED BY <1>2, <2>3, <2>5
<1> HIDE DEF V
<1>5. QED BY <1>1, <1>4, Continues

\* So is its evidence, if it still exists.
LEMMA LooksUpFirst ==
  ASSUME IInv, NEW w \in why, WhyFirst(w), UNCHANGED dialect
  PROVE  IInv'
<1>1. PICK v : v = [w EXCEPT !.step = "second", !.first = Asked(w)]
  OBVIOUS
<1>2. w.step = "first" /\ Continue(w, {v}) /\ UNCHANGED <<db, pc, tab>>
  BY <1>1 DEF WhyFirst, Continue
<1>3. w \in Dialog /\ w.card \in Held /\ Tells(w) /\ Asked(w) \subseteq Card
  BY AboutClicked, AskedIsTyped
<1>4. v \in Dialog /\ v.card = w.card /\ v.run = w.run /\ v.calm = w.calm /\ v.step = "second"
      /\ v.table = w.table /\ v.rec = w.rec /\ v.first = Asked(w)
  BY <1>1, <1>3 DEF Dialog
<1>5. ASSUME w.calm, dialect = "postgres" \/ (w.card \in cards /\ Placed(w.card))
      PROVE  w.table = Table(w.card.by) /\ w.rec = {w.card} /\ Asked(w) \subseteq {w.card}
             /\ (w.card \in cards => Asked(w) = {w.card})
  <2>1. w.table = Table(w.card.by) /\ w.rec = {w.card}
    BY <1>2, <1>3, <1>5 DEF Tells
  <2>2. QED BY <1>5, <2>1, AskedIsClicked
<1>6. w.calm => w.run = idOf[w.card.of]
  BY <1>3 DEF Tells
<1>7. Tells(v)'
  BY <1>2, <1>4, <1>5, <1>6 DEF Tells, db
<1>8. QED BY <1>2, <1>3, <1>4, <1>7, Continues

\* And what is asked for last.
LEMMA LooksUpSecond ==
  ASSUME IInv, NEW w \in why, WhySecond(w), UNCHANGED dialect
  PROVE  IInv'
<1>1. PICK v : v = [w EXCEPT !.step = "open", !.second = Asked(w)]
  OBVIOUS
<1>2. w.step = "second" /\ Continue(w, {v}) /\ UNCHANGED <<db, pc, tab>>
  BY <1>1 DEF WhySecond, Continue
<1>3. w \in Dialog /\ w.card \in Held /\ Tells(w) /\ Asked(w) \subseteq Card
  BY AboutClicked, AskedIsTyped
<1>4. v \in Dialog /\ v.card = w.card /\ v.run = w.run /\ v.calm = w.calm /\ v.step = "open"
      /\ v.table = w.table /\ v.rec = w.rec /\ v.first = w.first /\ v.second = Asked(w)
  BY <1>1, <1>3 DEF Dialog
<1>5. ASSUME w.calm, dialect = "postgres" \/ (w.card \in cards /\ Placed(w.card))
      PROVE  /\ w.table = Table(w.card.by) /\ w.rec = {w.card}
             /\ w.first \subseteq {w.card} /\ Asked(w) \subseteq {w.card}
             /\ w.card \in cards => Asked(w) = {w.card}
  <2>1. w.table = Table(w.card.by) /\ w.rec = {w.card} /\ w.first \subseteq {w.card}
    BY <1>2, <1>3, <1>5 DEF Tells
  <2>2. QED BY <1>5, <2>1, AskedIsClicked
<1>6. w.calm => w.run = idOf[w.card.of]
  BY <1>3 DEF Tells
<1>7. w.calm /\ w.card \in cards /\ Placed(w.card) => w.first = {w.card}
  BY <1>2, <1>3 DEF Tells
<1>8. Tells(v)'
  BY <1>2, <1>4, <1>5, <1>6, <1>7 DEF Tells, db
<1>9. QED BY <1>2, <1>3, <1>4, <1>8, Continues

-----------------------------------------------------------------------------
(* The invariant, and what is read.                                        *)

\* Nothing was written or asked for yet.
LEMMA InitInv == Init => IInv
<1> SUFFICES ASSUME Init PROVE IInv
  OBVIOUS
<1> USE ReadsAssumption
<1>1. TypeOK
  <2>1. timers \in Seq(Tab) /\ lastRun \in Nat /\ deletes \in 0 .. MaxDeletes
    BY DEF Init
  <2>2. answer \in [Tab -> SUBSET Card] /\ head \in [Tab -> SUBSET Runs]
    BY DEF Init
  <2>3. QED BY <2>1, <2>2 DEF Init, TypeOK
<1>2. RunIds /\ Alone /\ CardIds
  BY FS_EmptySet DEF Init, RunIds, Alone, CardIds
<1>3. Held = {}
  <2>1. Answered = {}
    BY DEF Init, Answered
  <2>2. Clicked = {}
    BY DEF Init, Clicked
  <2>3. QED BY <2>1, <2>2 DEF Init, Held
<1>4. \A r \in Tab : Flow(r)
  BY DEF Init, Flow
<1>5. Screen
  BY DEF Init, Screen
<1>6. QED BY <1>1, <1>2, <1>3, <1>4, <1>5 DEF Init, IInv

\* One case per action.
LEMMA StepInv == IInv /\ [Next]_vars => IInv'
<1> SUFFICES ASSUME IInv, [Next]_vars PROVE IInv'
  OBVIOUS
<1>1. CASE UNCHANGED vars
  <2>1. UNCHANGED <<dialect, db, pc, tab, why>>
    BY <1>1 DEF vars
  <2>2. \A w \in why : w \in Dialog /\ w.card \in Held
    <3>1. \A w \in why : w.card \in Clicked
      BY DEF Clicked
    <3>2. QED BY <3>1 DEF Held, IInv, TypeOK
  <2>3. \A w \in why' : Tells(w)'
    BY <2>1 DEF IInv, Tells, db
  <2>4. QED BY <2>1, <2>2, <2>3, Looks
<1>2. ASSUME NEW r \in Runs, AddCard(r) \/ Finish(r) \/ Fail(r), UNCHANGED dialect PROVE IInv'
  BY <1>2, AddsCard, FinishesRun, FailsRun
<1>3. ASSUME NEW r \in Tab, ReadHeader(r) \/ ReadCards(r) \/ Receive(r), UNCHANGED dialect PROVE IInv'
  BY <1>3, ReadsHeader, ReadsCards, Receives
<1>4. ASSUME NEW w \in why, WhyRun(w) \/ WhyRec(w) \/ WhyFirst(w) \/ WhySecond(w), UNCHANGED dialect PROVE IInv'
  BY <1>4, LooksUpRun, LooksUpCard, LooksUpFirst, LooksUpSecond
<1>5. QED BY <1>1, <1>2, <1>3, <1>4, Deletes, Renders, Clicks DEF Next

\* The invariant the theorems below follow from.
THEOREM Invariance == Spec => []IInv
BY InitInv, StepInv, PTL DEF Spec

\* The tables, flows, timers and dialogs have their types in every state.
THEOREM TypeCorrect == Spec => []TypeOK
<1>1. IInv => TypeOK
  BY DEF IInv
<1>2. QED BY <1>1, Invariance, PTL

\* A flow has the cards its own run wrote, all of them, while the run exists and unless
\* it was given the id of a run still at work, which Postgres never does (AnswerIsWhole).
THEOREM WholeAnswers == Spec => []AnswerIsWhole
<1>1. IInv => AnswerIsWhole
  BY DEF IInv, Alone, Flow, AnswerIsWhole
<1>2. QED BY <1>1, Invariance, PTL

\* A dialog opened when nothing waited to be rendered is about the card clicked, as
\* long as the card exists, and on Postgres even after (EvidenceIsOfCard).
THEOREM OwnEvidence == Spec => []EvidenceIsOfCard
<1>1. IInv => EvidenceIsOfCard
  BY DEF IInv, Tells, EvidenceIsOfCard
<1>2. QED BY <1>1, Invariance, PTL

\* With nothing waiting to be rendered, lastRun is the run on the screen (LastRunIsShown).
THEOREM ShownIsLast == Spec => []LastRunIsShown
<1>1. IInv => LastRunIsShown
  BY DEF IInv, Screen, LastRunIsShown
<1>2. QED BY <1>1, Invariance, PTL
=============================================================================
