-------------------------- MODULE ConfigApi_proofs --------------------------
(***************************************************************************)
(* For any number of handlers, names, forms and rows: on both databases    *)
(* the variables keep their types, cluster names stay unique, sources keep *)
(* an existing cluster and last_connected_at means a connection; on        *)
(* Postgres, whose sequences give no id twice, the status of a cluster and *)
(* the health of a source were found by a probe of that very row, and a    *)
(* response shows the row that was asked for.                              *)
(***************************************************************************)
EXTENDS ConfigApi, WellFoundedInduction, TLAPS

Results == {"reachable", "unreachable"}

\* What a reachable result was found with: the server that answered is the registered
\* one if an api_url was given.
Welcomed(f, server) == server \in IF f.api_url # None THEN {f.api_url} ELSE Servers

\* The fields that a request's next step uses are set.
Ready(r) ==
  /\ r.pc = "insert" => r.name \in Names /\ r.form \in Registered
  /\ r.pc = "lookup" => r.name \in Names
  /\ r.pc = "insertSource" => r.id \in Nat
  /\ r.pc \in {"probe", "save"} => r.form \in Registered
  /\ r.pc = "save" => /\ r.result \in Results
                      /\ r.result = "reachable" <=> (r.answerer # None /\ ~r.denied)
                      /\ r.result = "reachable" => Welcomed(r.form, r.answerer)
  /\ r.pc = "rereadSource" => r.code \in {"ok", "created"}
  /\ r.pc = "saveHealth" => r.result \in {"healthy", "unreachable", "unknown"}

Asked == \A w \in Handlers : Ready(handler[w])

IInv == TypeOK /\ Asked

-----------------------------------------------------------------------------
(* Ids.                                                                    *)

\* A bounded set of naturals has its largest element.
LEMMA MaxOfBounded ==
  ASSUME NEW n \in Nat, NEW S \in SUBSET (0 .. n), S # {}
  PROVE  Max(S) \in S /\ \A x \in S : x <= Max(S)
<1> DEFINE T == {n - x : x \in S}
<1>1. T # {} /\ T \subseteq Nat
  <2>1. \A x \in S : n - x \in Nat
    OBVIOUS
  <2>2. QED BY <2>1
<1>2. PICK m \in T : \A k \in T : m <= k
  <2> DEFINE R == {p \in Nat \X Nat : p[1] < p[2]}
  <2>1. IsWellFoundedOn(R, Nat)
    BY NatLessThanWellFounded DEF OpToRel
  <2> HIDE DEF T
  <2>2. \A k, m \in T : ~(<<k, m>> \in R) => m <= k
    BY <1>1
  <2> HIDE DEF R
  <2>3. PICK m \in T : \A k \in T : ~(<<k, m>> \in R)
    BY <1>1, <2>1, WFMin
  <2>4. QED BY <2>2, <2>3
<1>3. PICK x \in S : m = n - x
  OBVIOUS
<1>4. \A y \in S : x >= y
  <2> SUFFICES ASSUME NEW y \in S PROVE x >= y
    OBVIOUS
  <2>1. n - y \in T /\ x \in 0 .. n /\ y \in 0 .. n
    OBVIOUS
  <2>2. n - x <= n - y
    BY <1>2, <1>3, <2>1
  <2>3. QED BY <2>1, <2>2
<1>5. Max(S) \in S /\ \A y \in S : Max(S) >= y
  BY <1>4 DEF Max
<1>6. QED BY <1>5

\* A new id is in no row and at most one more than the largest given so far; a Postgres
\* sequence gives exactly that one.
LEMMA NewIdFresh ==
  ASSUME NEW table, NEW last \in Nat, DOMAIN table \subseteq 1 .. last
  PROVE  /\ NewId(table, last) \in 1 .. last + 1
         /\ NewId(table, last) \notin DOMAIN table
         /\ Dialect # "sqlite" => NewId(table, last) = last + 1
<1>1. CASE Dialect = "sqlite"
  <2> DEFINE S == {0} \cup DOMAIN table
  <2>1. S \in SUBSET (0 .. last) /\ S # {}
    OBVIOUS
  <2> HIDE DEF S
  <2>2. Max(S) \in S /\ \A x \in S : x <= Max(S)
    BY <2>1, MaxOfBounded
  <2>3. Max(S) \in 0 .. last
    BY <2>1, <2>2
  <2>4. 1 + Max(S) \notin S
    BY <2>2, <2>3
  <2>5. NewId(table, last) = 1 + Max(S)
    BY <1>1 DEF NewId, S
  <2>6. DOMAIN table \subseteq S
    BY DEF S
  <2>7. QED BY <1>1, <2>3, <2>4, <2>5, <2>6
<1>2. CASE Dialect # "sqlite"
  BY <1>2 DEF NewId
<1>3. QED BY <1>1, <1>2

-----------------------------------------------------------------------------
(* Types.                                                                  *)

LEMMA IdleTyped == Idle \in Requests
BY DEF Idle, Requests, Targets

LEMMA ResponseTyped ==
  \A code \in {"ok", "created", "missing", "conflict", "error"} :
    Response(code) \in Requests /\ Ready(Response(code))
<1> SUFFICES ASSUME NEW code \in {"ok", "created", "missing", "conflict", "error"}
             PROVE  Response(code) \in Requests /\ Ready(Response(code))
  OBVIOUS
<1>1. PICK r : r = Response(code)
  OBVIOUS
<1>2. r = [Idle EXCEPT !.pc = "done", !.code = code]
  BY <1>1 DEF Response
<1>3. r \in Requests
  BY <1>2, IdleTyped DEF Requests
<1>4. r.pc = "done"
  BY <1>2 DEF Idle
<1>5. Ready(r)
  BY <1>4 DEF Ready
<1>6. QED BY <1>1, <1>3, <1>5

\* A row added to the clusters, and what it leaves alone.
LEMMA AddClusterTyped ==
  ASSUME TypeOK, NEW n \in Names, NEW f \in Registered,
         AddCluster(NewId(clusters, given.clusters), n, f)
  PROVE  /\ given' \in [clusters : Nat, sources : Nat]
         /\ given'.sources = given.sources
         /\ DOMAIN clusters' \subseteq 1 .. given'.clusters
         /\ \A c \in DOMAIN clusters' : clusters'[c] \in ClusterRow
<1> DEFINE new == NewId(clusters, given.clusters)
           added == [name |-> n, form |-> f, status |-> "unknown", connected |-> FALSE,
                     by |-> None, reached |-> FALSE]
<1>1. given.clusters \in Nat /\ given.sources \in Nat /\ DOMAIN clusters \subseteq 1 .. given.clusters
  BY DEF TypeOK
<1>2. new \in 1 .. given.clusters + 1
  BY <1>1, NewIdFresh
<1>3. added \in ClusterRow
  BY DEF ClusterRow
<1>4. clusters' = [x \in DOMAIN clusters \cup {new} |-> IF x = new THEN added ELSE clusters[x]]
  BY DEF AddCluster, Put
<1>5. given' = [given EXCEPT !.clusters = IF new > given.clusters THEN new ELSE given.clusters]
  BY DEF AddCluster
<1> HIDE DEF new, added
<1>6. given' \in [clusters : Nat, sources : Nat] /\ given'.sources = given.sources
  BY <1>1, <1>2, <1>5 DEF TypeOK
<1>7. given'.clusters >= given.clusters /\ given'.clusters >= new
  BY <1>1, <1>2, <1>5 DEF TypeOK
<1>8. DOMAIN clusters' \subseteq 1 .. given'.clusters
  BY <1>1, <1>2, <1>4, <1>6, <1>7
<1>9. \A c \in DOMAIN clusters' : clusters'[c] \in ClusterRow
  BY <1>3, <1>4 DEF TypeOK
<1>10. QED BY <1>6, <1>8, <1>9

LEMMA AddSourceTyped ==
  ASSUME TypeOK, Asked, NEW w \in Handlers, At(w, "insertSource"), AddSource(w)
  PROVE  /\ given' \in [clusters : Nat, sources : Nat]
         /\ given'.clusters = given.clusters
         /\ DOMAIN sources' \subseteq 1 .. given'.sources
         /\ \A s \in DOMAIN sources' : sources'[s] \in SourceRow
         /\ NewId(sources, given.sources) \in Nat
<1> DEFINE new == NewId(sources, given.sources)
           t == handler[w].target
           added == [cluster |-> handler[w].id, target |-> t, health |-> None, of |-> None, had |-> {t}]
<1>1. given.clusters \in Nat /\ given.sources \in Nat /\ DOMAIN sources \subseteq 1 .. given.sources
  BY DEF TypeOK
<1>2. new \in 1 .. given.sources + 1
  BY <1>1, NewIdFresh
<1>3. added \in SourceRow
  <2>1. handler[w].id \in Nat
    BY DEF Asked, Ready, At
  <2>2. t \in Targets
    BY DEF TypeOK, Requests
  <2>3. QED BY <2>1, <2>2 DEF SourceRow, Targets
<1>4. sources' = [x \in DOMAIN sources \cup {new} |-> IF x = new THEN added ELSE sources[x]]
  BY DEF AddSource, Put
<1>5. given' = [given EXCEPT !.sources = IF new > given.sources THEN new ELSE given.sources]
  BY DEF AddSource
<1> HIDE DEF new, added
<1>6. given' \in [clusters : Nat, sources : Nat] /\ given'.clusters = given.clusters
  BY <1>1, <1>2, <1>5 DEF TypeOK
<1>7. given'.sources >= given.sources /\ given'.sources >= new
  BY <1>1, <1>2, <1>5 DEF TypeOK
<1>8. DOMAIN sources' \subseteq 1 .. given'.sources
  BY <1>1, <1>2, <1>4, <1>6, <1>7
<1>9. \A c \in DOMAIN sources' : sources'[c] \in SourceRow
  BY <1>3, <1>4 DEF TypeOK
<1>10. QED BY <1>1, <1>2, <1>6, <1>8, <1>9 DEF new

-----------------------------------------------------------------------------
(* The steps.                                                              *)

\* A handler's step leaves the other handlers' requests alone.
LEMMA StepTyped ==
  ASSUME IInv, NEW w \in Handlers, NEW r \in Requests, Ready(r),
         handler' = [handler EXCEPT ![w] = r]
  PROVE  handler' \in [Handlers -> Requests] /\ Asked'
<1>1. handler' \in [Handlers -> Requests]
  BY DEF IInv, TypeOK
<1>2. ASSUME NEW v \in Handlers PROVE Ready(handler'[v])
  <2>1. CASE v = w
    BY <2>1 DEF IInv, TypeOK
  <2>2. CASE v # w
    <3>1. handler'[v] = handler[v]
      BY <2>2 DEF IInv, TypeOK
    <3>2. QED BY <3>1 DEF IInv, Asked
  <2>3. QED BY <2>1, <2>2
<1>3. QED BY <1>1, <1>2 DEF Asked

LEMMA ReadyByPc ==
  ASSUME NEW r, r.pc \in {"done", "reread", "updateSource", "probeSource"} PROVE Ready(r)
BY DEF Ready

LEMMA IdleReady == Ready(Idle)
BY DEF Ready, Idle

\* A step that leaves the tables alone.
LEMMA StepOnly ==
  ASSUME IInv, NEW w \in Handlers, NEW r \in Requests, Ready(r),
         handler' = [handler EXCEPT ![w] = r], UNCHANGED <<clusters, sources, given>>
  PROVE  IInv'
<1>1. handler' \in [Handlers -> Requests] /\ Asked'
  BY StepTyped
<1>2. QED BY <1>1 DEF IInv, TypeOK

LEMMA ClusterRequestTyped ==
  ASSUME IInv, NEW w \in Handlers, ClusterRequest(w) PROVE IInv'
<1> USE DEF Take
<1>1. ASSUME NEW n \in Names, NEW f \in Forms, CreateRequest(w, n, f) PROVE IInv'
  <2> DEFINE r == [Idle EXCEPT !.pc = "insert", !.name = n, !.form = f]
  <2>1. r \in Requests /\ Ready(r)
    BY DEF Idle, Requests, Targets, Registered, Ready
  <2>2. Response("conflict") \in Requests /\ Ready(Response("conflict"))
    BY ResponseTyped
  <2>3. QED BY <1>1, <2>1, <2>2, StepOnly DEF CreateRequest
<1>2. ASSUME NEW n \in Names, EnsureRequest(w, n) PROVE IInv'
  <2> DEFINE r == [Idle EXCEPT !.pc = "lookup", !.name = n]
  <2>1. r \in Requests /\ Ready(r)
    BY DEF Idle, Requests, Targets, Ready
  <2>2. handler' \in [Handlers -> Requests] /\ Asked'
    BY <1>2, <2>1, StepTyped DEF EnsureRequest
  <2>3. CASE Named(n) # {}
    BY <1>2, <2>2, <2>3 DEF EnsureRequest, IInv, TypeOK
  <2>4. CASE Named(n) = {}
    <3>1. AddCluster(NewId(clusters, given.clusters), n, NoForm) /\ sources' = sources
      BY <1>2, <2>4 DEF EnsureRequest
    <3>2. NoForm \in Registered
      BY DEF Registered
    <3>3. QED BY <2>2, <3>1, <3>2, AddClusterTyped DEF IInv, TypeOK
  <2>5. QED BY <2>3, <2>4
<1>3. ASSUME NEW id \in ClusterIds, DeleteRequest(w, id) PROVE IInv'
  <2>1. PICK code \in {"ok", "missing"} : handler' = [handler EXCEPT ![w] = Response(code)]
    BY <1>3 DEF DeleteRequest
  <2>2. handler' \in [Handlers -> Requests] /\ Asked'
    <3>1. Response(code) \in Requests /\ Ready(Response(code))
      BY ResponseTyped
    <3>2. QED BY <2>1, <3>1, StepTyped
  <2>3. DOMAIN clusters' \subseteq DOMAIN clusters /\ \A c \in DOMAIN clusters' : clusters'[c] = clusters[c]
    BY <1>3 DEF DeleteRequest, Restrict
  <2>4. DOMAIN sources' \subseteq DOMAIN sources /\ \A s \in DOMAIN sources' : sources'[s] = sources[s]
    BY <1>3 DEF DeleteRequest, Restrict
  <2>5. QED BY <1>3, <2>2, <2>3, <2>4 DEF DeleteRequest, IInv, TypeOK
<1>4. ASSUME NEW id \in ClusterIds, TestRequest(w, id) PROVE IInv'
  <2>1. CASE id \notin DOMAIN clusters
    <3>1. handler' = [handler EXCEPT ![w] = Response("missing")] /\ UNCHANGED <<clusters, sources, given>>
      BY <1>4, <2>1 DEF TestRequest
    <3>2. Response("missing") \in Requests /\ Ready(Response("missing"))
      BY ResponseTyped
    <3>3. QED BY <3>1, <3>2, StepOnly
  <2>2. CASE id \in DOMAIN clusters
    <3> DEFINE r == [Idle EXCEPT !.pc = "probe", !.id = id, !.form = clusters[id].form]
    <3>1. id \in Nat /\ clusters[id].form \in Registered
      BY <2>2 DEF IInv, TypeOK, ClusterRow
    <3>2. r \in Requests /\ Ready(r)
      BY <3>1 DEF Idle, Requests, Targets, Ready
    <3>3. QED BY <1>4, <2>2, <3>2, StepOnly DEF TestRequest
  <2>3. QED BY <2>1, <2>2
<1>5. QED BY <1>1, <1>2, <1>3, <1>4 DEF ClusterRequest

LEMMA SourceRequestTyped ==
  ASSUME IInv, NEW w \in Handlers, SourceRequest(w) PROVE IInv'
<1> USE DEF Take
<1>1. ASSUME NEW id \in ClusterIds, NEW t \in Targets, CreateSourceRequest(w, id, t) PROVE IInv'
  <2> DEFINE r == [Idle EXCEPT !.pc = "insertSource", !.id = id, !.target = t]
  <2>1. r \in Requests /\ Ready(r)
    <3>1. id \in Nat
      BY ApiAssumption DEF ClusterIds
    <3>2. QED BY <3>1 DEF Idle, Requests, Targets, Ready
  <2>2. Response("missing") \in Requests /\ Ready(Response("missing"))
    BY ResponseTyped
  <2>3. QED BY <1>1, <2>1, <2>2, StepOnly DEF CreateSourceRequest
<1>2. ASSUME NEW s \in SourceIds, NEW t \in Targets, UpdateSourceRequest(w, s, t) PROVE IInv'
  <2> DEFINE r == [Idle EXCEPT !.pc = "updateSource", !.source = s, !.target = t]
  <2>1. r \in Requests /\ Ready(r)
    <3>1. s \in Nat
      BY ApiAssumption DEF SourceIds
    <3>2. QED BY <3>1 DEF Idle, Requests, Targets, Ready
  <2>2. Response("missing") \in Requests /\ Ready(Response("missing"))
    BY ResponseTyped
  <2>3. QED BY <1>2, <2>1, <2>2, StepOnly DEF UpdateSourceRequest
<1>3. ASSUME NEW s \in SourceIds, DeleteSourceRequest(w, s) PROVE IInv'
  <2>1. PICK code \in {"ok", "missing"} : handler' = [handler EXCEPT ![w] = Response(code)]
    BY <1>3 DEF DeleteSourceRequest
  <2>2. handler' \in [Handlers -> Requests] /\ Asked'
    <3>1. Response(code) \in Requests /\ Ready(Response(code))
      BY ResponseTyped
    <3>2. QED BY <2>1, <3>1, StepTyped
  <2>3. DOMAIN sources' \subseteq DOMAIN sources /\ \A x \in DOMAIN sources' : sources'[x] = sources[x]
    BY <1>3 DEF DeleteSourceRequest, Restrict
  <2>4. QED BY <1>3, <2>2, <2>3 DEF DeleteSourceRequest, IInv, TypeOK
<1>4. ASSUME NEW s \in SourceIds, TestSourceRequest(w, s) PROVE IInv'
  <2>1. CASE s \notin DOMAIN sources
    <3>1. handler' = [handler EXCEPT ![w] = Response("missing")] /\ UNCHANGED <<clusters, sources, given>>
      BY <1>4, <2>1 DEF TestSourceRequest
    <3>2. Response("missing") \in Requests /\ Ready(Response("missing"))
      BY ResponseTyped
    <3>3. QED BY <3>1, <3>2, StepOnly
  <2>2. CASE s \in DOMAIN sources
    <3> DEFINE r == [Idle EXCEPT !.pc = "probeSource", !.source = s, !.target = sources[s].target]
    <3>1. s \in Nat /\ sources[s].target \in Targets
      BY <2>2 DEF IInv, TypeOK, SourceRow
    <3>2. r \in Requests /\ Ready(r)
      BY <3>1 DEF Idle, Requests, Targets, Ready
    <3>3. QED BY <1>4, <2>2, <3>2, StepOnly DEF TestSourceRequest
  <2>3. QED BY <2>1, <2>2
<1>5. QED BY <1>1, <1>2, <1>3, <1>4 DEF SourceRequest

\* A handler that stops at its response, successful or not.
LEMMA AnswerTyped ==
  ASSUME IInv, NEW w \in Handlers, NEW code \in {"ok", "created", "missing", "conflict", "error"},
         Answer(w, code)
  PROVE  handler' \in [Handlers -> Requests] /\ Asked'
<1>1. Response(code) \in Requests /\ Ready(Response(code))
  BY ResponseTyped
<1>2. QED BY <1>1, StepTyped DEF Answer, Proceed

LEMMA AnswerRowTyped ==
  ASSUME IInv, NEW w \in Handlers, NEW r \in ClusterRow \cup SourceRow \cup {None},
         AnswerRow(w, "created", r)
  PROVE  handler' \in [Handlers -> Requests] /\ Asked'
<1> DEFINE q == [handler[w] EXCEPT !.pc = "done", !.code = "created", !.row = r]
<1>1. handler[w] \in Requests
  BY DEF IInv, TypeOK
<1>2. q \in Requests
  <2> DEFINE Rows == ClusterRow \cup SourceRow \cup {None}
  <2>1. r \in Rows /\ handler[w].row \in Rows
    BY <1>1 DEF Requests
  <2> HIDE DEF Rows
  <2>2. QED BY <1>1, <2>1 DEF Requests, Rows
<1>2a. q.pc = "done"
  BY <1>1 DEF Requests
<1> HIDE DEF q
<1>3. Ready(q)
  BY <1>2a, ReadyByPc
<1>4. handler' = [handler EXCEPT ![w] = q]
  BY DEF AnswerRow, Proceed, q
<1>5. QED BY <1>2, <1>3, <1>4, StepTyped

LEMMA ClusterStepTyped ==
  ASSUME IInv, NEW w \in Handlers,
         InsertCluster(w) \/ InsertRefused(w) \/ RereadCluster(w) \/ EnsureLookup(w)
  PROVE  IInv'
<1>0. handler[w] \in Requests /\ Ready(handler[w])
  BY DEF IInv, TypeOK, Asked
<1>1. CASE InsertCluster(w)
  <2> DEFINE new == NewId(clusters, given.clusters)
             q == [handler[w] EXCEPT !.pc = "reread", !.id = new]
  <2>1. handler[w].name \in Names /\ handler[w].form \in Registered
    BY <1>0, <1>1 DEF InsertCluster, At, Ready
  <2>2. AddCluster(new, handler[w].name, handler[w].form) /\ sources' = sources
    BY <1>1 DEF InsertCluster
  <2>3. new \in Nat
    <3>1. given.clusters \in Nat /\ DOMAIN clusters \subseteq 1 .. given.clusters
      BY DEF IInv, TypeOK
    <3>2. QED BY <3>1, NewIdFresh
  <2>4. handler' = [handler EXCEPT ![w] = q]
    BY <1>1 DEF InsertCluster, Proceed
  <2>5. q \in Requests /\ q.pc = "reread"
    <3> HIDE DEF new
    <3>1. QED BY <1>0, <2>3 DEF Requests
  <2> HIDE DEF new, q
  <2>6. handler' \in [Handlers -> Requests] /\ Asked'
    <3>1. Ready(q)
      BY <2>5, ReadyByPc
    <3>2. QED BY <2>4, <2>5, <3>1, StepTyped
  <2>7. QED BY <2>1, <2>2, <2>6, AddClusterTyped DEF IInv, TypeOK, new
<1>2. CASE InsertRefused(w)
  BY <1>2, AnswerTyped DEF InsertRefused, IInv, TypeOK
<1>3. CASE RereadCluster(w)
  <2>1. RowOf(clusters, handler[w].id) \in ClusterRow \cup SourceRow \cup {None}
    BY DEF RowOf, IInv, TypeOK
  <2>2. handler' \in [Handlers -> Requests] /\ Asked'
    BY <1>3, <2>1, AnswerRowTyped DEF RereadCluster
  <2>3. QED BY <1>3, <2>2 DEF RereadCluster, IInv, TypeOK
<1>4. CASE EnsureLookup(w)
  <2>1. CASE Named(handler[w].name) = {}
    BY <1>4, <2>1, AnswerTyped DEF EnsureLookup, IInv, TypeOK
  <2>2. CASE Named(handler[w].name) # {}
    <3>1. PICK c \in Named(handler[w].name) :
             handler' = [handler EXCEPT ![w] = [handler[w] EXCEPT !.pc = "done", !.code = "ok", !.id = c]]
      BY <1>4, <2>2 DEF EnsureLookup, Proceed
    <3> DEFINE q == [handler[w] EXCEPT !.pc = "done", !.code = "ok", !.id = c]
    <3>2. c \in Nat
      BY <3>1 DEF Named, IInv, TypeOK
    <3>3. q \in Requests /\ q.pc = "done"
      BY <1>0, <3>2 DEF Requests
    <3> HIDE DEF q
    <3>4. Ready(q)
      BY <3>3, ReadyByPc
    <3>5. handler' = [handler EXCEPT ![w] = q]
      BY <3>1 DEF q
    <3>6. handler' \in [Handlers -> Requests] /\ Asked'
      BY <3>3, <3>4, <3>5, StepTyped
    <3>7. QED BY <1>4, <3>6 DEF EnsureLookup, IInv, TypeOK
  <2>3. QED BY <2>1, <2>2
<1>5. QED BY <1>1, <1>2, <1>3, <1>4

\* What a probe of the form f may end with.
LEMMA ProbeOutcome ==
  ASSUME NEW f \in Registered, NEW s \in Secrets, NEW reply \in Replies, ~Unasked(f, s)
  PROVE  /\ Reached(reply) <=> reply = "ok"
         /\ AskedServer(f, s) \in Servers /\ Welcomed(f, AskedServer(f, s))
<1>1. Reached(reply) <=> reply = "ok"
  BY DEF Reached, HttpGet, Replies
<1>2. f \in AllForms
  <2>1. NoForm \in AllForms
    BY DEF NoForm, AllForms
  <2>2. QED BY <2>1, ApiAssumption DEF Registered
<1>3. f.api_url \in Servers \cup {None} /\ Server(f) \in Servers
  BY <1>2, ApiAssumption DEF AllForms, Server, Unasked
<1>4. AskedServer(f, s) \in Servers /\ Welcomed(f, AskedServer(f, s))
  BY <1>3 DEF AskedServer, Server, Welcomed
<1>5. QED BY <1>1, <1>4

LEMMA ProbeTyped ==
  ASSUME IInv, NEW w \in Handlers, ProbeCluster(w) \/ ProbeRaises(w) \/ SaveStatus(w)
  PROVE  IInv'
<1>0. handler[w] \in Requests /\ Ready(handler[w])
  BY DEF IInv, TypeOK, Asked
<1>1. CASE ProbeCluster(w)
  <2> DEFINE f == handler[w].form
             out(s, reply) == IF ~Unasked(f, s) /\ Reached(reply) THEN "reachable" ELSE "unreachable"
             by(s, reply) == IF ~Unasked(f, s) /\ reply \in {"ok", "unauthorized"}
                             THEN AskedServer(f, s) ELSE None
             no(s, reply) == ~Unasked(f, s) /\ reply = "unauthorized"
             q(s, reply) == [handler[w] EXCEPT !.pc = "save", !.result = out(s, reply),
                               !.answerer = by(s, reply), !.denied = no(s, reply)]
  <2>1. PICK s \in Secrets, reply \in Replies : handler' = [handler EXCEPT ![w] = q(s, reply)]
    BY <1>1 DEF ProbeCluster, Proceed
  <2>2. f \in Registered
    BY <1>0, <1>1 DEF ProbeCluster, At, Ready
  <2>3. /\ out(s, reply) \in Results
        /\ by(s, reply) \in Servers \cup {None}
        /\ no(s, reply) \in BOOLEAN
        /\ out(s, reply) = "reachable" <=> (by(s, reply) # None /\ ~no(s, reply))
        /\ out(s, reply) = "reachable" => Welcomed(f, by(s, reply))
    <3>1. CASE Unasked(f, s)
      BY <3>1 DEF Results
    <3>2. CASE ~Unasked(f, s)
      <4>1. None \notin Servers
        BY ApiAssumption
      <4>2. QED BY <2>2, <3>2, <4>1, ProbeOutcome DEF Results
    <3>3. QED BY <3>1, <3>2
  <2> DEFINE r == q(s, reply)
  <2>4. r \in Requests /\ r.pc = "save" /\ r.form = f /\ r.result = out(s, reply)
        /\ r.answerer = by(s, reply) /\ r.denied = no(s, reply)
    <3> DEFINE o == out(s, reply)  b == by(s, reply)  d == no(s, reply)
    <3>1. o \in Results /\ b \in Servers \cup {None} /\ d \in BOOLEAN
      BY <2>3
    <3> HIDE DEF o, b, d
    <3>2. [handler[w] EXCEPT !.pc = "save", !.result = o, !.answerer = b, !.denied = d] \in Requests
      <4>1. PICK e : e = [handler[w] EXCEPT !.pc = "save", !.result = o]
        OBVIOUS
      <4>2. e \in Requests
        BY <1>0, <3>1, <4>1 DEF Requests, Results
      <4>3. [e EXCEPT !.answerer = b, !.denied = d] \in Requests
        BY <3>1, <4>2 DEF Requests
      <4>4. [e EXCEPT !.answerer = b, !.denied = d] =
              [handler[w] EXCEPT !.pc = "save", !.result = o, !.answerer = b, !.denied = d]
        BY <1>0, <4>1 DEF Requests
      <4>5. QED BY <4>3, <4>4
    <3>3. LET e == [handler[w] EXCEPT !.pc = "save", !.result = o, !.answerer = b, !.denied = d]
          IN  e.pc = "save" /\ e.form = handler[w].form /\ e.result = o /\ e.answerer = b /\ e.denied = d
      BY <1>0 DEF Requests
    <3>4. QED BY <3>2, <3>3 DEF o, b, d
  <2>5. Ready(r)
    <3> HIDE DEF r, out, by, no
    <3>1. QED BY <2>2, <2>3, <2>4 DEF Ready
  <2>6. handler' = [handler EXCEPT ![w] = r]
    BY <2>1
  <2>7. UNCHANGED <<clusters, sources, given>>
    BY <1>1 DEF ProbeCluster
  <2> HIDE DEF r
  <2>8. QED BY <2>4, <2>5, <2>6, <2>7, StepOnly
<1>2. CASE ProbeRaises(w)
  BY <1>2, AnswerTyped DEF ProbeRaises, IInv, TypeOK
<1>3. CASE SaveStatus(w)
  <2>1. handler' \in [Handlers -> Requests] /\ Asked'
    BY <1>3, AnswerTyped DEF SaveStatus
  <2>2. handler[w].result \in Results /\ handler[w].form \in Registered
        /\ handler[w].answerer \in Servers \cup {None} /\ handler[w].denied \in BOOLEAN
    BY <1>0, <1>3 DEF SaveStatus, At, Ready, Requests
  <2>3. ASSUME NEW c \in ClusterRow PROVE Saved(c, handler[w], handler[w].result = "reachable") \in ClusterRow
    <3> DEFINE touch == handler[w].result = "reachable"
               p == [form |-> handler[w].form, answerer |-> handler[w].answerer,
                     denied |-> handler[w].denied]
               connected == c.connected \/ touch
               reached == c.reached \/ (handler[w].answerer # None /\ ~handler[w].denied)
    <3>1. p \in Probes
      BY <2>2 DEF Probes
    <3>2. connected \in BOOLEAN /\ reached \in BOOLEAN
      OBVIOUS
    <3>3. Saved(c, handler[w], touch) =
            [c EXCEPT !.status = handler[w].result, !.connected = connected, !.by = p, !.reached = reached]
      BY DEF Saved, ClusterRow
    <3> HIDE DEF touch, p, connected, reached
    <3>4. [c EXCEPT !.status = handler[w].result, !.connected = connected, !.by = p, !.reached = reached]
             \in ClusterRow
      BY <2>2, <3>1, <3>2 DEF ClusterRow, Results
    <3>5. QED BY <3>3, <3>4 DEF touch
  <2>4. DOMAIN clusters' = DOMAIN clusters /\ \A c \in DOMAIN clusters' : clusters'[c] \in ClusterRow
    BY <1>3, <2>3 DEF SaveStatus, IInv, TypeOK
  <2>5. QED BY <1>3, <2>1, <2>4 DEF SaveStatus, IInv, TypeOK
<1>4. QED BY <1>1, <1>2, <1>3

LEMMA SourceStepTyped ==
  ASSUME IInv, NEW w \in Handlers,
         InsertSource(w) \/ InsertSourceRefused(w) \/ UpdateSource(w) \/ RereadSource(w)
  PROVE  IInv'
<1>0. handler[w] \in Requests /\ Ready(handler[w])
  BY DEF IInv, TypeOK, Asked
<1>1. CASE InsertSource(w)
  <2> DEFINE new == NewId(sources, given.sources)
             q == [handler[w] EXCEPT !.pc = "rereadSource", !.source = new,
                                     !.target = None, !.code = "created"]
  <2>1. AddSource(w) /\ At(w, "insertSource") /\ clusters' = clusters
    BY <1>1 DEF InsertSource
  <2>2. /\ given' \in [clusters : Nat, sources : Nat] /\ given'.clusters = given.clusters
        /\ DOMAIN sources' \subseteq 1 .. given'.sources
        /\ \A s \in DOMAIN sources' : sources'[s] \in SourceRow
        /\ new \in Nat
    BY <2>1, AddSourceTyped DEF IInv
  <2>3. q \in Requests /\ q.pc = "rereadSource" /\ q.code = "created"
    <3>1. None \in Targets
      BY DEF Targets
    <3> HIDE DEF new
    <3>2. QED BY <1>0, <2>2, <3>1 DEF Requests
  <2>4. handler' = [handler EXCEPT ![w] = q]
    BY <2>1 DEF AddSource, Proceed
  <2> HIDE DEF new, q
  <2>5. Ready(q)
    BY <2>3 DEF Ready
  <2>6. handler' \in [Handlers -> Requests] /\ Asked'
    BY <2>3, <2>4, <2>5, StepTyped
  <2>7. QED BY <2>1, <2>2, <2>6 DEF IInv, TypeOK
<1>2. CASE InsertSourceRefused(w)
  BY <1>2, AnswerTyped DEF InsertSourceRefused, IInv, TypeOK
<1>3. CASE UpdateSource(w)
  <2> DEFINE q == [handler[w] EXCEPT !.pc = "rereadSource", !.target = None, !.code = "ok"]
  <2>1. q \in Requests /\ q.pc = "rereadSource" /\ q.code = "ok"
    <3>1. PICK r \in Requests : r = handler[w]
      BY <1>0
    <3>2. q = [r EXCEPT !.pc = "rereadSource", !.target = None, !.code = "ok"]
      BY <3>1
    <3>3. None \in Targets
      BY DEF Targets
    <3> HIDE DEF q
    <3>4. q \in Requests
      BY <3>2, <3>3 DEF Requests
    <3>5. QED BY <3>2, <3>4 DEF Requests
  <2>2. handler' = [handler EXCEPT ![w] = q]
    BY <1>3 DEF UpdateSource, Proceed
  <2> HIDE DEF q
  <2>3. Ready(q)
    BY <2>1 DEF Ready
  <2>4. handler' \in [Handlers -> Requests] /\ Asked'
    BY <2>1, <2>2, <2>3, StepTyped
  <2>5. handler[w].target \in Targets
    BY <1>0 DEF Requests
  <2>6. \A s \in DOMAIN sources : sources[s] \in SourceRow
    BY DEF IInv, TypeOK
  <2>7. ASSUME NEW s \in DOMAIN sources PROVE
          [sources[s] EXCEPT !.target = handler[w].target, !.had = @ \cup {handler[w].target}] \in SourceRow
    <3> DEFINE t == handler[w].target  had == sources[s].had \cup {t}
    <3>1. sources[s] \in SourceRow /\ had \in SUBSET Targets
      BY <2>5, <2>6 DEF SourceRow
    <3> HIDE DEF t, had
    <3>2. [sources[s] EXCEPT !.target = t, !.had = had] \in SourceRow
      BY <2>5, <3>1 DEF SourceRow, t
    <3>3. QED BY <3>2 DEF t, had
  <2>9. DOMAIN sources' = DOMAIN sources
    BY <1>3 DEF UpdateSource
  <2>10. \A s \in DOMAIN sources' : sources'[s] \in SourceRow
    BY <1>3, <2>6, <2>7 DEF UpdateSource
  <2>11. QED BY <1>3, <2>4, <2>9, <2>10 DEF UpdateSource, IInv, TypeOK
<1>4. CASE RereadSource(w)
  <2>1. RowOf(sources, handler[w].source) \in ClusterRow \cup SourceRow \cup {None}
    BY DEF RowOf, IInv, TypeOK
  <2>2. handler' \in [Handlers -> Requests] /\ Asked'
    <3>1. CASE handler[w].code = "created"
      BY <1>4, <2>1, <3>1, AnswerRowTyped DEF RereadSource
    <3>2. CASE handler[w].code # "created"
      BY <1>4, <3>2, AnswerTyped DEF RereadSource
    <3>3. QED BY <3>1, <3>2
  <2>3. QED BY <1>4, <2>2 DEF RereadSource, IInv, TypeOK
<1>5. QED BY <1>1, <1>2, <1>3, <1>4

LEMMA HealthStepTyped ==
  ASSUME IInv, NEW w \in Handlers, ProbeSource(w) \/ SaveHealth(w) \/ Respond(w)
  PROVE  IInv'
<1>0. handler[w] \in Requests /\ Ready(handler[w])
  BY DEF IInv, TypeOK, Asked
<1>1. CASE ProbeSource(w)
  <2>1. PICK health \in {"healthy", "unreachable", "unknown"} :
           handler' = [handler EXCEPT ![w] = [handler[w] EXCEPT !.pc = "saveHealth", !.result = health]]
    BY <1>1 DEF ProbeSource, Proceed
  <2> DEFINE q == [handler[w] EXCEPT !.pc = "saveHealth", !.result = health]
  <2>2a. health \in {"reachable", "unreachable", "healthy", "unknown", None}
    OBVIOUS
  <2>2b. q \in Requests
    BY <1>0, <2>2a DEF Requests
  <2>2c. q.pc = "saveHealth" /\ q.result = health
    BY <1>0 DEF Requests
  <2>3. handler' = [handler EXCEPT ![w] = q]
    BY <2>1
  <2> HIDE DEF q
  <2>4. Ready(q)
    BY <2>2c DEF Ready
  <2>5. QED BY <1>1, <2>2b, <2>3, <2>4, StepOnly DEF ProbeSource
<1>2. CASE SaveHealth(w)
  <2>1. handler' \in [Handlers -> Requests] /\ Asked'
    BY <1>2, AnswerTyped DEF SaveHealth
  <2>2. handler[w].result \in {"healthy", "unreachable", "unknown"} /\ handler[w].target \in Targets
    BY <1>0, <1>2 DEF SaveHealth, At, Ready, Requests
  <2>3. \A s \in DOMAIN sources : sources[s] \in SourceRow
    BY DEF IInv, TypeOK
  <2>4. DOMAIN sources' = DOMAIN sources /\ \A s \in DOMAIN sources' : sources'[s] \in SourceRow
    <3>1. DOMAIN sources' = DOMAIN sources
      BY <1>2 DEF SaveHealth
    <3>2. ASSUME NEW s \in DOMAIN sources PROVE sources'[s] \in SourceRow
      <4> DEFINE row == [sources[s] EXCEPT !.health = handler[w].result, !.of = handler[w].target]
      <4>1. sources[s] \in SourceRow
        BY <2>3
      <4>2. row \in SourceRow
        BY <2>2, <4>1 DEF SourceRow
      <4>3. sources'[s] = IF s # handler[w].source THEN sources[s] ELSE row
        BY <1>2 DEF SaveHealth
      <4> HIDE DEF row
      <4>4. QED BY <4>1, <4>2, <4>3
    <3>3. QED BY <3>1, <3>2
  <2>5. QED BY <1>2, <2>1, <2>4 DEF SaveHealth, IInv, TypeOK
<1>3. CASE Respond(w)
  BY <1>3, IdleTyped, IdleReady, StepOnly DEF Respond, Proceed
<1>4. QED BY <1>1, <1>2, <1>3

LEMMA InitTyped == Init => IInv
<1> SUFFICES ASSUME Init PROVE IInv
  OBVIOUS
<1>1. DOMAIN clusters = {} /\ DOMAIN sources = {}
  BY DEF Init
<1>2. handler \in [Handlers -> Requests] /\ Asked
  BY IdleTyped, IdleReady DEF Init, Asked
<1>3. QED BY <1>1, <1>2 DEF Init, IInv, TypeOK

LEMMA NextTyped == IInv /\ [Next]_vars => IInv'
<1> SUFFICES ASSUME IInv, [Next]_vars PROVE IInv'
  OBVIOUS
<1>1. CASE Next
  <2>1. PICK w \in Handlers : ClusterRequest(w) \/ SourceRequest(w) \/ Advance(w)
    BY <1>1 DEF Next
  <2>2. QED BY <2>1, ClusterRequestTyped, SourceRequestTyped, ClusterStepTyped, ProbeTyped,
               SourceStepTyped, HealthStepTyped DEF Advance
<1>2. CASE UNCHANGED vars
  BY <1>2 DEF vars, IInv, TypeOK, Asked
<1>3. QED BY <1>1, <1>2

THEOREM Invariance == Spec => []IInv
BY InitTyped, NextTyped, PTL DEF Spec

\* Tables, ids and requests keep their types, on both databases.
THEOREM TypeCorrect == Spec => []TypeOK
<1>1. IInv => TypeOK
  BY DEF IInv
<1>2. QED BY <1>1, Invariance, PTL

-----------------------------------------------------------------------------
(* What a step may do to the table of clusters.                            *)

ClusterAdded ==
  \E n \in Names, f \in Registered :
    Named(n) = {} /\ AddCluster(NewId(clusters, given.clusters), n, f) /\ sources' = sources

ClusterDeleted ==
  \E id \in ClusterIds :
    /\ clusters' = Restrict(clusters, (DOMAIN clusters) \ {id})
    /\ sources' = Restrict(sources, {s \in DOMAIN sources : sources[s].cluster # id})
    /\ given' = given

ClusterKept == clusters' = clusters /\ given'.clusters = given.clusters

LEMMA ClusterChanges ==
  ASSUME IInv, [Next]_vars
  PROVE  ClusterAdded \/ ClusterDeleted \/ (\E w \in Handlers : SaveStatus(w)) \/ ClusterKept
<1>1. CASE UNCHANGED vars
  BY <1>1 DEF vars, ClusterKept
<1>2. ASSUME NEW w \in Handlers, ClusterRequest(w) PROVE ClusterAdded \/ ClusterDeleted \/ ClusterKept
  <2>1. ASSUME NEW n \in Names, EnsureRequest(w, n) PROVE ClusterAdded \/ ClusterKept
    <3>1. NoForm \in Registered
      BY DEF Registered
    <3>2. QED BY <2>1, <3>1 DEF EnsureRequest, ClusterAdded, ClusterKept
  <2>2. ASSUME NEW id \in ClusterIds, DeleteRequest(w, id) PROVE ClusterDeleted
    BY <2>2 DEF DeleteRequest, ClusterDeleted
  <2>3. QED BY <1>2, <2>1, <2>2 DEF ClusterRequest, CreateRequest, TestRequest, ClusterKept
<1>3. ASSUME NEW w \in Handlers, SourceRequest(w) PROVE ClusterKept
  BY <1>3 DEF SourceRequest, CreateSourceRequest, UpdateSourceRequest, DeleteSourceRequest,
              TestSourceRequest, ClusterKept
<1>4. ASSUME NEW w \in Handlers, InsertCluster(w) PROVE ClusterAdded
  <2>1. handler[w].name \in Names /\ handler[w].form \in Registered
    BY <1>4 DEF InsertCluster, At, IInv, Asked, Ready
  <2>2. QED BY <1>4, <2>1 DEF InsertCluster, ClusterAdded
<1>5. ASSUME NEW w \in Handlers, InsertSource(w) PROVE ClusterKept
  <2>1. given'.clusters = given.clusters
    BY <1>5, AddSourceTyped DEF InsertSource, IInv
  <2>2. QED BY <1>5, <2>1 DEF InsertSource, ClusterKept
<1>6. ASSUME NEW w \in Handlers, Advance(w) PROVE ClusterAdded \/ SaveStatus(w) \/ ClusterKept
  BY <1>4, <1>5, <1>6 DEF Advance, InsertRefused, RereadCluster, EnsureLookup, ProbeCluster, ProbeRaises,
     InsertSourceRefused, UpdateSource, RereadSource, ProbeSource, SaveHealth, Respond, ClusterKept
<1>7. QED BY <1>1, <1>2, <1>3, <1>6 DEF Next

\* Saving a status leaves a row's name and form alone.
LEMMA SaveKeeps ==
  ASSUME IInv, NEW w \in Handlers, SaveStatus(w)
  PROVE  /\ DOMAIN clusters' = DOMAIN clusters /\ given' = given /\ sources' = sources
         /\ \A c \in DOMAIN clusters :
              /\ clusters'[c].name = clusters[c].name
              /\ clusters'[c].form = clusters[c].form
              /\ c # handler[w].id => clusters'[c] = clusters[c]
              /\ c = handler[w].id =>
                   /\ clusters'[c].status = handler[w].result
                   /\ clusters'[c].by = [form |-> handler[w].form, answerer |-> handler[w].answerer,
                                         denied |-> handler[w].denied]
                   /\ clusters'[c].connected <=> (clusters[c].connected \/ handler[w].result = "reachable")
                   /\ clusters'[c].reached <=> (clusters[c].reached \/ (handler[w].answerer # None /\ ~handler[w].denied))
<1>1. DOMAIN clusters' = DOMAIN clusters /\ given' = given /\ sources' = sources
  BY DEF SaveStatus
<1>2. ASSUME NEW c \in DOMAIN clusters, c # handler[w].id PROVE clusters'[c] = clusters[c]
  BY <1>2 DEF SaveStatus
<1>3. ASSUME NEW c \in DOMAIN clusters, c = handler[w].id
      PROVE clusters'[c] = Saved(clusters[c], handler[w], handler[w].result = "reachable")
  BY <1>3 DEF SaveStatus
<1>4. ASSUME NEW c \in DOMAIN clusters PROVE clusters[c] \in ClusterRow
  BY DEF IInv, TypeOK
<1>5. ASSUME NEW r \in ClusterRow, NEW d, d = Saved(r, handler[w], handler[w].result = "reachable")
      PROVE  /\ d.name = r.name /\ d.form = r.form /\ d.status = handler[w].result
             /\ d.by = [form |-> handler[w].form, answerer |-> handler[w].answerer,
                        denied |-> handler[w].denied]
             /\ d.connected <=> (r.connected \/ handler[w].result = "reachable")
             /\ d.reached <=> (r.reached \/ (handler[w].answerer # None /\ ~handler[w].denied))
  BY <1>5 DEF Saved, ClusterRow
<1>6. ASSUME NEW c \in DOMAIN clusters, c = handler[w].id
      PROVE  /\ clusters'[c].name = clusters[c].name
             /\ clusters'[c].form = clusters[c].form
             /\ clusters'[c].status = handler[w].result
             /\ clusters'[c].by = [form |-> handler[w].form, answerer |-> handler[w].answerer,
                                   denied |-> handler[w].denied]
             /\ clusters'[c].connected <=> (clusters[c].connected \/ handler[w].result = "reachable")
             /\ clusters'[c].reached <=> (clusters[c].reached \/ (handler[w].answerer # None /\ ~handler[w].denied))
  <2>1. clusters[c] \in ClusterRow
    BY <1>4, <1>6
  <2>2. clusters'[c] = Saved(clusters[c], handler[w], handler[w].result = "reachable")
    BY <1>3, <1>6
  <2>3. QED BY <2>1, <2>2, <1>5
<1>7. QED BY <1>1, <1>2, <1>6

\* A row that was added, beside those there were.
LEMMA AddKeeps ==
  ASSUME IInv, NEW n \in Names, NEW f \in Registered, AddCluster(NewId(clusters, given.clusters), n, f)
  PROVE  LET new == NewId(clusters, given.clusters)
         IN  /\ new \notin DOMAIN clusters /\ DOMAIN clusters' = DOMAIN clusters \cup {new}
             /\ \A c \in DOMAIN clusters : clusters'[c] = clusters[c]
             /\ clusters'[new].name = n /\ clusters'[new].form = f
             /\ clusters'[new].status = "unknown" /\ clusters'[new].by = None
             /\ ~clusters'[new].connected /\ ~clusters'[new].reached
<1> DEFINE new == NewId(clusters, given.clusters)
<1>1. new \notin DOMAIN clusters
  BY NewIdFresh DEF IInv, TypeOK
<1> HIDE DEF new
<1>2. clusters' = Put(clusters, new, [name |-> n, form |-> f, status |-> "unknown",
                                      connected |-> FALSE, by |-> None, reached |-> FALSE])
  BY DEF AddCluster, new
<1>3. QED BY <1>1, <1>2 DEF Put, new

-----------------------------------------------------------------------------
\* However checks, inserts and deletions interleave, two clusters never have one name:
\* the conclusion of the UNIQUE constraint for the handlers as they use it.
THEOREM UniqueNames == Spec => []NamesUnique
<1>1. Init => NamesUnique
  BY DEF Init, NamesUnique
<1>2. IInv /\ NamesUnique /\ [Next]_vars => NamesUnique'
  <2> SUFFICES ASSUME IInv, NamesUnique, [Next]_vars PROVE NamesUnique'
    OBVIOUS
  <2>1. CASE ClusterAdded
    <3>1. PICK n \in Names, f \in Registered :
            Named(n) = {} /\ AddCluster(NewId(clusters, given.clusters), n, f)
      BY <2>1 DEF ClusterAdded
    <3> DEFINE new == NewId(clusters, given.clusters)
    <3>2. /\ DOMAIN clusters' = DOMAIN clusters \cup {new} /\ clusters'[new].name = n
          /\ \A c \in DOMAIN clusters : clusters'[c] = clusters[c]
      BY <3>1, AddKeeps
    <3>3. \A c \in DOMAIN clusters : clusters[c].name # n
      BY <3>1 DEF Named
    <3> HIDE DEF new
    <3>4. QED BY <3>2, <3>3 DEF NamesUnique
  <2>2. CASE ClusterDeleted
    BY <2>2 DEF ClusterDeleted, Restrict, NamesUnique
  <2>3. ASSUME NEW w \in Handlers, SaveStatus(w) PROVE NamesUnique'
    <3>1. DOMAIN clusters' = DOMAIN clusters /\ \A c \in DOMAIN clusters : clusters'[c].name = clusters[c].name
      BY <2>3, SaveKeeps
    <3>2. QED BY <3>1 DEF NamesUnique
  <2>4. CASE ClusterKept
    BY <2>4 DEF ClusterKept, NamesUnique
  <2>5. QED BY <2>1, <2>2, <2>3, <2>4, ClusterChanges
<1>3. QED BY <1>1, <1>2, Invariance, PTL DEF Spec

\* A cluster has a last_connected_at exactly if some probe saved in it was answered with 200.
THEOREM Connections == Spec => []ConnectedReached
<1>1. Init => ConnectedReached
  BY DEF Init, ConnectedReached
<1>2. IInv /\ ConnectedReached /\ [Next]_vars => ConnectedReached'
  <2> SUFFICES ASSUME IInv, ConnectedReached, [Next]_vars PROVE ConnectedReached'
    OBVIOUS
  <2>1. CASE ClusterAdded
    <3>1. PICK n \in Names, f \in Registered : AddCluster(NewId(clusters, given.clusters), n, f)
      BY <2>1 DEF ClusterAdded
    <3> DEFINE new == NewId(clusters, given.clusters)
    <3>2. /\ DOMAIN clusters' = DOMAIN clusters \cup {new}
          /\ ~clusters'[new].connected /\ ~clusters'[new].reached
          /\ \A c \in DOMAIN clusters : clusters'[c] = clusters[c]
      BY <3>1, AddKeeps
    <3>3. \A c \in DOMAIN clusters' : clusters'[c].connected \in BOOLEAN /\ clusters'[c].reached \in BOOLEAN
      <4>1. IInv'
        BY NextTyped
      <4>2. QED BY <4>1 DEF IInv, TypeOK, ClusterRow
    <3> HIDE DEF new
    <3>4. QED BY <3>2, <3>3 DEF ConnectedReached
  <2>2. CASE ClusterDeleted
    BY <2>2 DEF ClusterDeleted, Restrict, ConnectedReached
  <2>3. ASSUME NEW w \in Handlers, SaveStatus(w) PROVE ConnectedReached'
    <3>1. handler[w].result = "reachable" <=> (handler[w].answerer # None /\ ~handler[w].denied)
      BY <2>3 DEF SaveStatus, At, IInv, Asked, Ready
    <3>2. ASSUME NEW c \in DOMAIN clusters PROVE clusters'[c].connected <=> clusters'[c].reached
      <4>1. clusters[c].connected <=> clusters[c].reached
        BY DEF ConnectedReached
      <4>2. CASE c = handler[w].id
        BY <2>3, <3>1, <4>1, <4>2, SaveKeeps
      <4>3. CASE c # handler[w].id
        BY <2>3, <4>1, <4>3, SaveKeeps
      <4>4. QED BY <4>2, <4>3
    <3>3. DOMAIN clusters' = DOMAIN clusters
      BY <2>3, SaveKeeps
    <3>4. \A c \in DOMAIN clusters' : clusters'[c].connected \in BOOLEAN /\ clusters'[c].reached \in BOOLEAN
      <4>1. IInv'
        BY NextTyped
      <4>2. QED BY <4>1 DEF IInv, TypeOK, ClusterRow
    <3>5. QED BY <3>2, <3>3, <3>4 DEF ConnectedReached
  <2>4. CASE ClusterKept
    BY <2>4 DEF ClusterKept, ConnectedReached
  <2>5. QED BY <2>1, <2>2, <2>3, <2>4, ClusterChanges
<1>3. QED BY <1>1, <1>2, Invariance, PTL DEF Spec

-----------------------------------------------------------------------------
(* Sources.                                                                *)

\* No cluster is lost, no source added, and no source changes its cluster.
OwnersKept ==
  /\ DOMAIN clusters \subseteq DOMAIN clusters'
  /\ DOMAIN sources' \subseteq DOMAIN sources
  /\ \A s \in DOMAIN sources' : sources'[s].cluster = sources[s].cluster

LEMMA ClustersKept ==
  ASSUME IInv, [Next]_vars
  PROVE  ClusterDeleted \/ DOMAIN clusters \subseteq DOMAIN clusters'
<1>1. CASE ClusterAdded
  <2>1. PICK n \in Names, f \in Registered : AddCluster(NewId(clusters, given.clusters), n, f)
    BY <1>1 DEF ClusterAdded
  <2>2. DOMAIN clusters' = DOMAIN clusters \cup {NewId(clusters, given.clusters)}
    BY <2>1, AddKeeps
  <2>3. QED BY <2>2
<1>2. ASSUME NEW w \in Handlers, SaveStatus(w) PROVE DOMAIN clusters \subseteq DOMAIN clusters'
  BY <1>2, SaveKeeps
<1>3. QED BY <1>1, <1>2, ClusterChanges DEF ClusterKept

LEMMA SourceChanges ==
  ASSUME IInv, [Next]_vars
  PROVE  OwnersKept \/ ClusterDeleted \/ \E w \in Handlers : InsertSource(w)
<1> DEFINE Kept == /\ DOMAIN sources' \subseteq DOMAIN sources
                   /\ \A s \in DOMAIN sources' : sources'[s].cluster = sources[s].cluster
<1>0. \A s \in DOMAIN sources : sources[s] \in SourceRow
  BY DEF IInv, TypeOK
<1>1. CASE UNCHANGED vars
  BY <1>1 DEF vars, OwnersKept
<1>2. ASSUME NEW w \in Handlers, ClusterRequest(w) PROVE Kept \/ ClusterDeleted
  <2>1. ASSUME NEW id \in ClusterIds, DeleteRequest(w, id) PROVE ClusterDeleted
    BY <2>1 DEF DeleteRequest, ClusterDeleted
  <2>2. QED BY <1>2, <2>1 DEF ClusterRequest, CreateRequest, EnsureRequest, TestRequest
<1>3. ASSUME NEW w \in Handlers, SourceRequest(w) PROVE Kept
  <2>1. ASSUME NEW s \in SourceIds, DeleteSourceRequest(w, s) PROVE Kept
    BY <2>1 DEF DeleteSourceRequest, Restrict
  <2>2. QED BY <1>3, <2>1 DEF SourceRequest, CreateSourceRequest, UpdateSourceRequest, TestSourceRequest
<1>4. ASSUME NEW w \in Handlers, Advance(w) PROVE Kept \/ InsertSource(w)
  <2>1. ASSUME UpdateSource(w) PROVE Kept
    BY <1>0, <2>1 DEF UpdateSource, SourceRow
  <2>2. ASSUME SaveHealth(w) PROVE Kept
    BY <1>0, <2>2 DEF SaveHealth, SourceRow
  <2>3. QED BY <1>4, <2>1, <2>2 DEF Advance, InsertCluster, InsertRefused, RereadCluster, EnsureLookup,
         ProbeCluster, ProbeRaises, SaveStatus, InsertSourceRefused, RereadSource, ProbeSource, Respond
<1> HIDE DEF Kept
<1>5. Kept \/ ClusterDeleted \/ (\E w \in Handlers : InsertSource(w)) \/ UNCHANGED vars
  BY <1>2, <1>3, <1>4 DEF Next
<1>6. QED BY <1>1, <1>5, ClustersKept DEF OwnersKept, Kept

\* Whatever a handler knows of a cluster when it inserts a source, every source's cluster
\* exists: the conclusion of the foreign key and its cascade.
THEOREM OwnedSources == Spec => []SourcesOwned
<1>1. Init => SourcesOwned
  BY DEF Init, SourcesOwned
<1>2. IInv /\ SourcesOwned /\ [Next]_vars => SourcesOwned'
  <2> SUFFICES ASSUME IInv, SourcesOwned, [Next]_vars PROVE SourcesOwned'
    OBVIOUS
  <2>1. CASE OwnersKept
    BY <2>1 DEF OwnersKept, SourcesOwned
  <2>2. CASE ClusterDeleted
    BY <2>2 DEF ClusterDeleted, Restrict, SourcesOwned
  <2>3. ASSUME NEW w \in Handlers, InsertSource(w) PROVE SourcesOwned'
    <3> DEFINE new == NewId(sources, given.sources)
               t == handler[w].target
               row == [cluster |-> handler[w].id, target |-> t, health |-> None, of |-> None, had |-> {t}]
    <3>1. sources' = Put(sources, new, row) /\ clusters' = clusters
      BY <2>3 DEF InsertSource, AddSource
    <3>2. row.cluster \in DOMAIN clusters
      BY <2>3 DEF InsertSource
    <3> HIDE DEF new, row
    <3>3. QED BY <3>1, <3>2 DEF Put, SourcesOwned
  <2>4. QED BY <2>1, <2>2, <2>3, SourceChanges
<1>3. QED BY <1>1, <1>2, Invariance, PTL DEF Spec

-----------------------------------------------------------------------------
(* Probes on Postgres.                                                     *)

\* A handler with a probe under way has the form of the row it will save in, if there
\* still is one.
Followed ==
  \A w \in Handlers : handler[w].pc \in {"probe", "save"} =>
    /\ handler[w].id \in 1 .. given.clusters
    /\ handler[w].id \in DOMAIN clusters => clusters[handler[w].id].form = handler[w].form

\* A sequence gives no id twice: an id that was given means the same row or none.
LEMMA FormsKept ==
  ASSUME Dialect = "postgres", IInv, [Next]_vars
  PROVE  /\ given.clusters <= given'.clusters
         /\ \A c \in 1 .. given.clusters : c \in DOMAIN clusters' =>
              /\ c \in DOMAIN clusters
              /\ clusters'[c].form = clusters[c].form /\ clusters'[c].name = clusters[c].name
<1>0. given \in [clusters : Nat, sources : Nat] /\ DOMAIN clusters \subseteq 1 .. given.clusters
  BY DEF IInv, TypeOK
<1>1. CASE ClusterAdded
  <2>1. PICK n \in Names, f \in Registered : AddCluster(NewId(clusters, given.clusters), n, f)
    BY <1>1 DEF ClusterAdded
  <2>2. NewId(clusters, given.clusters) = given.clusters + 1
    BY <1>0, NewIdFresh
  <2>3. /\ DOMAIN clusters' = DOMAIN clusters \cup {given.clusters + 1}
        /\ \A c \in DOMAIN clusters : clusters'[c] = clusters[c]
    BY <2>1, <2>2, AddKeeps
  <2>4. given'.clusters = given.clusters + 1
    BY <1>0, <2>1, <2>2 DEF AddCluster
  <2>5. given.clusters + 1 \notin 1 .. given.clusters
    BY <1>0
  <2>6. QED BY <1>0, <2>3, <2>4, <2>5
<1>2. CASE ClusterDeleted
  BY <1>0, <1>2 DEF ClusterDeleted, Restrict
<1>3. ASSUME NEW w \in Handlers, SaveStatus(w)
      PROVE /\ given.clusters <= given'.clusters
            /\ \A c \in 1 .. given.clusters : c \in DOMAIN clusters' =>
                 /\ c \in DOMAIN clusters
                 /\ clusters'[c].form = clusters[c].form /\ clusters'[c].name = clusters[c].name
  <2>1. /\ DOMAIN clusters' = DOMAIN clusters /\ given' = given
        /\ \A c \in DOMAIN clusters :
             clusters'[c].form = clusters[c].form /\ clusters'[c].name = clusters[c].name
    BY <1>3, SaveKeeps
  <2>2. QED BY <1>0, <2>1
<1>4. CASE ClusterKept
  BY <1>0, <1>4 DEF ClusterKept
<1>5. QED BY <1>1, <1>2, <1>3, <1>4, ClusterChanges

\* A handler comes to a probe with a row it has just read, and keeps what it was given.
LEMMA ProbeFollows ==
  ASSUME IInv, [Next]_vars, NEW v \in Handlers, handler'[v].pc \in {"probe", "save"}
  PROVE  \/ /\ handler[v].pc \in {"probe", "save"}
            /\ handler'[v].id = handler[v].id /\ handler'[v].form = handler[v].form
         \/ /\ UNCHANGED <<clusters, given>>
            /\ handler'[v].id \in DOMAIN clusters
            /\ handler'[v].form = clusters[handler'[v].id].form
<1> DEFINE Same == /\ handler[v].pc \in {"probe", "save"}
                   /\ handler'[v].id = handler[v].id /\ handler'[v].form = handler[v].form
           Fresh == /\ UNCHANGED <<clusters, given>>
                    /\ handler'[v].id \in DOMAIN clusters
                    /\ handler'[v].form = clusters[handler'[v].id].form
<1>0. handler \in [Handlers -> Requests] /\ handler[v] \in Requests
  BY DEF IInv, TypeOK
<1>1. UNCHANGED vars => Same
  BY DEF vars
<1>2. ASSUME NEW w \in Handlers, w # v, NEW r, handler' = [handler EXCEPT ![w] = r] PROVE Same
  BY <1>0, <1>2
<1>3. ASSUME NEW r, handler' = [handler EXCEPT ![v] = r] PROVE handler'[v] = r
  BY <1>0, <1>3
<1>4. ASSUME NEW code, Answer(v, code) PROVE FALSE
  BY <1>0, <1>4 DEF Answer, Proceed, Response, Idle
<1>5. ASSUME NEW w \in Handlers, ClusterRequest(w) PROVE Same \/ Fresh
  <2>1. CASE w # v
    <3>1. \E r : handler' = [handler EXCEPT ![w] = r]
      BY <1>5 DEF ClusterRequest, CreateRequest, EnsureRequest, DeleteRequest, TestRequest, Take
    <3>2. QED BY <1>2, <2>1, <3>1
  <2>2. CASE w = v
    <3>1. ASSUME NEW id \in ClusterIds, TestRequest(v, id) PROVE Fresh
      BY <1>0, <3>1 DEF TestRequest, Take, Response, Idle
    <3>2. ASSUME NEW n \in Names, NEW f \in Forms, CreateRequest(v, n, f) PROVE FALSE
      BY <1>0, <3>2 DEF CreateRequest, Take, Response, Idle
    <3>3. ASSUME NEW n \in Names, EnsureRequest(v, n) PROVE FALSE
      BY <1>0, <3>3 DEF EnsureRequest, Take, Idle
    <3>4. ASSUME NEW id \in ClusterIds, DeleteRequest(v, id) PROVE FALSE
      BY <1>0, <3>4 DEF DeleteRequest, Take, Response, Idle
    <3>5. QED BY <1>5, <2>2, <3>1, <3>2, <3>3, <3>4 DEF ClusterRequest
  <2>3. QED BY <2>1, <2>2
<1>6. ASSUME NEW w \in Handlers, SourceRequest(w) PROVE Same
  <2>1. CASE w # v
    <3>1. \E r : handler' = [handler EXCEPT ![w] = r]
      BY <1>6 DEF SourceRequest, CreateSourceRequest, UpdateSourceRequest, DeleteSourceRequest,
                  TestSourceRequest, Take
    <3>2. QED BY <1>2, <2>1, <3>1
  <2>2. CASE w = v
    <3>1. ASSUME NEW id \in ClusterIds, NEW t \in Targets, CreateSourceRequest(v, id, t) PROVE FALSE
      BY <1>0, <3>1 DEF CreateSourceRequest, Take, Response, Idle
    <3>2. ASSUME NEW s \in SourceIds, NEW t \in Targets, UpdateSourceRequest(v, s, t) PROVE FALSE
      BY <1>0, <3>2 DEF UpdateSourceRequest, Take, Response, Idle
    <3>3. ASSUME NEW s \in SourceIds, DeleteSourceRequest(v, s) PROVE FALSE
      BY <1>0, <3>3 DEF DeleteSourceRequest, Take, Response, Idle
    <3>4. ASSUME NEW s \in SourceIds, TestSourceRequest(v, s) PROVE FALSE
      BY <1>0, <3>4 DEF TestSourceRequest, Take, Response, Idle
    <3>5. QED BY <1>6, <2>2, <3>1, <3>2, <3>3, <3>4 DEF SourceRequest
  <2>3. QED BY <2>1, <2>2
<1>7. ASSUME NEW w \in Handlers, Advance(w) PROVE Same
  <2>1. CASE w # v
    <3>1. \E r : handler' = [handler EXCEPT ![w] = r]
      BY <1>7 DEF Advance, InsertCluster, InsertRefused, RereadCluster, EnsureLookup, ProbeCluster,
         ProbeRaises, SaveStatus, InsertSource, AddSource, InsertSourceRefused, UpdateSource, RereadSource,
         ProbeSource, SaveHealth, Respond, Proceed, Answer, AnswerRow
    <3>2. QED BY <1>2, <2>1, <3>1
  <2>2. CASE w = v
    <3>1. ASSUME ProbeCluster(v) PROVE Same
      BY <1>0, <3>1 DEF ProbeCluster, Proceed, At, Requests
    <3>2. ASSUME InsertCluster(v) \/ InsertSource(v) \/ UpdateSource(v) \/ ProbeSource(v) PROVE FALSE
      <4>1. CASE InsertCluster(v)
        <5>1. handler'[v].pc = "reread"
          BY <1>0, <4>1 DEF InsertCluster, Proceed, Requests
        <5>2. QED BY <5>1
      <4>2. CASE InsertSource(v)
        <5>1. handler'[v].pc = "rereadSource"
          BY <1>0, <4>2 DEF InsertSource, AddSource, Proceed, Requests
        <5>2. QED BY <5>1
      <4>3. CASE UpdateSource(v)
        <5>1. handler'[v].pc = "rereadSource"
          BY <1>0, <4>3 DEF UpdateSource, Proceed, Requests
        <5>2. QED BY <5>1
      <4>4. CASE ProbeSource(v)
        <5>1. handler'[v].pc = "saveHealth"
          BY <1>0, <4>4 DEF ProbeSource, Proceed, Requests
        <5>2. QED BY <5>1
      <4>5. QED BY <3>2, <4>1, <4>2, <4>3, <4>4
    <3>3. ASSUME RereadCluster(v) \/ RereadSource(v) \/ EnsureLookup(v) PROVE FALSE
      <4>1. ASSUME NEW code, NEW row, AnswerRow(v, code, row) PROVE FALSE
        <5>1. handler'[v].pc = "done"
          BY <1>0, <4>1 DEF AnswerRow, Proceed, Requests
        <5>2. QED BY <5>1
      <4>2. CASE EnsureLookup(v)
        <5>1. CASE Named(handler[v].name) = {}
          BY <1>4, <4>2, <5>1 DEF EnsureLookup
        <5>2. CASE Named(handler[v].name) # {}
          <6>1. PICK c : handler' = [handler EXCEPT ![v] = [handler[v] EXCEPT !.pc = "done", !.code = "ok", !.id = c]]
            BY <4>2, <5>2 DEF EnsureLookup, Proceed
          <6>2. PICK r : r = [handler[v] EXCEPT !.pc = "done", !.code = "ok", !.id = c]
            OBVIOUS
          <6>3. r.pc = "done"
            BY <1>0, <6>2 DEF Requests
          <6>4. handler'[v].pc = "done"
            BY <1>0, <6>1, <6>2, <6>3
          <6>5. QED BY <6>4
        <5>3. QED BY <5>1, <5>2
      <4>3. QED BY <1>4, <3>3, <4>1, <4>2 DEF RereadCluster, RereadSource
    <3>4. ASSUME InsertRefused(v) \/ ProbeRaises(v) \/ SaveStatus(v) \/ InsertSourceRefused(v) \/ SaveHealth(v)
          PROVE FALSE
      BY <1>4, <3>4 DEF InsertRefused, ProbeRaises, SaveStatus, InsertSourceRefused, SaveHealth
    <3>5. ASSUME Respond(v) PROVE FALSE
      BY <1>0, <3>5 DEF Respond, Proceed, Idle
    <3>6. QED BY <1>7, <2>2, <3>1, <3>2, <3>3, <3>4, <3>5 DEF Advance
  <2>3. QED BY <2>1, <2>2
<1> HIDE DEF Same, Fresh
<1>8. Same \/ Fresh
  BY <1>1, <1>5, <1>6, <1>7 DEF Next
<1>9. QED BY <1>8 DEF Same, Fresh

\* What a row's status says, by the probe that found it.
Explained == StatusFound /\ ReachableAnswered

\* On Postgres no probe, however late, writes in another cluster's row, and a cluster is
\* called reachable for the answer of its own server only.
THEOREM OwnStatus ==
  ASSUME Dialect = "postgres"
  PROVE  Spec => [](StatusFound /\ ReachableAnswered)
<1>1. Init => Followed /\ Explained
  BY DEF Init, Followed, Explained, StatusFound, ReachableAnswered, Idle
<1>2. IInv /\ Followed /\ [Next]_vars => Followed'
  <2> SUFFICES ASSUME IInv, Followed, [Next]_vars, NEW v \in Handlers, handler'[v].pc \in {"probe", "save"}
               PROVE  /\ handler'[v].id \in 1 .. given'.clusters
                      /\ handler'[v].id \in DOMAIN clusters' =>
                           clusters'[handler'[v].id].form = handler'[v].form
    BY DEF Followed
  <2>0. given.clusters \in Nat /\ DOMAIN clusters \subseteq 1 .. given.clusters
    BY DEF IInv, TypeOK
  <2>1. given'.clusters \in Nat
    BY NextTyped DEF IInv, TypeOK
  <2>2. CASE /\ handler[v].pc \in {"probe", "save"}
             /\ handler'[v].id = handler[v].id /\ handler'[v].form = handler[v].form
    <3>1. /\ handler[v].id \in 1 .. given.clusters
          /\ handler[v].id \in DOMAIN clusters => clusters[handler[v].id].form = handler[v].form
      BY <2>2 DEF Followed
    <3>2. QED BY <2>0, <2>1, <2>2, <3>1, FormsKept
  <2>3. CASE /\ UNCHANGED <<clusters, given>>
             /\ handler'[v].id \in DOMAIN clusters
             /\ handler'[v].form = clusters[handler'[v].id].form
    BY <2>0, <2>3
  <2>4. QED BY <2>2, <2>3, ProbeFollows
<1>3. IInv /\ Followed /\ Explained /\ [Next]_vars => Explained'
  <2> SUFFICES ASSUME IInv, Followed, Explained, [Next]_vars PROVE Explained'
    OBVIOUS
  <2> DEFINE Fine(r) == /\ r.status # "unknown" => r.by \in Probes /\ r.by.form = r.form
                        /\ r.status = "reachable" => Welcomed(r.form, r.by.answerer)
  <2>1. \A c \in DOMAIN clusters : Fine(clusters[c])
    BY DEF Explained, StatusFound, ReachableAnswered, Welcomed
  <2>2. SUFFICES \A c \in DOMAIN clusters' : Fine(clusters'[c])
    BY DEF Explained, StatusFound, ReachableAnswered, Welcomed
  <2>3. CASE ClusterAdded
    <3>1. PICK n \in Names, f \in Registered : AddCluster(NewId(clusters, given.clusters), n, f)
      BY <2>3 DEF ClusterAdded
    <3> DEFINE new == NewId(clusters, given.clusters)
    <3>2. /\ DOMAIN clusters' = DOMAIN clusters \cup {new} /\ clusters'[new].status = "unknown"
          /\ \A c \in DOMAIN clusters : clusters'[c] = clusters[c]
      BY <3>1, AddKeeps
    <3>3. Fine(clusters'[new])
      BY <3>2
    <3> HIDE DEF new, Fine
    <3>4. QED BY <2>1, <3>2, <3>3
  <2>4. CASE ClusterDeleted
    <3> HIDE DEF Fine
    <3>1. DOMAIN clusters' \subseteq DOMAIN clusters /\ \A c \in DOMAIN clusters' : clusters'[c] = clusters[c]
      BY <2>4 DEF ClusterDeleted, Restrict
    <3>2. QED BY <2>1, <3>1
  <2>5. ASSUME NEW w \in Handlers, SaveStatus(w), NEW c \in DOMAIN clusters' PROVE Fine(clusters'[c])
    <3>1. c \in DOMAIN clusters
      BY <2>5, SaveKeeps
    <3>2. CASE c # handler[w].id
      <4>1. clusters'[c] = clusters[c]
        BY <2>5, <3>1, <3>2, SaveKeeps
      <4> HIDE DEF Fine
      <4>2. QED BY <2>1, <3>1, <4>1
    <3>3. CASE c = handler[w].id
      <4>1. /\ clusters'[c].form = clusters[c].form
            /\ clusters'[c].status = handler[w].result
            /\ clusters'[c].by = [form |-> handler[w].form, answerer |-> handler[w].answerer,
                                  denied |-> handler[w].denied]
        BY <2>5, <3>1, <3>3, SaveKeeps
      <4>2. clusters[c].form = handler[w].form
        BY <2>5, <3>1, <3>3 DEF Followed, SaveStatus, At
      <4>3. handler[w].result = "reachable" => Welcomed(handler[w].form, handler[w].answerer)
        BY <2>5 DEF SaveStatus, At, IInv, Asked, Ready
      <4>4. clusters'[c].by \in Probes
        <5>1. /\ handler[w].form \in Registered /\ handler[w].answerer \in Servers \cup {None}
             /\ handler[w].denied \in BOOLEAN
          BY <2>5 DEF SaveStatus, At, IInv, TypeOK, Asked, Ready, Requests
        <5>2. QED BY <4>1, <5>1 DEF Probes
      <4>5. clusters'[c].by.form = clusters'[c].form
        BY <4>1, <4>2
      <4>6. clusters'[c].status = "reachable" => Welcomed(clusters'[c].form, clusters'[c].by.answerer)
        BY <4>1, <4>2, <4>3
      <4>7. QED BY <4>4, <4>5, <4>6
    <3>4. QED BY <3>2, <3>3
  <2>6. CASE ClusterKept
    BY <2>1, <2>6 DEF ClusterKept
  <2> HIDE DEF Fine
  <2>7. QED BY <2>3, <2>4, <2>5, <2>6, ClusterChanges
<1>4. Explained => StatusFound /\ ReachableAnswered
  BY DEF Explained
<1>5. QED BY <1>1, <1>2, <1>3, <1>4, Invariance, PTL DEF Spec

\* On Postgres a cluster is called reachable for the answer of its own server only.
THEOREM AnsweredByOwn ==
  ASSUME Dialect = "postgres"
  PROVE  Spec => []ReachableAnswered
<1>1. StatusFound /\ ReachableAnswered => ReachableAnswered
  OBVIOUS
<1>2. QED BY <1>1, OwnStatus, PTL

-----------------------------------------------------------------------------
(* What a handler knows by an id, on Postgres: the row it means, or none.  *)

SourcesFewer ==
  /\ given'.sources = given.sources
  /\ DOMAIN sources' \subseteq DOMAIN sources
  /\ \A s \in DOMAIN sources' : sources'[s] = sources[s]

\* What a step may do to the table of sources.
LEMMA SourceSteps ==
  ASSUME IInv, [Next]_vars
  PROVE  \/ \E w \in Handlers : InsertSource(w) \/ UpdateSource(w) \/ SaveHealth(w)
         \/ SourcesFewer
<1>0. given \in [clusters : Nat, sources : Nat]
  BY DEF IInv, TypeOK
<1>1. CASE UNCHANGED vars
  BY <1>1 DEF vars, SourcesFewer
<1>2. ASSUME NEW w \in Handlers, ClusterRequest(w) PROVE SourcesFewer
  <2>1. ASSUME NEW n \in Names, EnsureRequest(w, n) PROVE SourcesFewer
    BY <1>0, <2>1 DEF EnsureRequest, AddCluster, SourcesFewer
  <2>2. ASSUME NEW id \in ClusterIds, DeleteRequest(w, id) PROVE SourcesFewer
    BY <2>2 DEF DeleteRequest, Restrict, SourcesFewer
  <2>3. QED BY <1>2, <2>1, <2>2 DEF ClusterRequest, CreateRequest, TestRequest, SourcesFewer
<1>3. ASSUME NEW w \in Handlers, SourceRequest(w) PROVE SourcesFewer
  <2>1. ASSUME NEW s \in SourceIds, DeleteSourceRequest(w, s) PROVE SourcesFewer
    BY <2>1 DEF DeleteSourceRequest, Restrict, SourcesFewer
  <2>2. QED BY <1>3, <2>1 DEF SourceRequest, CreateSourceRequest, UpdateSourceRequest,
                              TestSourceRequest, SourcesFewer
<1>4. ASSUME NEW w \in Handlers, InsertCluster(w) PROVE SourcesFewer
  BY <1>0, <1>4 DEF InsertCluster, AddCluster, SourcesFewer
<1>5. ASSUME NEW w \in Handlers, Advance(w)
      PROVE  InsertSource(w) \/ UpdateSource(w) \/ SaveHealth(w) \/ SourcesFewer
  BY <1>4, <1>5 DEF Advance, InsertRefused, RereadCluster, EnsureLookup, ProbeCluster, ProbeRaises,
     SaveStatus, InsertSourceRefused, RereadSource, ProbeSource, Respond, SourcesFewer
<1>6. QED BY <1>1, <1>2, <1>3, <1>5 DEF Next

\* A source that was added, beside those there were.
LEMMA AddSourceKeeps ==
  ASSUME IInv, NEW w \in Handlers, InsertSource(w)
  PROVE  LET new == NewId(sources, given.sources)
             t == handler[w].target
         IN  /\ new \in 1 .. given'.sources /\ new \notin DOMAIN sources
             /\ DOMAIN sources' = DOMAIN sources \cup {new}
             /\ \A s \in DOMAIN sources : sources'[s] = sources[s]
             /\ sources'[new] = [cluster |-> handler[w].id, target |-> t,
                                 health |-> None, of |-> None, had |-> {t}]
             /\ given.sources <= given'.sources
             /\ Dialect # "sqlite" => new = given.sources + 1
<1> DEFINE new == NewId(sources, given.sources)
           t == handler[w].target
           added == [cluster |-> handler[w].id, target |-> t, health |-> None, of |-> None, had |-> {t}]
<1>1. given \in [clusters : Nat, sources : Nat] /\ DOMAIN sources \subseteq 1 .. given.sources
  BY DEF IInv, TypeOK
<1>2. /\ new \in 1 .. given.sources + 1 /\ new \notin DOMAIN sources
      /\ Dialect # "sqlite" => new = given.sources + 1
  BY <1>1, NewIdFresh
<1>3. /\ sources' = Put(sources, new, added)
      /\ given' = [given EXCEPT !.sources = IF new > @ THEN new ELSE @]
  BY DEF InsertSource, AddSource
<1> HIDE DEF new, added
<1>4. given'.sources = IF new > given.sources THEN new ELSE given.sources
  BY <1>1, <1>3
<1>5. new \in 1 .. given'.sources /\ given.sources <= given'.sources
  BY <1>1, <1>2, <1>4
<1>6. /\ DOMAIN sources' = DOMAIN sources \cup {new} /\ sources'[new] = added
      /\ \A s \in DOMAIN sources : sources'[s] = sources[s]
  BY <1>2, <1>3 DEF Put
<1>7. QED BY <1>2, <1>5, <1>6 DEF new, added

\* The two writes to an existing source, field by field.
LEMMA UpdateKeeps ==
  ASSUME IInv, NEW w \in Handlers, UpdateSource(w), NEW s \in DOMAIN sources
  PROVE  /\ DOMAIN sources' = DOMAIN sources /\ given' = given
         /\ sources'[s].cluster = sources[s].cluster
         /\ sources'[s].health = sources[s].health /\ sources'[s].of = sources[s].of
         /\ sources[s].had \subseteq sources'[s].had
         /\ sources[s].target \in sources[s].had => sources'[s].target \in sources'[s].had
<1>1. sources[s] \in SourceRow
  BY DEF IInv, TypeOK
<1>2. /\ DOMAIN sources' = DOMAIN sources /\ given' = given
      /\ sources'[s] = IF s # handler[w].source THEN sources[s]
                       ELSE [sources[s] EXCEPT !.target = handler[w].target,
                                               !.had = @ \cup {handler[w].target}]
  BY DEF UpdateSource
<1>3. CASE s # handler[w].source
  BY <1>2, <1>3
<1>4. CASE s = handler[w].source
  <2>1. PICK r \in SourceRow, t \in {handler[w].target}, q \in {sources'[s]} :
          r = sources[s] /\ q = [r EXCEPT !.target = t, !.had = @ \cup {t}]
    BY <1>1, <1>2, <1>4
  <2>2. /\ sources'[s].cluster = sources[s].cluster
        /\ sources'[s].health = sources[s].health /\ sources'[s].of = sources[s].of
        /\ sources'[s].target = handler[w].target
        /\ sources'[s].had = sources[s].had \cup {handler[w].target}
    BY <2>1 DEF SourceRow
  <2>3. QED BY <1>2, <2>2
<1>5. QED BY <1>3, <1>4

LEMMA HealthKeeps ==
  ASSUME IInv, NEW w \in Handlers, SaveHealth(w), NEW s \in DOMAIN sources
  PROVE  /\ DOMAIN sources' = DOMAIN sources /\ given' = given
         /\ sources'[s].cluster = sources[s].cluster
         /\ sources'[s].target = sources[s].target /\ sources'[s].had = sources[s].had
         /\ IF s = handler[w].source THEN sources'[s].of = handler[w].target
            ELSE sources'[s] = sources[s]
<1>1. sources[s] \in SourceRow
  BY DEF IInv, TypeOK
<1>2. /\ DOMAIN sources' = DOMAIN sources /\ given' = given
      /\ sources'[s] = IF s # handler[w].source THEN sources[s]
                       ELSE [sources[s] EXCEPT !.health = handler[w].result,
                                               !.of = handler[w].target]
  BY DEF SaveHealth
<1>3. CASE s # handler[w].source
  BY <1>2, <1>3
<1>4. CASE s = handler[w].source
  <2>1. PICK r \in SourceRow, h \in {handler[w].result}, t \in {handler[w].target}, q \in {sources'[s]} :
          r = sources[s] /\ q = [r EXCEPT !.health = h, !.of = t]
    BY <1>1, <1>2, <1>4
  <2>2. q.cluster = r.cluster /\ q.target = r.target /\ q.had = r.had /\ q.of = t
    BY <2>1 DEF SourceRow
  <2>3. QED BY <1>2, <1>4, <2>1, <2>2
<1>5. QED BY <1>3, <1>4

\* The rows with the ids that were given stay what they are, or go.
RowsStay ==
  /\ given.clusters <= given'.clusters /\ given.sources <= given'.sources
  /\ \A c \in 1 .. given.clusters : c \in DOMAIN clusters' =>
       /\ c \in DOMAIN clusters
       /\ clusters'[c].form = clusters[c].form /\ clusters'[c].name = clusters[c].name
  /\ \A s \in 1 .. given.sources : s \in DOMAIN sources' =>
       /\ s \in DOMAIN sources
       /\ sources'[s].cluster = sources[s].cluster
       /\ sources[s].had \subseteq sources'[s].had

LEMMA RowsKept == ASSUME Dialect = "postgres", IInv, [Next]_vars PROVE RowsStay
<1> DEFINE Stay == /\ given.sources <= given'.sources
                   /\ \A s \in 1 .. given.sources : s \in DOMAIN sources' =>
                        /\ s \in DOMAIN sources
                        /\ sources'[s].cluster = sources[s].cluster
                        /\ sources[s].had \subseteq sources'[s].had
<1>0. given \in [clusters : Nat, sources : Nat] /\ DOMAIN sources \subseteq 1 .. given.sources
  BY DEF IInv, TypeOK
<1>1. ASSUME NEW w \in Handlers, InsertSource(w) PROVE Stay
  <2> DEFINE new == NewId(sources, given.sources)
  <2>1. /\ DOMAIN sources' = DOMAIN sources \cup {new} /\ new = given.sources + 1
        /\ \A s \in DOMAIN sources : sources'[s] = sources[s]
        /\ given.sources <= given'.sources
    BY <1>1, AddSourceKeeps
  <2> HIDE DEF new
  <2>2. new \notin 1 .. given.sources
    BY <1>0, <2>1
  <2>3. QED BY <2>1, <2>2
<1>2. ASSUME NEW w \in Handlers, UpdateSource(w) PROVE Stay
  <2>1. DOMAIN sources' = DOMAIN sources /\ given' = given
    BY <1>2 DEF UpdateSource
  <2>2. QED BY <1>0, <1>2, <2>1, UpdateKeeps
<1>3. ASSUME NEW w \in Handlers, SaveHealth(w) PROVE Stay
  <2>1. DOMAIN sources' = DOMAIN sources /\ given' = given
    BY <1>3 DEF SaveHealth
  <2>2. QED BY <1>0, <1>3, <2>1, HealthKeeps
<1>4. ASSUME SourcesFewer PROVE Stay
  BY <1>0, <1>4 DEF SourcesFewer
<1> HIDE DEF Stay
<1>5. Stay
  BY <1>1, <1>2, <1>3, <1>4, SourceSteps
<1>6. QED BY <1>5, FormsKept DEF RowsStay, Stay

\* The response tells of the row that was asked for.
Truthful(r) ==
  /\ r.code = "created" /\ r.row # None =>
       IF r.source = None
       THEN r.row.name = r.name /\ r.row.form = r.form
       ELSE r.row.cluster = r.id
  /\ r.code = "ok" /\ r.name # None =>
       /\ r.id \in 1 .. given.clusters
       /\ r.id \in DOMAIN clusters => clusters[r.id].name = r.name

\* The ids in a request mean the rows its handler found or added.
OwnRequest(r) ==
  /\ r.pc \in {"insert", "lookup", "reread"} => r.source = None
  /\ r.pc = "reread" =>
       /\ r.id \in 1 .. given.clusters
       /\ r.id \in DOMAIN clusters =>
            clusters[r.id].name = r.name /\ clusters[r.id].form = r.form
  /\ r.pc = "rereadSource" /\ r.code = "created" =>
       /\ r.source \in 1 .. given.sources
       /\ r.source \in DOMAIN sources => sources[r.source].cluster = r.id
  /\ r.pc \in {"probeSource", "saveHealth"} =>
       /\ r.source \in 1 .. given.sources
       /\ r.source \in DOMAIN sources => r.target \in sources[r.source].had
  /\ r.pc = "done" => Truthful(r)

\* A source's present target is one it had, and so is the one its health was found for.
OwnHealth ==
  \A s \in DOMAIN sources :
    /\ sources[s].target \in sources[s].had
    /\ sources[s].health # None => sources[s].of \in sources[s].had

KnownRows == OwnHealth /\ \A w \in Handlers : OwnRequest(handler[w])

\* What a request says of rows stays true while its handler waits.
LEMMA OwnLater ==
  ASSUME IInv, RowsStay, NEW r, OwnRequest(r), IInv'
  PROVE  OwnRequest(r)'
<1>0. /\ given.clusters \in Nat /\ given.sources \in Nat
      /\ given'.clusters \in Nat /\ given'.sources \in Nat
  BY DEF IInv, TypeOK
<1>1. \A i : i \in 1 .. given.clusters =>
        /\ i \in 1 .. given'.clusters
        /\ i \in DOMAIN clusters' =>
             /\ i \in DOMAIN clusters
             /\ clusters'[i].form = clusters[i].form /\ clusters'[i].name = clusters[i].name
  BY <1>0 DEF RowsStay
<1>2. \A i : i \in 1 .. given.sources =>
        /\ i \in 1 .. given'.sources
        /\ i \in DOMAIN sources' =>
             /\ i \in DOMAIN sources /\ sources'[i].cluster = sources[i].cluster
             /\ sources[i].had \subseteq sources'[i].had
  BY <1>0 DEF RowsStay
<1>3. r.pc = "done" => Truthful(r)'
  BY <1>1 DEF OwnRequest, Truthful
<1>4. QED BY <1>1, <1>2, <1>3 DEF OwnRequest

\* A response of a code, and a request at a step where it means no row.
LEMMA OwnByPc ==
  ASSUME NEW r,
         \/ r.pc \in {"idle", "probe", "save", "insertSource", "updateSource"}
         \/ r.pc = "rereadSource" /\ r.code = "ok"
         \/ r.pc = "done" /\ r.name = None /\ r.row = None
         \/ r.pc \in {"insert", "lookup"} /\ r.source = None
  PROVE  OwnRequest(r)'
BY DEF OwnRequest, Truthful

LEMMA OwnResponse == ASSUME NEW code PROVE OwnRequest(Response(code))'
<1> DEFINE r == Response(code)
<1>1. r.pc = "done" /\ r.name = None /\ r.row = None
  BY DEF Response, Idle
<1> HIDE DEF r
<1>2. \A q : q = r => OwnRequest(q)'
  BY <1>1, OwnByPc
<1>3. QED BY <1>2 DEF r

\* A handler's step: what it was asked is what it keeps, by the ids it means.
LEMMA OwnStep ==
  ASSUME Dialect = "postgres", IInv, IInv', RowsStay, KnownRows, NEW w \in Handlers,
         ClusterRequest(w) \/ SourceRequest(w) \/ Advance(w)
  PROVE  \E q : handler' = [handler EXCEPT ![w] = q] /\ OwnRequest(q)'
<1> DEFINE Goal == \E q : handler' = [handler EXCEPT ![w] = q] /\ OwnRequest(q)'
<1>q. ASSUME NEW q, handler' = [handler EXCEPT ![w] = q],
             \/ q.pc \in {"idle", "probe", "save", "insertSource", "updateSource"}
             \/ q.pc = "rereadSource" /\ q.code = "ok"
             \/ q.pc \in {"insert", "lookup"} /\ q.source = None
      PROVE  Goal
  <2>1. OwnRequest(q)'
    BY <1>q, OwnByPc
  <2>2. QED BY <1>q, <2>1
<1>a. ASSUME NEW code, handler' = [handler EXCEPT ![w] = Response(code)] PROVE Goal
  BY <1>a, OwnResponse
<1>b. ASSUME NEW code, Answer(w, code) PROVE Goal
  BY <1>a, <1>b DEF Answer, Proceed
<1>0. /\ handler[w] \in Requests /\ Ready(handler[w]) /\ OwnRequest(handler[w])
      /\ DOMAIN clusters \subseteq 1 .. given.clusters /\ DOMAIN sources \subseteq 1 .. given.sources
  BY DEF IInv, TypeOK, Asked, KnownRows
<1> HIDE DEF Goal
<1>1. ASSUME NEW n \in Names, NEW f \in Forms, CreateRequest(w, n, f) PROVE Goal
  <2> DEFINE q == [Idle EXCEPT !.pc = "insert", !.name = n, !.form = f]
  <2>1. q.pc = "insert" /\ q.source = None
    BY DEF Idle
  <2>2. \/ handler' = [handler EXCEPT ![w] = q]
        \/ handler' = [handler EXCEPT ![w] = Response("conflict")]
    BY <1>1 DEF CreateRequest, Take
  <2> HIDE DEF q
  <2>3. QED BY <1>q, <1>a, <2>1, <2>2
<1>2. ASSUME NEW n \in Names, EnsureRequest(w, n) PROVE Goal
  <2> DEFINE q == [Idle EXCEPT !.pc = "lookup", !.name = n]
  <2>1. q.pc = "lookup" /\ q.source = None
    BY DEF Idle
  <2>2. handler' = [handler EXCEPT ![w] = q]
    BY <1>2 DEF EnsureRequest, Take
  <2> HIDE DEF q
  <2>3. QED BY <1>q, <2>1, <2>2
<1>3. ASSUME NEW id \in ClusterIds, DeleteRequest(w, id) PROVE Goal
  <2>1. \E code : handler' = [handler EXCEPT ![w] = Response(code)]
    BY <1>3 DEF DeleteRequest, Take
  <2>2. QED BY <1>a, <2>1
<1>4. ASSUME NEW id \in ClusterIds, TestRequest(w, id) PROVE Goal
  <2>0. PICK f : f = clusters[id].form
    OBVIOUS
  <2> DEFINE q == [Idle EXCEPT !.pc = "probe", !.id = id, !.form = f]
  <2>1. q.pc = "probe"
    BY DEF Idle
  <2>2. \/ handler' = [handler EXCEPT ![w] = q]
        \/ handler' = [handler EXCEPT ![w] = Response("missing")]
    BY <1>4, <2>0 DEF TestRequest, Take
  <2> HIDE DEF q
  <2>3. QED BY <1>q, <1>a, <2>1, <2>2
<1>5. ASSUME NEW id \in ClusterIds, NEW t \in Targets, CreateSourceRequest(w, id, t) PROVE Goal
  <2> DEFINE q == [Idle EXCEPT !.pc = "insertSource", !.id = id, !.target = t]
  <2>1. q.pc = "insertSource"
    BY DEF Idle
  <2>2. \/ handler' = [handler EXCEPT ![w] = q]
        \/ handler' = [handler EXCEPT ![w] = Response("missing")]
    BY <1>5 DEF CreateSourceRequest, Take
  <2> HIDE DEF q
  <2>3. QED BY <1>q, <1>a, <2>1, <2>2
<1>6. ASSUME NEW s \in SourceIds, NEW t \in Targets, UpdateSourceRequest(w, s, t) PROVE Goal
  <2> DEFINE q == [Idle EXCEPT !.pc = "updateSource", !.source = s, !.target = t]
  <2>1. q.pc = "updateSource"
    BY DEF Idle
  <2>2. \/ handler' = [handler EXCEPT ![w] = q]
        \/ handler' = [handler EXCEPT ![w] = Response("missing")]
    BY <1>6 DEF UpdateSourceRequest, Take
  <2> HIDE DEF q
  <2>3. QED BY <1>q, <1>a, <2>1, <2>2
<1>7. ASSUME NEW s \in SourceIds, DeleteSourceRequest(w, s) PROVE Goal
  <2>1. \E code : handler' = [handler EXCEPT ![w] = Response(code)]
    BY <1>7 DEF DeleteSourceRequest, Take
  <2>2. QED BY <1>a, <2>1
<1>8. ASSUME NEW s \in SourceIds, TestSourceRequest(w, s) PROVE Goal
  <2>1. CASE s \notin DOMAIN sources
    BY <1>8, <1>a, <2>1 DEF TestSourceRequest, Take
  <2>2. CASE s \in DOMAIN sources
    <3>0. PICK t : t = sources[s].target
      OBVIOUS
    <3> DEFINE q == [Idle EXCEPT !.pc = "probeSource", !.source = s, !.target = t]
    <3>1. q.pc = "probeSource" /\ q.source = s /\ q.target = t
      BY DEF Idle
    <3>2. handler' = [handler EXCEPT ![w] = q] /\ sources' = sources /\ given' = given
      BY <1>8, <2>2, <3>0 DEF TestSourceRequest, Take
    <3>3. s \in 1 .. given.sources /\ t \in sources[s].had
      BY <1>0, <2>2, <3>0 DEF KnownRows, OwnHealth
    <3> HIDE DEF q
    <3>4. OwnRequest(q)'
      BY <3>1, <3>2, <3>3 DEF OwnRequest
    <3>5. QED BY <3>2, <3>4 DEF Goal
  <2>3. QED BY <2>1, <2>2
<1>9. ASSUME InsertCluster(w) PROVE Goal
  <2>0. PICK new, n, f : /\ new = NewId(clusters, given.clusters)
                         /\ n = handler[w].name /\ f = handler[w].form
    OBVIOUS
  <2>1. PICK q : q = [handler[w] EXCEPT !.pc = "reread", !.id = new]
    OBVIOUS
  <2>2. handler' = [handler EXCEPT ![w] = q]
    BY <1>9, <2>0, <2>1 DEF InsertCluster, Proceed
  <2>3. q.pc = "reread" /\ q.id = new /\ q.source = None /\ q.name = n /\ q.form = f
    <3>1. handler[w].source = None
      BY <1>0, <1>9 DEF OwnRequest, InsertCluster, At
    <3>2. QED BY <1>0, <2>0, <2>1, <3>1 DEF Requests
  <2>4. n \in Names /\ f \in Registered
    BY <1>0, <1>9, <2>0 DEF InsertCluster, At, Ready
  <2>5. AddCluster(NewId(clusters, given.clusters), n, f)
    BY <1>9, <2>0 DEF InsertCluster
  <2>6. new \in DOMAIN clusters' /\ clusters'[new].name = n /\ clusters'[new].form = f
    BY <2>0, <2>4, <2>5, AddKeeps
  <2>7. new \in 1 .. given'.clusters
    BY <2>6 DEF IInv, TypeOK
  <2>8. OwnRequest(q)'
    BY <2>3, <2>6, <2>7 DEF OwnRequest
  <2>9. QED BY <2>2, <2>8 DEF Goal
<1>10. ASSUME RereadCluster(w) PROVE Goal
  <2>1. PICK r, row : r = handler[w] /\ row = RowOf(clusters, r.id)
    OBVIOUS
  <2>2. PICK q : q = [r EXCEPT !.pc = "done", !.code = "created", !.row = row]
    OBVIOUS
  <2>3. handler' = [handler EXCEPT ![w] = q]
    BY <1>10, <2>1, <2>2 DEF RereadCluster, AnswerRow, Proceed
  <2>4. /\ q.pc = "done" /\ q.code = "created" /\ q.row = row
        /\ q.source = r.source /\ q.name = r.name /\ q.form = r.form
    BY <1>0, <2>1, <2>2 DEF Requests
  <2>5. /\ r.source = None
        /\ r.id \in DOMAIN clusters => clusters[r.id].name = r.name /\ clusters[r.id].form = r.form
    BY <1>0, <1>10, <2>1 DEF OwnRequest, RereadCluster, At
  <2>6. row # None => row.name = r.name /\ row.form = r.form
    BY <2>1, <2>5 DEF RowOf
  <2>7. OwnRequest(q)'
    BY <2>4, <2>5, <2>6 DEF OwnRequest, Truthful
  <2>8. QED BY <2>3, <2>7 DEF Goal
<1>11. ASSUME EnsureLookup(w) PROVE Goal
  <2>1. CASE Named(handler[w].name) = {}
    BY <1>11, <1>b, <2>1 DEF EnsureLookup
  <2>2. CASE Named(handler[w].name) # {}
    <3>1. PICK c \in Named(handler[w].name) :
            handler' = [handler EXCEPT ![w] = [handler[w] EXCEPT !.pc = "done", !.code = "ok", !.id = c]]
      BY <1>11, <2>2 DEF EnsureLookup, Proceed
    <3>2. PICK r, q : /\ r = handler[w]
                      /\ q = [r EXCEPT !.pc = "done", !.code = "ok", !.id = c]
      OBVIOUS
    <3>3. q.pc = "done" /\ q.code = "ok" /\ q.id = c /\ q.name = r.name
      BY <1>0, <3>2 DEF Requests
    <3>4. c \in DOMAIN clusters /\ clusters[c].name = r.name /\ c \in 1 .. given.clusters
      BY <1>0, <3>1, <3>2 DEF Named
    <3>5. clusters' = clusters /\ given' = given
      BY <1>11 DEF EnsureLookup
    <3>6. OwnRequest(q)'
      BY <3>3, <3>4, <3>5 DEF OwnRequest, Truthful
    <3>7. handler' = [handler EXCEPT ![w] = q]
      BY <3>1, <3>2
    <3>8. QED BY <3>6, <3>7 DEF Goal
  <2>3. QED BY <2>1, <2>2
<1>12. ASSUME ProbeCluster(w) PROVE Goal
  <2>1. PICK result, answerer, denied :
          handler' = [handler EXCEPT ![w] = [handler[w] EXCEPT
                        !.pc = "save", !.result = result, !.answerer = answerer, !.denied = denied]]
    <3>1. PICK s \in Secrets, reply \in Replies :
            LET asked == ~Unasked(handler[w].form, s)
            IN  handler' = [handler EXCEPT ![w] = [handler[w] EXCEPT
                  !.pc = "save",
                  !.result = IF asked /\ Reached(reply) THEN "reachable" ELSE "unreachable",
                  !.answerer = IF asked /\ reply \in {"ok", "unauthorized"}
                               THEN AskedServer(handler[w].form, s) ELSE None,
                  !.denied = asked /\ reply = "unauthorized"]]
      BY <1>12 DEF ProbeCluster, Proceed
    <3> DEFINE asked == ~Unasked(handler[w].form, s)
    <3>2. WITNESS IF asked /\ Reached(reply) THEN "reachable" ELSE "unreachable",
                  IF asked /\ reply \in {"ok", "unauthorized"}
                  THEN AskedServer(handler[w].form, s) ELSE None,
                  asked /\ reply = "unauthorized"
    <3>3. QED BY <3>1
  <2>2. PICK q : q = [handler[w] EXCEPT !.pc = "save", !.result = result, !.answerer = answerer, !.denied = denied]
    OBVIOUS
  <2>3. q.pc = "save"
    BY <1>0, <2>2 DEF Requests
  <2>4. QED BY <1>q, <2>1, <2>2, <2>3
<1>13. ASSUME InsertSource(w) PROVE Goal
  <2>0. PICK new, r : new = NewId(sources, given.sources) /\ r = handler[w]
    OBVIOUS
  <2>1. PICK q : q = [r EXCEPT !.pc = "rereadSource", !.source = new,
                               !.target = None, !.code = "created"]
    OBVIOUS
  <2>2. handler' = [handler EXCEPT ![w] = q]
    BY <1>13, <2>0, <2>1 DEF InsertSource, AddSource, Proceed
  <2>3. q.pc = "rereadSource" /\ q.source = new /\ q.id = r.id
    BY <1>0, <2>0, <2>1 DEF Requests
  <2>4. new \in 1 .. given'.sources /\ sources'[new].cluster = r.id
    <3>1. /\ new \in 1 .. given'.sources
          /\ sources'[new] = [cluster |-> handler[w].id, target |-> handler[w].target,
                              health |-> None, of |-> None, had |-> {handler[w].target}]
      BY <1>13, <2>0, AddSourceKeeps
    <3>2. QED BY <2>0, <3>1
  <2>5. OwnRequest(q)'
    BY <2>3, <2>4 DEF OwnRequest
  <2>6. QED BY <2>2, <2>5 DEF Goal
<1>14. ASSUME UpdateSource(w) PROVE Goal
  <2>1. PICK q : q = [handler[w] EXCEPT !.pc = "rereadSource", !.target = None, !.code = "ok"]
    OBVIOUS
  <2>2. handler' = [handler EXCEPT ![w] = q]
    BY <1>14, <2>1 DEF UpdateSource, Proceed
  <2>3. q.pc = "rereadSource" /\ q.code = "ok"
    BY <1>0, <2>1 DEF Requests
  <2>4. QED BY <1>q, <2>2, <2>3
<1>15. ASSUME RereadSource(w) PROVE Goal
  <2>1. CASE handler[w].code # "created"
    BY <1>15, <1>b, <2>1 DEF RereadSource
  <2>2. CASE handler[w].code = "created"
    <3>1. PICK r, row : r = handler[w] /\ row = RowOf(sources, r.source)
      OBVIOUS
    <3>2. PICK q : q = [r EXCEPT !.pc = "done", !.code = "created", !.row = row]
      OBVIOUS
    <3>3. handler' = [handler EXCEPT ![w] = q]
      BY <1>15, <2>2, <3>1, <3>2 DEF RereadSource, AnswerRow, Proceed
    <3>4. /\ q.pc = "done" /\ q.code = "created" /\ q.row = row
          /\ q.source = r.source /\ q.id = r.id
      BY <1>0, <3>1, <3>2 DEF Requests
    <3>5. /\ r.source \in 1 .. given.sources
          /\ r.source \in DOMAIN sources => sources[r.source].cluster = r.id
      BY <1>0, <1>15, <2>2, <3>1 DEF OwnRequest, RereadSource, At
    <3>6. r.source # None
      BY <3>5, ApiAssumption
    <3>7. row # None => row.cluster = r.id
      BY <3>1, <3>5 DEF RowOf
    <3>8. OwnRequest(q)'
      BY <3>4, <3>6, <3>7 DEF OwnRequest, Truthful
    <3>9. QED BY <3>3, <3>8 DEF Goal
  <2>3. QED BY <2>1, <2>2
<1>16. ASSUME ProbeSource(w) PROVE Goal
  <2>1. PICK health : handler' = [handler EXCEPT ![w] = [handler[w] EXCEPT
                                     !.pc = "saveHealth", !.result = health]]
    BY <1>16 DEF ProbeSource, Proceed
  <2>2. PICK r, q : /\ r = handler[w]
                    /\ q = [r EXCEPT !.pc = "saveHealth", !.result = health]
    OBVIOUS
  <2>3. q.pc = "saveHealth" /\ q.source = r.source /\ q.target = r.target
    BY <1>0, <2>2 DEF Requests
  <2>4. /\ r.source \in 1 .. given.sources
        /\ r.source \in DOMAIN sources => r.target \in sources[r.source].had
    BY <1>0, <1>16, <2>2 DEF OwnRequest, ProbeSource, At
  <2>5. sources' = sources /\ given' = given
    BY <1>16 DEF ProbeSource
  <2>6. OwnRequest(q)'
    BY <2>3, <2>4, <2>5 DEF OwnRequest
  <2>7. QED BY <2>1, <2>2, <2>6 DEF Goal
<1>17. ASSUME InsertRefused(w) \/ ProbeRaises(w) PROVE Goal
  BY <1>17, <1>b DEF InsertRefused, ProbeRaises
<1>18. ASSUME SaveStatus(w) \/ SaveHealth(w) PROVE Goal
  BY <1>18, <1>b DEF SaveStatus, SaveHealth
<1>19. ASSUME InsertSourceRefused(w) PROVE Goal
  BY <1>19, <1>b DEF InsertSourceRefused
<1>20. ASSUME Respond(w) PROVE Goal
  <2>1. PICK q : q = Idle
    OBVIOUS
  <2>2. q.pc = "idle" /\ handler' = [handler EXCEPT ![w] = q]
    BY <1>20, <2>1 DEF Respond, Proceed, Idle
  <2>3. QED BY <1>q, <2>2
<1>21. CASE ClusterRequest(w)
  BY <1>21, <1>1, <1>2, <1>3, <1>4 DEF ClusterRequest, Goal
<1>22. CASE SourceRequest(w)
  BY <1>22, <1>5, <1>6, <1>7, <1>8 DEF SourceRequest, Goal
<1>23. CASE Advance(w)
  BY <1>23, <1>9, <1>10, <1>11, <1>12, <1>13, <1>14, <1>15, <1>16, <1>17, <1>18, <1>19, <1>20
  DEF Advance, Goal
<1>24. QED BY <1>21, <1>22, <1>23

\* A health is saved in the row the probe was made for.
LEMMA OwnHealthKept ==
  ASSUME IInv, KnownRows, [Next]_vars
  PROVE  OwnHealth'
<1>1. ASSUME NEW w \in Handlers, InsertSource(w) PROVE OwnHealth'
  <2> DEFINE new == NewId(sources, given.sources)
             t == handler[w].target
  <2>1. /\ DOMAIN sources' = DOMAIN sources \cup {new}
        /\ \A s \in DOMAIN sources : sources'[s] = sources[s]
        /\ sources'[new] = [cluster |-> handler[w].id, target |-> t,
                            health |-> None, of |-> None, had |-> {t}]
    BY <1>1, AddSourceKeeps
  <2> HIDE DEF new, t
  <2>2. sources'[new].target = t /\ sources'[new].health = None /\ sources'[new].had = {t}
    BY <2>1
  <2>3. QED BY <2>1, <2>2 DEF KnownRows, OwnHealth
<1>2. ASSUME NEW w \in Handlers, UpdateSource(w) PROVE OwnHealth'
  <2>1. DOMAIN sources' = DOMAIN sources
    BY <1>2 DEF UpdateSource
  <2>2. ASSUME NEW s \in DOMAIN sources
        PROVE  /\ sources'[s].target \in sources'[s].had
               /\ sources'[s].health # None => sources'[s].of \in sources'[s].had
    BY <1>2, UpdateKeeps DEF KnownRows, OwnHealth
  <2>3. QED BY <2>1, <2>2 DEF OwnHealth
<1>3. ASSUME NEW w \in Handlers, SaveHealth(w) PROVE OwnHealth'
  <2>1. DOMAIN sources' = DOMAIN sources
    BY <1>3 DEF SaveHealth
  <2>2. ASSUME NEW s \in DOMAIN sources
        PROVE  /\ sources'[s].target \in sources'[s].had
               /\ sources'[s].health # None => sources'[s].of \in sources'[s].had
    <3>1. sources[s].target \in sources[s].had
      BY DEF KnownRows, OwnHealth
    <3>2. CASE s = handler[w].source
      <4>1. handler[w].target \in sources[s].had
        BY <1>3, <3>2 DEF KnownRows, OwnRequest, SaveHealth, At
      <4>2. QED BY <1>3, <3>1, <3>2, <4>1, HealthKeeps
    <3>3. CASE s # handler[w].source
      <4>1. sources'[s] = sources[s]
        BY <1>3, <3>3, HealthKeeps
      <4>2. QED BY <4>1 DEF KnownRows, OwnHealth
    <3>4. QED BY <3>2, <3>3
  <2>3. QED BY <2>1, <2>2 DEF OwnHealth
<1>4. CASE SourcesFewer
  BY <1>4 DEF KnownRows, OwnHealth, SourcesFewer
<1>5. QED BY <1>1, <1>2, <1>3, <1>4, SourceSteps

LEMMA KnownRowsKept ==
  ASSUME Dialect = "postgres", IInv, IInv', KnownRows, [Next]_vars
  PROVE  KnownRows'
<1>0. RowsStay
  BY RowsKept
<1>1. ASSUME NEW v \in Handlers, handler'[v] = handler[v] PROVE OwnRequest(handler[v])'
  <2>1. PICK r : r = handler[v]
    OBVIOUS
  <2>2. OwnRequest(r)'
    BY <1>0, <2>1, OwnLater DEF KnownRows
  <2>3. QED BY <1>1, <2>1, <2>2
<1>2. \A v \in Handlers : OwnRequest(handler[v])'
  <2>1. CASE UNCHANGED vars
    BY <1>1, <2>1 DEF vars
  <2>2. CASE Next
    <3>1. PICK w \in Handlers : ClusterRequest(w) \/ SourceRequest(w) \/ Advance(w)
      BY <2>2 DEF Next
    <3>2. PICK q : handler' = [handler EXCEPT ![w] = q] /\ OwnRequest(q)'
      BY <1>0, <3>1, OwnStep
    <3>3. \A v \in Handlers : handler'[v] = IF v = w THEN q ELSE handler[v]
      BY <3>2 DEF IInv, TypeOK
    <3>4. QED BY <1>1, <3>2, <3>3
  <2>3. QED BY <2>1, <2>2
<1>3. QED BY <1>2, OwnHealthKept DEF KnownRows

\* On Postgres a request's ids mean the rows it found or added, throughout.
THEOREM RowsKnown == ASSUME Dialect = "postgres" PROVE Spec => []KnownRows
<1>1. Init => KnownRows
  BY DEF Init, KnownRows, OwnHealth, OwnRequest, Idle
<1>2. IInv /\ IInv' /\ KnownRows /\ [Next]_vars => KnownRows'
  BY KnownRowsKept
<1>3. QED BY <1>1, <1>2, Invariance, PTL DEF Spec

\* On Postgres no late probe marks another source: a health was found for a target that
\* this very source has or had.
THEOREM OwnHealthFound == ASSUME Dialect = "postgres" PROVE Spec => []HealthFound
<1>1. KnownRows => HealthFound
  BY DEF KnownRows, OwnHealth, HealthFound
<1>2. QED BY <1>1, RowsKnown, PTL

\* On Postgres a 201 shows the row its request created or none, and the id returned by
\* ensure_cluster is no other cluster's, whatever was created and deleted meanwhile.
THEOREM OwnAnswers == ASSUME Dialect = "postgres" PROVE Spec => []AnswersOwn
<1>1. KnownRows => AnswersOwn
  <2> SUFFICES ASSUME KnownRows, NEW w \in Handlers, handler[w].pc = "done"
               PROVE  /\ handler[w].code = "created" /\ handler[w].row # None =>
                           IF handler[w].source = None
                           THEN handler[w].row.name = handler[w].name /\ handler[w].row.form = handler[w].form
                           ELSE handler[w].row.cluster = handler[w].id
                      /\ handler[w].code = "ok" /\ handler[w].name # None /\ handler[w].id \in DOMAIN clusters =>
                           clusters[handler[w].id].name = handler[w].name
    BY DEF AnswersOwn, At
  <2>1. Truthful(handler[w])
    BY DEF KnownRows, OwnRequest
  <2>2. QED BY <2>1 DEF Truthful
<1>2. QED BY <1>1, RowsKnown, PTL
=============================================================================
