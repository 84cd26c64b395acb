------------------------------ MODULE ConfigApi ------------------------------
(***************************************************************************)
(* The configuration endpoints of the engine's API: clusters and data      *)
(* sources are registered, changed, probed and deleted by requests that    *)
(* overlap.  A handler thread has its own database session; each of its    *)
(* writes is one statement followed by its commit, so that a write is one  *)
(* action, but a handler reads, decides, probes over the network and       *)
(* writes in separate ones.                                                *)
(*                                                                         *)
(* A form stands for the fields of a registration that a probe uses.  A    *)
(* source's type and endpoint are abstracted to what is probed: an         *)
(* endpoint, or None for another type than prometheus or no endpoint.      *)
(***************************************************************************)
EXTENDS Integers, FiniteSets, Functions, FiniteSetsExt

CONSTANTS
  Handlers,     \* handler threads
  Names,        \* names of clusters
  Servers,      \* API servers
  OwnServer,    \* the server of the cluster the engine runs in, or None
  Forms,        \* what may be registered, a subset of AllForms
  Endpoints,    \* Prometheus endpoints
  Dialect,      \* "sqlite" or "postgres"
  MaxClusters,  \* bound: clusters created (in SQLite, live ones)
  MaxSources,   \* bound: the same of sources
  MaxRows,      \* bound: of both together, a cluster counting for two
  None          \* NULL

\* The table's CHECK leaves no other auth_method to probe with.
AllForms == [api_url     : Servers \cup {None},
             auth_method : {"token", "basic", "client_cert", "kubeconfig", None},
             credential  : BOOLEAN]  \* a credential_ref was given

\* What ensure_cluster inserts: a name without any connection data.
NoForm == [api_url |-> None, auth_method |-> None, credential |-> FALSE]

Registered == Forms \cup {NoForm}

Targets == Endpoints \cup {None}

ASSUME ApiAssumption ==
  /\ None \notin Names \cup Servers \cup Endpoints \cup Nat
  /\ OwnServer \in Servers \cup {None}
  /\ Forms \subseteq AllForms
  /\ Dialect \in {"sqlite", "postgres"}
  /\ MaxClusters \in Nat /\ MaxSources \in Nat /\ MaxRows \in Nat

VARIABLES
  clusters,   \* table clusters, by id
  sources,    \* table data_sources, by id
  given,      \* the largest ids given so far (a sequence's gaps for refused rows are left out)
  handler     \* the request each handler is working on

vars == <<clusters, sources, given, handler>>

ClusterIds == 1 .. MaxClusters
SourceIds == 1 .. MaxSources

\* A probe: the form it was made with, the server that answered /version with 200, 401
\* or 403, and whether it denied access, with one of the latter.
Probes == [form : Registered, answerer : Servers \cup {None}, denied : BOOLEAN]

\* A cluster; by and reached are history: the probe that gave it its status, and
\* whether some probe saved in the row was answered with 200.
ClusterRow == [name : Names, form : Registered,
               status : {"unknown", "reachable", "unreachable"}, connected : BOOLEAN,
               by : Probes \cup {None}, reached : BOOLEAN]

\* A source; of and had are history: the target that was probed for its health,
\* and the targets the row was given since its creation.
SourceRow == [cluster : Nat, target : Targets,
              health : {"healthy", "unreachable", "unknown", None},
              of : Targets, had : SUBSET Targets]

\* A handler's request: the fields it was given or has read, and its response.
Requests ==
  [pc : {"idle", "insert", "reread", "lookup", "probe", "save", "insertSource", "rereadSource",
         "updateSource", "probeSource", "saveHealth", "done"},
   id : Nat \cup {None}, source : Nat \cup {None}, name : Names \cup {None},
   form : Registered \cup {None}, target : Targets, answerer : Servers \cup {None}, denied : BOOLEAN,
   result : {"reachable", "unreachable", "healthy", "unknown", None},
   code : {"ok", "created", "missing", "conflict", "error", None},
   row : ClusterRow \cup SourceRow \cup {None}]

Idle == [pc |-> "idle", id |-> None, source |-> None, name |-> None, form |-> None,
         target |-> None, answerer |-> None, denied |-> FALSE, result |-> None,
         code |-> None, row |-> None]

At(w, pc) == handler[w].pc = pc

Named(n) == {c \in DOMAIN clusters : clusters[c].name = n}

Put(f, k, v) == [x \in DOMAIN f \cup {k} |-> IF x = k THEN v ELSE f[x]]

RowOf(table, k) == IF k \in DOMAIN table THEN table[k] ELSE None

-----------------------------------------------------------------------------
(* Ids.  A Postgres sequence never gives an id twice; an INTEGER PRIMARY   *)
(* KEY of SQLite is one more than the largest one in the table.            *)

\* Mutant: the ids of deleted rows are given again, as SQLite does.
FreedId(table, last) == 1 + Max({0} \cup DOMAIN table)

NewId(table, last) ==
  IF Dialect = "sqlite" THEN 1 + Max({0} \cup DOMAIN table) ELSE last + 1

\* The rows created once the inserts under way are done.
ClustersDue ==
  NewId(clusters, given.clusters) - 1 + Cardinality({w \in Handlers : At(w, "insert")})
SourcesDue ==
  NewId(sources, given.sources) - 1 + Cardinality({w \in Handlers : At(w, "insertSource")})

\* Bounds: no insert is begun beyond them.
Room(c, s) == c <= MaxClusters /\ s <= MaxSources /\ 2 * c + s <= MaxRows
RoomForCluster == Room(ClustersDue + 1, SourcesDue)
RoomForSource == Room(ClustersDue, SourcesDue + 1)

AddCluster(id, n, f) ==
  /\ clusters' = Put(clusters, id, [name |-> n, form |-> f, status |-> "unknown",
                                     connected |-> FALSE, by |-> None, reached |-> FALSE])
  /\ given' = [given EXCEPT !.clusters = IF id > @ THEN id ELSE @]

-----------------------------------------------------------------------------
(* Steps of a handler.                                                     *)

Take(w, request) == At(w, "idle") /\ handler' = [handler EXCEPT ![w] = request]

Proceed(w, step) == handler' = [handler EXCEPT ![w] = step]

\* A response of which only the code matters.
Response(code) == [Idle EXCEPT !.pc = "done", !.code = code]

Answer(w, code) == Proceed(w, Response(code))

\* The response shows a row: the request's fields are kept to compare it with.
AnswerRow(w, code, r) ==
  Proceed(w, [handler[w] EXCEPT !.pc = "done", !.code = code, !.row = r])

-----------------------------------------------------------------------------
(* Clusters: create_cluster, ensure_cluster, delete_cluster.               *)

\* The handler looks for the name before it inserts.
CreateRequest(w, n, f) ==
  /\ RoomForCluster
  /\ Take(w, IF Named(n) # {} THEN Response("conflict")
             ELSE [Idle EXCEPT !.pc = "insert", !.name = n, !.form = f])
  /\ UNCHANGED <<clusters, sources, given>>

\* Mutant: clusters.name is not UNIQUE.
InsertAnyName(w) ==
  LET new == NewId(clusters, given.clusters)
  IN  /\ At(w, "insert")
      /\ AddCluster(new, handler[w].name, handler[w].form)
      /\ Proceed(w, [handler[w] EXCEPT !.pc = "reread", !.id = new])
      /\ UNCHANGED <<sources>>

InsertCluster(w) ==
  LET new == NewId(clusters, given.clusters)
  IN  /\ At(w, "insert")
      /\ Named(handler[w].name) = {}
      /\ AddCluster(new, handler[w].name, handler[w].form)
      /\ Proceed(w, [handler[w] EXCEPT !.pc = "reread", !.id = new])
      /\ UNCHANGED <<sources>>

\* The name was taken since: the UNIQUE constraint refuses the row, HTTP 500.
InsertRefused(w) ==
  /\ At(w, "insert")
  /\ Named(handler[w].name) # {}
  /\ Answer(w, "error")
  /\ UNCHANGED <<clusters, sources, given>>

\* The body of the 201 is read back by id, after the commit.
RereadCluster(w) ==
  /\ At(w, "reread")
  /\ AnswerRow(w, "created", RowOf(clusters, handler[w].id))
  /\ UNCHANGED <<clusters, sources, given>>

\* INSERT ... ON CONFLICT (name) DO NOTHING; the id is looked up afterwards.
EnsureRequest(w, n) ==
  /\ RoomForCluster
  /\ Take(w, [Idle EXCEPT !.pc = "lookup", !.name = n])
  /\ IF Named(n) # {} THEN UNCHANGED <<clusters, given>>
     ELSE AddCluster(NewId(clusters, given.clusters), n, NoForm)
  /\ UNCHANGED <<sources>>

\* Mutant: the newest row is taken for the one that was ensured.
EnsureLast(w) ==
  /\ At(w, "lookup")
  /\ IF clusters = <<>> THEN Answer(w, "error")
     ELSE Proceed(w, [handler[w] EXCEPT !.pc = "done", !.code = "ok", !.id = Max(DOMAIN clusters)])
  /\ UNCHANGED <<clusters, sources, given>>

\* A row deleted meanwhile is a TypeError in Python, an error in Go.
EnsureLookup(w) ==
  /\ At(w, "lookup")
  /\ IF Named(handler[w].name) = {} THEN Answer(w, "error")
     ELSE \E c \in Named(handler[w].name) :
            Proceed(w, [handler[w] EXCEPT !.pc = "done", !.code = "ok", !.id = c])
  /\ UNCHANGED <<clusters, sources, given>>

\* ON DELETE CASCADE takes the cluster's sources with it.
DeleteRequest(w, id) ==
  /\ Take(w, Response(IF id \in DOMAIN clusters THEN "ok" ELSE "missing"))
  /\ clusters' = Restrict(clusters, (DOMAIN clusters) \ {id})
  /\ sources' = Restrict(sources, {s \in DOMAIN sources : sources[s].cluster # id})
  /\ UNCHANGED <<given>>

-----------------------------------------------------------------------------
(* kube.probe: where it asks, and what it makes of the answer.             *)

\* What reading the Secret named by credential_ref may give: no answer, or its keys.
Unreadable == [readable |-> FALSE, certs |-> FALSE, kubeconfig |-> "absent"]
Secrets == {Unreadable} \cup
           [readable : {TRUE}, certs : BOOLEAN,
            kubeconfig : {"absent", "malformed", "no_server"} \cup Servers]

\* What a server may answer: nothing, 200, 401 or 403, another 2xx.
Replies == {"down", "ok", "unauthorized", "other"}

Server(f) == IF f.api_url # None THEN f.api_url ELSE OwnServer

Kubeconfig(f) == f.credential /\ f.auth_method = "kubeconfig"

\* The early returns before any request to the server.
Unasked(f, s) ==
  \/ Server(f) = None
  \/ /\ f.credential
     /\ \/ OwnServer = None
        \/ ~s.readable
        \/ f.auth_method = "client_cert" /\ ~s.certs
        \/ Kubeconfig(f) /\ s.kubeconfig = "absent"

\* The kubeconfig is parsed outside any except clause.
Raises(f, s) == ~Unasked(f, s) /\ Kubeconfig(f) /\ s.kubeconfig = "malformed"

\* Mutant: the kubeconfig's server replaces the registered one.
KubeconfigServer(f, s) ==
  IF Kubeconfig(f) /\ s.kubeconfig \in Servers THEN s.kubeconfig ELSE Server(f)

AskedServer(f, s) ==
  IF Kubeconfig(f) /\ s.kubeconfig \in Servers /\ f.api_url = None
  THEN s.kubeconfig ELSE Server(f)

\* urlopen raises for refused connections and for every status from 400 on.
HttpGet(reply) == IF reply \in {"ok", "other"} THEN reply ELSE "raised"

Reached(reply) == HttpGet(reply) \in {"ok", "unauthorized"}

\* A saved cluster is probed with the fields read before the probe.
TestRequest(w, id) ==
  /\ Take(w, IF id \notin DOMAIN clusters THEN Response("missing")
             ELSE [Idle EXCEPT !.pc = "probe", !.id = id, !.form = clusters[id].form])
  /\ UNCHANGED <<clusters, sources, given>>

ProbeCluster(w) ==
  LET f == handler[w].form
  IN  /\ At(w, "probe")
      /\ \E s \in Secrets, reply \in Replies :
           LET asked == ~Unasked(f, s)
           IN  /\ ~Raises(f, s)
               /\ Proceed(w, [handler[w] EXCEPT
                    !.pc = "save",
                    !.result = IF asked /\ Reached(reply) THEN "reachable" ELSE "unreachable",
                    !.answerer = IF asked /\ reply \in {"ok", "unauthorized"}
                                 THEN AskedServer(f, s) ELSE None,
                    !.denied = asked /\ reply = "unauthorized"])
      /\ UNCHANGED <<clusters, sources, given>>

\* The exception leaves the handler: HTTP 500, no status is saved.
ProbeRaises(w) ==
  /\ At(w, "probe")
  /\ \E s \in Secrets : Raises(handler[w].form, s)
  /\ Answer(w, "error")
  /\ UNCHANGED <<clusters, sources, given>>

Saved(c, request, touch) ==
  [c EXCEPT !.status = request.result,
            !.connected = @ \/ touch,
            !.by = [form |-> request.form, answerer |-> request.answerer, denied |-> request.denied],
            !.reached = @ \/ (request.answerer # None /\ ~request.denied)]

\* Mutant: last_connected_at is set by every probe.
SaveTouching(w) ==
  /\ At(w, "save")
  /\ clusters' = [c \in DOMAIN clusters |->
                    IF c # handler[w].id THEN clusters[c]
                    ELSE Saved(clusters[c], handler[w], TRUE)]
  /\ Answer(w, "ok")
  /\ UNCHANGED <<sources, given>>

\* update_cluster_status: by id, whatever row has it by now, if any.
\* last_connected_at is set only if the cluster was reached.
SaveStatus(w) ==
  /\ At(w, "save")
  /\ clusters' = [c \in DOMAIN clusters |->
                    IF c # handler[w].id THEN clusters[c]
                    ELSE Saved(clusters[c], handler[w], handler[w].result = "reachable")]
  /\ Answer(w, "ok")
  /\ UNCHANGED <<sources, given>>

-----------------------------------------------------------------------------
(* Data sources.                                                           *)

CreateSourceRequest(w, id, t) ==
  /\ RoomForSource
  /\ Take(w, IF id \notin DOMAIN clusters THEN Response("missing")
             ELSE [Idle EXCEPT !.pc = "insertSource", !.id = id, !.target = t])
  /\ UNCHANGED <<clusters, sources, given>>

AddSource(w) ==
  LET new == NewId(sources, given.sources)
      t == handler[w].target
  IN  /\ sources' = Put(sources, new, [cluster |-> handler[w].id, target |-> t,
                                       health |-> None, of |-> None, had |-> {t}])
      /\ given' = [given EXCEPT !.sources = IF new > @ THEN new ELSE @]
      /\ Proceed(w, [handler[w] EXCEPT !.pc = "rereadSource", !.source = new,
                                         !.target = None, !.code = "created"])

\* Mutant: the foreign key is not enforced, SQLite's default.
InsertUnowned(w) ==
  /\ At(w, "insertSource")
  /\ AddSource(w)
  /\ UNCHANGED <<clusters>>

InsertSource(w) ==
  /\ At(w, "insertSource")
  /\ handler[w].id \in DOMAIN clusters
  /\ AddSource(w)
  /\ UNCHANGED <<clusters>>

\* The cluster was deleted since: the foreign key refuses the row, HTTP 500.
InsertSourceRefused(w) ==
  /\ At(w, "insertSource")
  /\ handler[w].id \notin DOMAIN clusters
  /\ Answer(w, "error")
  /\ UNCHANGED <<clusters, sources, given>>

UpdateSourceRequest(w, s, t) ==
  /\ Take(w, IF s \notin DOMAIN sources THEN Response("missing")
             ELSE [Idle EXCEPT !.pc = "updateSource", !.source = s, !.target = t])
  /\ UNCHANGED <<clusters, sources, given>>

\* The health found for the former target stays.
UpdateSource(w) ==
  /\ At(w, "updateSource")
  /\ sources' = [s \in DOMAIN sources |->
                   IF s # handler[w].source THEN sources[s]
                   ELSE [sources[s] EXCEPT !.target = handler[w].target,
                                           !.had = @ \cup {handler[w].target}]]
  /\ Proceed(w, [handler[w] EXCEPT !.pc = "rereadSource", !.target = None, !.code = "ok"])
  /\ UNCHANGED <<clusters, given>>

RereadSource(w) ==
  /\ At(w, "rereadSource")
  /\ IF handler[w].code = "created"
     THEN AnswerRow(w, "created", RowOf(sources, handler[w].source))
     ELSE Answer(w, "ok")
  /\ UNCHANGED <<clusters, sources, given>>

DeleteSourceRequest(w, s) ==
  /\ Take(w, Response(IF s \in DOMAIN sources THEN "ok" ELSE "missing"))
  /\ sources' = Restrict(sources, (DOMAIN sources) \ {s})
  /\ UNCHANGED <<clusters, given>>

TestSourceRequest(w, s) ==
  /\ Take(w, IF s \notin DOMAIN sources THEN Response("missing")
             ELSE [Idle EXCEPT !.pc = "probeSource", !.source = s, !.target = sources[s].target])
  /\ UNCHANGED <<clusters, sources, given>>

\* _probe_prometheus.
ProbeSource(w) ==
  LET t == handler[w].target
  IN  /\ At(w, "probeSource")
      /\ \E health \in IF t = None THEN {"unknown"} ELSE {"healthy", "unreachable"} :
           Proceed(w, [handler[w] EXCEPT !.pc = "saveHealth", !.result = health])
      /\ UNCHANGED <<clusters, sources, given>>

\* Mutant: the health is saved in every source of the cluster.
SaveHealthOfCluster(w) ==
  LET probed == handler[w].source
  IN  /\ At(w, "saveHealth")
      /\ sources' = [s \in DOMAIN sources |->
                       IF probed \in DOMAIN sources /\ sources[s].cluster = sources[probed].cluster
                       THEN [sources[s] EXCEPT !.health = handler[w].result, !.of = handler[w].target]
                       ELSE sources[s]]
      /\ Answer(w, "ok")
      /\ UNCHANGED <<clusters, given>>

\* set_source_health: by id, whatever row has it by now, if any.
SaveHealth(w) ==
  /\ At(w, "saveHealth")
  /\ sources' = [s \in DOMAIN sources |->
                   IF s # handler[w].source THEN sources[s]
                   ELSE [sources[s] EXCEPT !.health = handler[w].result,
                                           !.of = handler[w].target]]
  /\ Answer(w, "ok")
  /\ UNCHANGED <<clusters, given>>

\* The response is sent and the session closed.
Respond(w) ==
  /\ At(w, "done")
  /\ Proceed(w, Idle)
  /\ UNCHANGED <<clusters, sources, given>>

-----------------------------------------------------------------------------
Init ==
  /\ clusters = <<>> /\ sources = <<>>
  /\ given = [clusters |-> 0, sources |-> 0]
  /\ handler = [w \in Handlers |-> Idle]

ClusterRequest(w) ==
  \/ \E n \in Names, f \in Forms : CreateRequest(w, n, f)
  \/ \E n \in Names : EnsureRequest(w, n)
  \/ \E id \in ClusterIds : DeleteRequest(w, id)
  \/ \E id \in ClusterIds : TestRequest(w, id)

SourceRequest(w) ==
  \/ \E id \in ClusterIds, t \in Targets : CreateSourceRequest(w, id, t)
  \/ \E s \in SourceIds, t \in Targets : UpdateSourceRequest(w, s, t)
  \/ \E s \in SourceIds : DeleteSourceRequest(w, s)
  \/ \E s \in SourceIds : TestSourceRequest(w, s)

\* What a handler does by itself once it has a request.
Advance(w) ==
  \/ InsertCluster(w) \/ InsertRefused(w) \/ RereadCluster(w) \/ EnsureLookup(w)
  \/ ProbeCluster(w) \/ ProbeRaises(w) \/ SaveStatus(w)
  \/ InsertSource(w) \/ InsertSourceRefused(w) \/ UpdateSource(w) \/ RereadSource(w)
  \/ ProbeSource(w) \/ SaveHealth(w)
  \/ Respond(w)

Next == \E w \in Handlers : ClusterRequest(w) \/ SourceRequest(w) \/ Advance(w)

Spec == Init /\ [][Next]_vars

-----------------------------------------------------------------------------
\* Every variable has its type; the tables hold ids that were given.
TypeOK ==
  /\ given \in [clusters : Nat, sources : Nat]
  /\ DOMAIN clusters \subseteq 1 .. given.clusters
  /\ \A c \in DOMAIN clusters : clusters[c] \in ClusterRow
  /\ DOMAIN sources \subseteq 1 .. given.sources
  /\ \A s \in DOMAIN sources : sources[s] \in SourceRow
  /\ handler \in [Handlers -> Requests]

\* However the name checks of create_cluster and ensure_cluster interleave with
\* inserts and deletions, no two clusters have one name, so that a name given to
\* a run or a collection means one cluster.
NamesUnique ==
  \A c, d \in DOMAIN clusters : clusters[c].name = clusters[d].name => c = d

\* A source belongs to a cluster that exists, though its handler checked for the
\* cluster before another handler deleted it.
SourcesOwned == \A s \in DOMAIN sources : sources[s].cluster \in DOMAIN clusters

\* The status of a cluster was found by a probe with this cluster's own connection data,
\* never by one that was under way for a cluster deleted since.
StatusFound ==
  \A c \in DOMAIN clusters :
    clusters[c].status # "unknown" =>
      clusters[c].by \in Probes /\ clusters[c].by.form = clusters[c].form

\* A cluster is called reachable only if a server answered the probe, with 200 or a
\* refusal of the credentials, and this is the registered one where an api_url was given,
\* not the engine's own or a kubeconfig's.
ReachableAnswered ==
  \A c \in DOMAIN clusters :
    LET r == clusters[c]
    IN  r.status = "reachable" =>
          r.by.answerer \in IF r.form.api_url # None THEN {r.form.api_url} ELSE Servers

\* A cluster that has a last_connected_at answered some probe with 200: a failed one never
\* counts as a connection, and a later failure does not take it back.
ConnectedReached == \A c \in DOMAIN clusters : clusters[c].connected = clusters[c].reached

\* The health of a source was found for a target this very source has or had:
\* a late probe never marks another source.
HealthFound ==
  \A s \in DOMAIN sources :
    sources[s].health # None => sources[s].of \in sources[s].had

\* A 201 shows the row its request created, or nothing if it was deleted by then; the
\* id that ensure_cluster returns is no other cluster's.
AnswersOwn ==
  \A w \in Handlers : At(w, "done") =>
    /\ handler[w].code = "created" /\ handler[w].row # None =>
         IF handler[w].source = None
         THEN handler[w].row.name = handler[w].name /\ handler[w].row.form = handler[w].form
         ELSE handler[w].row.cluster = handler[w].id
    /\ handler[w].code = "ok" /\ handler[w].name # None /\ handler[w].id \in DOMAIN clusters =>
         clusters[handler[w].id].name = handler[w].name
=============================================================================
