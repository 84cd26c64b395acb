---------------------------- MODULE UpstreamDeps ----------------------------
(***************************************************************************)
(* upstream_deps: which workloads a maintenance of `target` impacts.  A    *)
(* breadth-first search over the reversed interaction edges, one query of  *)
(* the interactions table per node.  The table is not locked meanwhile:    *)
(* edges may be inserted between two queries, never removed (a cluster is  *)
(* deleted as a whole, and then the run fails).                            *)
(***************************************************************************)
EXTENDS Integers, Sequences, Functions

CONSTANTS
  Nodes,      \* workload uids of the cluster
  target,     \* the workload to be taken down
  MaxDepth,   \* max_depth: rounds of the search
  Start,      \* the callers of each node when the search starts
  Later       \* interactions <<src, dst>> that may be inserted while it runs

ASSUME DepsAssumption ==
  /\ target \in Nodes
  /\ MaxDepth \in Nat
  /\ Start \in [Nodes -> SUBSET Nodes]
  /\ Later \subseteq Nodes \X Nodes

VARIABLES
  callers,    \* interactions: callers[u] = {src : src -> u is stored}
  pc,         \* "round", "node", "edges" or "done"
  visited, order, frontier, nextFrontier, depth,
  edges       \* rows of the current query not yet looked at

search == <<pc, visited, order, frontier, nextFrontier, depth, edges>>
vars == <<callers, search>>

Init ==
  /\ callers = Start
  /\ pc = "round"
  /\ visited = {target}
  /\ order = <<>>
  /\ frontier = <<target>>
  /\ nextFrontier = <<>>
  /\ depth = 0
  /\ edges = {}

\* Mutant: one round too few.
BeginRoundShort ==
  /\ pc = "round"
  /\ pc' = IF frontier # <<>> /\ depth + 1 < MaxDepth THEN "node" ELSE "done"
  /\ UNCHANGED <<callers, visited, order, frontier, nextFrontier, depth, edges>>

\* while frontier and depth < max_depth
BeginRound ==
  /\ pc = "round"
  /\ pc' = IF frontier # <<>> /\ depth < MaxDepth THEN "node" ELSE "done"
  /\ UNCHANGED <<callers, visited, order, frontier, nextFrontier, depth, edges>>

\* Mutant: the callees are asked for.
QueryCallees ==
  /\ pc = "node" /\ frontier # <<>>
  /\ edges' = {u \in Nodes : Head(frontier) \in callers[u]}
  /\ frontier' = Tail(frontier)
  /\ pc' = "edges"
  /\ UNCHANGED <<callers, visited, order, nextFrontier, depth>>

\* for uid in frontier: one query for the callers of the next node
Query ==
  /\ pc = "node" /\ frontier # <<>>
  /\ edges' = callers[Head(frontier)]
  /\ frontier' = Tail(frontier)
  /\ pc' = "edges"
  /\ UNCHANGED <<callers, visited, order, nextFrontier, depth>>

\* Mutant: `visited` is not looked at.
EdgeAgain(src) ==
  /\ pc = "edges" /\ src \in edges
  /\ edges' = edges \ {src}
  /\ visited' = visited \cup {src}
  /\ order' = Append(order, src)
  /\ nextFrontier' = Append(nextFrontier, src)
  /\ UNCHANGED <<callers, pc, frontier, depth>>

\* Mutant: a new caller is reported but not searched from.
EdgeNotQueued(src) ==
  /\ pc = "edges" /\ src \in edges
  /\ edges' = edges \ {src}
  /\ visited' = visited \cup {src}
  /\ order' = IF src \in visited THEN order ELSE Append(order, src)
  /\ UNCHANGED <<callers, pc, frontier, nextFrontier, depth>>

\* The rows come in the order of avg_count, ties in any order.
Edge(src) ==
  /\ pc = "edges" /\ src \in edges
  /\ edges' = edges \ {src}
  /\ IF src \in visited
     THEN UNCHANGED <<visited, order, nextFrontier>>
     ELSE /\ visited' = visited \cup {src}
          /\ order' = Append(order, src)
          /\ nextFrontier' = Append(nextFrontier, src)
  /\ UNCHANGED <<callers, pc, frontier, depth>>

NodeDone ==
  /\ pc = "edges" /\ edges = {}
  /\ pc' = "node"
  /\ UNCHANGED <<callers, visited, order, frontier, nextFrontier, depth, edges>>

\* Mutant: the next frontier is neither created anew nor counted.
EndRoundKept ==
  /\ pc = "node" /\ frontier = <<>>
  /\ frontier' = nextFrontier
  /\ pc' = "round"
  /\ UNCHANGED <<callers, visited, order, nextFrontier, depth, edges>>

\* The callers found in this round are the next one's frontier.
EndRound ==
  /\ pc = "node" /\ frontier = <<>>
  /\ frontier' = nextFrontier
  /\ nextFrontier' = <<>>
  /\ depth' = depth + 1
  /\ pc' = "round"
  /\ UNCHANGED <<callers, visited, order, edges>>

\* insert_interactions of another process commits while the search runs.
InsertInteraction(src, dst) ==
  /\ pc # "done" /\ <<src, dst>> \in Later
  /\ callers' = [callers EXCEPT ![dst] = @ \cup {src}]
  /\ UNCHANGED search

Search ==
  BeginRound \/ Query \/ (\E src \in Nodes : Edge(src)) \/ NodeDone \/ EndRound

Next == Search \/ \E src, dst \in Nodes : InsertInteraction(src, dst)

Spec == Init /\ [][Next]_vars /\ WF_vars(Search)

\* The workloads a run forecasts: the target, then the dependents not yet seen.
all_workload_uids(deps) ==
  LET out[i \in 0 .. Len(deps)] ==
        IF i = 0 THEN <<target>>
        ELSE IF deps[i] \in Range(out[i - 1]) THEN out[i - 1]
        ELSE Append(out[i - 1], deps[i])
  IN  out[Len(deps)]

-----------------------------------------------------------------------------
TypeOK ==
  /\ callers \in [Nodes -> SUBSET Nodes]
  /\ pc \in {"round", "node", "edges", "done"}
  /\ visited \subseteq Nodes
  /\ order \in Seq(Nodes) /\ frontier \in Seq(Nodes) /\ nextFrontier \in Seq(Nodes)
  /\ depth \in Nat
  /\ edges \subseteq Nodes

\* S contains the target and every caller of its members.
Closed(S, graph) == target \in S /\ \A u \in S : graph[u] \subseteq S

\* Every dependent is a transitive caller: whatever set contains the target and
\* is closed under the stored edges contains all that the search visited.
OnlyCallers ==
  \A S \in SUBSET Nodes : Closed(S, callers) => visited \subseteq S

\* Each dependent is listed once and the target never, cycles or not.
NoDuplicates ==
  /\ Range(order) = visited \ {target}
  /\ \A i, j \in DOMAIN order : order[i] = order[j] => i = j

\* A search that ended because its frontier was empty missed no caller that was
\* stored when it started, whatever was inserted meanwhile.
AllCallers ==
  pc = "done" /\ frontier = <<>> => Closed(visited, Start)

\* A search that was cut by the depth limit has still every caller at most
\* MaxDepth calls away.
Within[d \in 0 .. MaxDepth] ==
  IF d = 0 THEN {target}
  ELSE Within[d - 1] \cup UNION {Start[u] : u \in Within[d - 1]}

DepthCovered == pc = "done" => Within[MaxDepth] \subseteq Range(all_workload_uids(order))

\* The search ends although the graph may have cycles.
SearchEnds == <>(pc = "done")
=============================================================================
