------------------------ MODULE UpstreamDeps_proofs ------------------------
(***************************************************************************)
(* For every graph, target and depth limit: the search visits only         *)
(* transitive callers, lists each once, misses none when its frontier      *)
(* empties, and misses none within the depth limit when it stops at it.    *)
(***************************************************************************)
EXTENDS UpstreamDeps, WellFoundedInduction, TLAPS

\* The variables of the search keep their types.
THEOREM TypeCorrect == Spec => []TypeOK
<1> USE DepsAssumption
<1>1. Init => TypeOK
  BY DEF Init, TypeOK
<1>2. TypeOK /\ [Next]_vars => TypeOK'
  <2> SUFFICES ASSUME TypeOK, [Next]_vars PROVE TypeOK'
    OBVIOUS
  <2> USE DEF TypeOK
  <2>1. CASE BeginRound
    BY <2>1 DEF BeginRound
  <2>2. CASE Query
    BY <2>2 DEF Query
  <2>3. ASSUME NEW src \in Nodes, Edge(src) PROVE TypeOK'
    <3>1. CASE src \in visited
      BY <2>3, <3>1 DEF Edge
    <3>2. CASE src \notin visited
      <4>1. Append(order, src) \in Seq(Nodes) /\ Append(nextFrontier, src) \in Seq(Nodes)
        OBVIOUS
      <4>2. QED BY <2>3, <3>2, <4>1 DEF Edge
    <3>3. QED BY <3>1, <3>2
  <2>4. CASE NodeDone
    BY <2>4 DEF NodeDone
  <2>5. CASE EndRound
    BY <2>5 DEF EndRound
  <2>6. ASSUME NEW src \in Nodes, NEW dst \in Nodes, InsertInteraction(src, dst)
        PROVE TypeOK'
    BY <2>6 DEF InsertInteraction, search
  <2>7. CASE UNCHANGED vars
    BY <2>7 DEF vars, search
  <2>8. QED BY <2>1, <2>2, <2>3, <2>4, <2>5, <2>6, <2>7 DEF Next, Search
<1>3. QED BY <1>1, <1>2, PTL DEF Spec

-----------------------------------------------------------------------------
\* The elements of a sequence after an append and after taking its head.
LEMMA RangeAppend ==
  ASSUME NEW S, NEW s \in Seq(S), NEW e \in S
  PROVE  Range(Append(s, e)) = Range(s) \cup {e}
<1>1. DOMAIN Append(s, e) = 1 .. Len(s) + 1 /\ DOMAIN s = 1 .. Len(s) /\ Len(s) \in Nat
  OBVIOUS
<1>2. \A i \in 1 .. Len(s) : Append(s, e)[i] = s[i]
  OBVIOUS
<1>3. Append(s, e)[Len(s) + 1] = e
  OBVIOUS
<1>4. 1 .. Len(s) + 1 = (1 .. Len(s)) \cup {Len(s) + 1}
  BY <1>1
<1>5. QED BY <1>1, <1>2, <1>3, <1>4 DEF Range

LEMMA RangeHeadTail ==
  ASSUME NEW S, NEW s \in Seq(S), s # <<>>
  PROVE  Range(s) = {Head(s)} \cup Range(Tail(s)) /\ Head(s) \in Range(s)
<1>1. DOMAIN s = 1 .. Len(s) /\ Len(s) \in Nat \ {0} /\ Head(s) = s[1]
  OBVIOUS
<1>2. DOMAIN Tail(s) = 1 .. Len(s) - 1 /\ \A i \in 1 .. Len(s) - 1 : Tail(s)[i] = s[i + 1]
  OBVIOUS
<1>3. \A j \in 1 .. Len(s) : j = 1 \/ (j - 1 \in 1 .. Len(s) - 1 /\ j = (j - 1) + 1)
  BY <1>1
<1>4. Range(s) \subseteq {Head(s)} \cup Range(Tail(s))
  <2> SUFFICES ASSUME NEW j \in 1 .. Len(s), j # 1 PROVE s[j] \in Range(Tail(s))
    BY <1>1 DEF Range
  <2>1. j - 1 \in DOMAIN Tail(s) /\ Tail(s)[j - 1] = s[j]
    BY <1>2, <1>3
  <2>2. QED BY <2>1 DEF Range
<1>5. \A i \in 1 .. Len(s) - 1 : i + 1 \in 1 .. Len(s)
  BY <1>1
<1>6. Range(Tail(s)) \subseteq Range(s) /\ Head(s) \in Range(s)
  BY <1>1, <1>2, <1>5 DEF Range
<1>7. QED BY <1>4, <1>6

LEMMA RangeEmpty == Range(<<>>) = {}
BY DEF Range

-----------------------------------------------------------------------------
(* Soundness.  Everything the search has visited, or will query or look at *)
(* next, lies in each set that is closed under the stored edges.           *)

Sound ==
  \A S \in SUBSET Nodes : Closed(S, callers) =>
    /\ visited \subseteq S /\ edges \subseteq S
    /\ Range(frontier) \subseteq S /\ Range(nextFrontier) \subseteq S

\* Only transitive callers of the target are reported, for every graph and
\* whatever is inserted during the search.
THEOREM Soundness == Spec => []OnlyCallers
<1> USE DepsAssumption
<1>1. Init => Sound
  BY RangeEmpty DEF Init, Sound, Closed, Range
<1>2. TypeOK /\ Sound /\ [Next]_vars => Sound'
  <2> SUFFICES ASSUME TypeOK, Sound, [Next]_vars,
                      NEW S \in SUBSET Nodes, Closed(S, callers)'
               PROVE  /\ visited' \subseteq S /\ edges' \subseteq S
                      /\ Range(frontier') \subseteq S /\ Range(nextFrontier') \subseteq S
    BY DEF Sound
  <2>a. callers' = callers \/ \E src, dst \in Nodes : InsertInteraction(src, dst)
    BY DEF Next, Search, BeginRound, Query, Edge, NodeDone, EndRound, vars
  <2>b. \A u \in Nodes : callers[u] \subseteq callers'[u]
    BY <2>a DEF InsertInteraction, TypeOK
  <2>c. Closed(S, callers)
    BY <2>b DEF Closed
  <2>d. /\ visited \subseteq S /\ edges \subseteq S
        /\ Range(frontier) \subseteq S /\ Range(nextFrontier) \subseteq S
    BY <2>c DEF Sound
  <2>1. CASE BeginRound
    BY <2>1, <2>d DEF BeginRound
  <2>2. CASE Query
    <3>1. frontier \in Seq(Nodes) /\ frontier # <<>>
      BY <2>2 DEF Query, TypeOK
    <3>2. Range(frontier) = {Head(frontier)} \cup Range(Tail(frontier))
      BY <3>1, RangeHeadTail
    <3>3. callers[Head(frontier)] \subseteq S
      BY <3>2, <2>c, <2>d DEF Closed
    <3>4. QED BY <2>2, <2>d, <3>2, <3>3 DEF Query
  <2>3. ASSUME NEW src \in Nodes, Edge(src)
        PROVE  /\ visited' \subseteq S /\ edges' \subseteq S
               /\ Range(frontier') \subseteq S /\ Range(nextFrontier') \subseteq S
    <3>1. Range(Append(nextFrontier, src)) = Range(nextFrontier) \cup {src}
      BY RangeAppend DEF TypeOK
    <3>2. src \in S
      BY <2>3, <2>d DEF Edge
    <3>3. QED BY <2>3, <2>d, <3>1, <3>2 DEF Edge
  <2>4. CASE NodeDone
    BY <2>4, <2>d DEF NodeDone
  <2>5. CASE EndRound
    BY <2>5, <2>d, RangeEmpty DEF EndRound
  <2>6. ASSUME NEW src \in Nodes, NEW dst \in Nodes, InsertInteraction(src, dst)
        PROVE  /\ visited' \subseteq S /\ edges' \subseteq S
               /\ Range(frontier') \subseteq S /\ Range(nextFrontier') \subseteq S
    BY <2>6, <2>d DEF InsertInteraction, search
  <2>7. CASE UNCHANGED vars
    BY <2>7, <2>d DEF vars, search
  <2>8. QED BY <2>1, <2>2, <2>3, <2>4, <2>5, <2>6, <2>7 DEF Next, Search
<1>3. Sound => OnlyCallers
  BY DEF Sound, OnlyCallers
<1>4. QED BY <1>1, <1>2, <1>3, TypeCorrect, PTL DEF Spec

-----------------------------------------------------------------------------
(* Completeness.  A visited node is still to be queried, or its callers    *)
(* are visited or among the rows being looked at.                          *)

Complete ==
  /\ target \in visited
  /\ \A u \in Nodes : Start[u] \subseteq callers[u]
  /\ pc # "edges" => edges = {}
  /\ pc \in {"round", "done"} => nextFrontier = <<>>
  /\ \A u \in visited : \/ u \in Range(frontier) \cup Range(nextFrontier)
                        \/ Start[u] \subseteq visited \cup edges

\* What is to be queried or looked at is kept by every step.
LEMMA CompleteKept == TypeOK /\ Complete /\ [Next]_vars => Complete'
<1> USE DepsAssumption
<1> SUFFICES ASSUME TypeOK, Complete, [Next]_vars PROVE Complete'
  OBVIOUS
<1>1. CASE BeginRound
  BY <1>1 DEF BeginRound, Complete
<1>2. CASE Query
  <2>1. frontier \in Seq(Nodes) /\ frontier # <<>> /\ Head(frontier) \in Nodes
    BY <1>2 DEF Query, TypeOK
  <2>2. Range(frontier) = {Head(frontier)} \cup Range(Tail(frontier))
    BY <2>1, RangeHeadTail
  <2>3. Start[Head(frontier)] \subseteq edges' /\ edges = {}
    BY <1>2, <2>1 DEF Query, Complete
  <2>4. QED BY <1>2, <2>2, <2>3 DEF Query, Complete
<1>3. ASSUME NEW src \in Nodes, Edge(src) PROVE Complete'
  <2>1. Range(Append(nextFrontier, src)) = Range(nextFrontier) \cup {src}
    BY RangeAppend DEF TypeOK
  <2>2. visited' \cup edges' = visited \cup edges
    BY <1>3 DEF Edge
  <2>3. CASE src \in visited
    BY <1>3, <2>2, <2>3 DEF Edge, Complete
  <2>4. CASE src \notin visited
    BY <1>3, <2>1, <2>2, <2>4 DEF Edge, Complete
  <2>5. QED BY <2>3, <2>4
<1>4. CASE NodeDone
  BY <1>4 DEF NodeDone, Complete
<1>5. CASE EndRound
  BY <1>5, RangeEmpty DEF EndRound, Complete
<1>6. ASSUME NEW src \in Nodes, NEW dst \in Nodes, InsertInteraction(src, dst)
      PROVE Complete'
  <2>1. \A u \in Nodes : callers[u] \subseteq callers'[u]
    BY <1>6 DEF InsertInteraction, TypeOK
  <2>2. QED BY <1>6, <2>1 DEF InsertInteraction, search, Complete
<1>7. CASE UNCHANGED vars
  BY <1>7 DEF vars, search, Complete
<1>8. QED BY <1>1, <1>2, <1>3, <1>4, <1>5, <1>6, <1>7 DEF Next, Search

\* A search whose frontier emptied has found every transitive caller that was
\* stored when it began.
THEOREM Completeness == Spec => []AllCallers
<1> USE DepsAssumption
<1>1. Init => Complete
  <2>1. Range(<<target>>) = {target}
    BY DEF Range
  <2>2. QED BY <2>1 DEF Init, Complete
<1>2. Complete => AllCallers
  BY RangeEmpty DEF Complete, AllCallers, Closed
<1>3. QED BY <1>1, <1>2, CompleteKept, TypeCorrect, PTL DEF Spec

-----------------------------------------------------------------------------
(* No duplicates.                                                          *)

DupInv == NoDuplicates /\ target \in visited

\* Each dependent is listed once and the target never.
THEOREM ListedOnce == Spec => []NoDuplicates
<1> USE DepsAssumption
<1>1. Init => DupInv
  BY RangeEmpty DEF Init, DupInv, NoDuplicates
<1>2. TypeOK /\ DupInv /\ [Next]_vars => DupInv'
  <2> SUFFICES ASSUME TypeOK, DupInv, [Next]_vars PROVE DupInv'
    OBVIOUS
  <2>1. ASSUME NEW src \in Nodes, Edge(src) PROVE DupInv'
    <3>1. CASE src \in visited
      BY <2>1, <3>1 DEF Edge, DupInv, NoDuplicates
    <3>2. CASE src \notin visited
      <4>1. /\ visited' = visited \cup {src} /\ src # target
            /\ order' = Append(order, src) /\ order \in Seq(Nodes)
        BY <2>1, <3>2 DEF Edge, DupInv, TypeOK
      <4>2. Range(order') = Range(order) \cup {src}
        BY <4>1, RangeAppend
      <4>3. DOMAIN order = 1 .. Len(order) /\ DOMAIN order' = 1 .. Len(order) + 1
            /\ Len(order) \in Nat /\ order'[Len(order) + 1] = src
            /\ \A i \in 1 .. Len(order) : order'[i] = order[i]
        BY <4>1
      <4>4. \A i \in DOMAIN order : order[i] # src
        BY <3>2 DEF DupInv, NoDuplicates, Range
      <4>5. ASSUME NEW i \in DOMAIN order', NEW j \in DOMAIN order', order'[i] = order'[j]
            PROVE  i = j
        <5>1. CASE i \in DOMAIN order /\ j \in DOMAIN order
          BY <4>3, <4>5, <5>1 DEF DupInv, NoDuplicates
        <5>2. CASE i \notin DOMAIN order \/ j \notin DOMAIN order
          BY <4>3, <4>4, <4>5, <5>2
        <5>3. QED BY <5>1, <5>2
      <4>6. QED BY <4>1, <4>2, <4>5 DEF DupInv, NoDuplicates
    <3>3. QED BY <3>1, <3>2
  <2>2. CASE UNCHANGED <<visited, order>>
    BY <2>2 DEF DupInv, NoDuplicates
  <2>3. QED
    BY <2>1, <2>2 DEF Next, Search, BeginRound, Query, NodeDone, EndRound,
                      InsertInteraction, search, vars
<1>3. DupInv => NoDuplicates
  BY DEF DupInv
<1>4. QED BY <1>1, <1>2, <1>3, TypeCorrect, PTL DEF Spec

-----------------------------------------------------------------------------
(* The depth limit.  Within and all_workload_uids are recursive functions: *)
(* what they are is proved once for every recursion over numbers whose     *)
(* step is a function, by the least number for which it would fail.        *)

LEMMA LeastNumber ==
  ASSUME NEW S \in SUBSET Nat, S # {}
  PROVE  \E m \in S : \A n \in S : m <= n
<1>1. PICK m \in S : \A n \in S : <<n, m>> \notin OpToRel(<, Nat)
  BY NatLessThanWellFounded, WFMin, Zenon
<1>2. \A n \in S : ~ (n < m)
  BY <1>1 DEF OpToRel
<1>3. QED BY <1>2

\* What f is that takes the step g[i] from f[i - 1] to f[i].
Recursive(f, n, base, g) == f[0] = base /\ \A i \in 1 .. n : f[i] = g[i][f[i - 1]]

LEMMA RecursionExists ==
  ASSUME NEW S, NEW base \in S, NEW g \in [Nat -> [S -> S]], NEW n \in Nat
  PROVE  \E f \in [0 .. n -> S] : Recursive(f, n, base, g)
<1> DEFINE Good(k) == \E f \in [0 .. k -> S] : Recursive(f, k, base, g)
           Bad == {k \in Nat : ~Good(k)}
<1>1. Bad = {}
  <2> SUFFICES ASSUME Bad # {} PROVE FALSE
    OBVIOUS
  <2>1. PICK m \in Bad : \A k \in Bad : m <= k
    BY LeastNumber
  <2>2. m \in Nat /\ ~Good(m)
    OBVIOUS
  <2>3. Good(0)
    <3>1. [i \in 0 .. 0 |-> base] \in [0 .. 0 -> S]
      OBVIOUS
    <3>2. Recursive([i \in 0 .. 0 |-> base], 0, base, g)
      BY DEF Recursive
    <3>3. QED BY <3>1, <3>2
  <2>4. m # 0 /\ m - 1 \in Nat
    <3> HIDE DEF Good
    <3>1. m # 0
      BY <2>2, <2>3
    <3>2. QED BY <2>2, <3>1
  <2>5. Good(m - 1)
    <3>1. m - 1 \notin Bad
      BY <2>1, <2>2, <2>4
    <3>2. QED BY <2>4, <3>1
  <2>6. PICK f \in [0 .. m - 1 -> S] : Recursive(f, m - 1, base, g)
    BY <2>5
  <2> DEFINE h == [i \in 0 .. m |-> IF i = m THEN g[m][f[m - 1]] ELSE f[i]]
  <2>7. \A i \in 0 .. m : i = m \/ i \in 0 .. m - 1
    BY <2>2
  <2>8. g[m][f[m - 1]] \in S
    <3>1. f[m - 1] \in S
      BY <2>4
    <3>2. g[m] \in [S -> S]
      BY <2>2
    <3>3. QED BY <3>1, <3>2
  <2>9. h \in [0 .. m -> S]
    BY <2>7, <2>8
  <2>10. Recursive(h, m, base, g)
    <3>1. 0 \in 0 .. m /\ h[0] = base
      BY <2>2, <2>4, <2>6 DEF Recursive
    <3>2. ASSUME NEW i \in 1 .. m PROVE h[i] = g[i][h[i - 1]]
      <4>1. i \in 0 .. m /\ i - 1 \in 0 .. m - 1 /\ i - 1 \in 0 .. m /\ i - 1 # m
        BY <2>2
      <4>2. h[i - 1] = f[i - 1]
        BY <4>1
      <4>3. CASE i = m
        BY <4>1, <4>2, <4>3
      <4>4. CASE i # m
        <5>1. i \in 1 .. m - 1
          BY <2>2, <4>4
        <5>2. f[i] = g[i][f[i - 1]]
          BY <2>6, <5>1 DEF Recursive
        <5>3. h[i] = f[i]
          BY <4>1, <4>4
        <5>4. QED BY <4>2, <5>2, <5>3
      <4>5. QED BY <4>3, <4>4
    <3>3. QED BY <3>1, <3>2 DEF Recursive
  <2> HIDE DEF h
  <2>11. QED BY <2>2, <2>9, <2>10
<1>2. QED BY <1>1

\* Within[d] are the nodes that reach the target in at most d calls.
LEMMA WithinIs ==
  /\ Within[0] = {target}
  /\ \A d \in 1 .. MaxDepth :
       Within[d] = Within[d - 1] \cup UNION {Start[u] : u \in Within[d - 1]}
  /\ \A d \in 0 .. MaxDepth : Within[d] \subseteq Nodes
<1> USE DepsAssumption
<1> DEFINE S == SUBSET Nodes
           wider == [x \in S |-> x \cup UNION {Start[u] : u \in x}]
           g == [i \in Nat |-> wider]
<1>1. wider \in [S -> S]
  <2>1. ASSUME NEW x \in S PROVE UNION {Start[u] : u \in x} \subseteq Nodes
    OBVIOUS
  <2>2. QED BY <2>1
<1>2. {target} \in S /\ g \in [Nat -> [S -> S]]
  BY <1>1
<1>3. PICK f \in [0 .. MaxDepth -> S] : Recursive(f, MaxDepth, {target}, g)
  <2> HIDE DEF S, wider, g
  <2>1. QED BY <1>2, RecursionExists
<1>4. ASSUME NEW d \in 0 .. MaxDepth
      PROVE  f[d] = IF d = 0 THEN {target}
                    ELSE f[d - 1] \cup UNION {Start[u] : u \in f[d - 1]}
  <2>1. CASE d = 0
    BY <1>3, <2>1 DEF Recursive
  <2>2. CASE d # 0
    <3>1. d \in 1 .. MaxDepth /\ d \in Nat /\ d - 1 \in 0 .. MaxDepth
      BY <2>2
    <3>2. f[d] = g[d][f[d - 1]] /\ f[d - 1] \in S
      BY <1>3, <3>1 DEF Recursive
    <3> HIDE DEF wider
    <3>3. f[d] = wider[f[d - 1]]
      BY <3>1, <3>2
    <3>4. wider[f[d - 1]] = f[d - 1] \cup UNION {Start[u] : u \in f[d - 1]}
      BY <3>2 DEF wider
    <3>5. QED BY <2>2, <3>3, <3>4
  <2>3. QED BY <2>1, <2>2
<1>5. f = [d \in 0 .. MaxDepth |-> IF d = 0 THEN {target}
                                   ELSE f[d - 1] \cup UNION {Start[u] : u \in f[d - 1]}]
  <2> HIDE DEF S, g
  <2>1. f = [d \in 0 .. MaxDepth |-> f[d]]
    OBVIOUS
  <2>2. QED BY <1>4, <2>1, Zenon
<1>6. Within = [d \in 0 .. MaxDepth |-> IF d = 0 THEN {target}
                  ELSE Within[d - 1] \cup UNION {Start[u] : u \in Within[d - 1]}]
  BY <1>5, Zenon DEF Within
<1>7. ASSUME NEW d \in 0 .. MaxDepth
      PROVE  Within[d] = IF d = 0 THEN {target}
                         ELSE Within[d - 1] \cup UNION {Start[u] : u \in Within[d - 1]}
  BY <1>6, Zenon
<1>8. Within[0] = {target}
  <2>1. 0 \in 0 .. MaxDepth
    OBVIOUS
  <2>2. QED BY <1>7, <2>1
<1>9. ASSUME NEW d \in 1 .. MaxDepth
      PROVE  Within[d] = Within[d - 1] \cup UNION {Start[u] : u \in Within[d - 1]}
  <2>1. d \in 0 .. MaxDepth /\ d # 0
    OBVIOUS
  <2>2. QED BY <1>7, <2>1
<1>10. \A d \in 0 .. MaxDepth : Within[d] \subseteq Nodes
  <2> DEFINE Bad == {d \in 0 .. MaxDepth : ~(Within[d] \subseteq Nodes)}
  <2> SUFFICES ASSUME Bad # {} PROVE FALSE
    OBVIOUS
  <2>0. Bad \in SUBSET Nat
    OBVIOUS
  <2>1. PICK m \in Bad : \A k \in Bad : m <= k
    <3> HIDE DEF Bad
    <3>1. QED BY <2>0, LeastNumber
  <2>2. m # 0
    BY <1>8
  <2>3. m \in 1 .. MaxDepth /\ m - 1 \in 0 .. MaxDepth /\ m - 1 \notin Bad
    BY <2>1, <2>2
  <2>4. Within[m - 1] \subseteq Nodes
    BY <2>3
  <2>5. UNION {Start[u] : u \in Within[m - 1]} \subseteq Nodes
    BY <2>4
  <2>6. Within[m] \subseteq Nodes
    BY <1>9, <2>3, <2>4, <2>5
  <2>7. QED BY <2>6
<1>11. QED BY <1>8, <1>9, <1>10

\* The list of a run's workloads has the target and every dependent.
LEMMA AllUids ==
  ASSUME NEW deps \in Seq(Nodes)
  PROVE  Range(all_workload_uids(deps)) = {target} \cup Range(deps)
<1> USE DepsAssumption
<1> DEFINE S == Seq(Nodes)
           n == Len(deps)
           add(i) == [x \in S |-> IF i \notin 1 .. n \/ deps[i] \in Range(x) THEN x
                                  ELSE Append(x, deps[i])]
           g == [i \in Nat |-> add(i)]
           Rec(f) == f = [i \in 0 .. n |->
                            IF i = 0 THEN <<target>>
                            ELSE IF deps[i] \in Range(f[i - 1]) THEN f[i - 1]
                            ELSE Append(f[i - 1], deps[i])]
<1>0. n \in Nat /\ DOMAIN deps = 1 .. n /\ \A i \in 1 .. n : deps[i] \in Nodes
  OBVIOUS
<1>1. ASSUME NEW i \in Nat PROVE add(i) \in [S -> S]
  <2>1. ASSUME NEW x \in S PROVE (IF i \notin 1 .. n \/ deps[i] \in Range(x) THEN x
                                  ELSE Append(x, deps[i])) \in S
    <3>1. CASE i \in 1 .. n
      <4>1. Append(x, deps[i]) \in S
        BY <1>0, <3>1
      <4>2. QED BY <4>1
    <3>2. CASE i \notin 1 .. n
      BY <3>2
    <3>3. QED BY <3>1, <3>2
  <2> HIDE DEF S
  <2>2. QED BY <2>1
<1>2. <<target>> \in S /\ g \in [Nat -> [S -> S]]
  <2>1. <<target>> \in S
    OBVIOUS
  <2> HIDE DEF S, add
  <2>2. QED BY <1>1, <2>1
<1>3. PICK f \in [0 .. n -> S] : Recursive(f, n, <<target>>, g)
  <2> HIDE DEF S, g, n
  <2>1. QED BY <1>0, <1>2, RecursionExists
<1>4. ASSUME NEW i \in 0 .. n
      PROVE  f[i] = IF i = 0 THEN <<target>>
                    ELSE IF deps[i] \in Range(f[i - 1]) THEN f[i - 1]
                    ELSE Append(f[i - 1], deps[i])
  <2>1. CASE i = 0
    BY <1>3, <2>1 DEF Recursive
  <2>2. CASE i # 0
    <3>1. i \in 1 .. n /\ i \in Nat /\ i - 1 \in 0 .. n
      BY <1>0, <2>2
    <3>2. f[i] = g[i][f[i - 1]] /\ f[i - 1] \in S
      BY <1>3, <3>1 DEF Recursive
    <3>3. f[i] = add(i)[f[i - 1]]
      <4> HIDE DEF add, S, n
      <4>1. QED BY <3>1, <3>2
    <3>4. add(i)[f[i - 1]] = IF i \notin 1 .. n \/ deps[i] \in Range(f[i - 1]) THEN f[i - 1]
                             ELSE Append(f[i - 1], deps[i])
      <4> HIDE DEF S, n
      <4>1. QED BY <3>2
    <3> HIDE DEF S, n, add, g
    <3>5. QED BY <2>2, <3>1, <3>3, <3>4
  <2>3. QED BY <2>1, <2>2
<1>5. Rec(f)
  <2> HIDE DEF S, g, n
  <2>1. f = [i \in 0 .. n |-> f[i]]
    OBVIOUS
  <2>2. QED BY <1>4, <2>1, Zenon
<1>6. PICK h : Rec(h) /\ all_workload_uids(deps) = h[n]
  BY <1>5, Zenon DEF all_workload_uids
<1>7. ASSUME NEW i \in 0 .. n
      PROVE  h[i] = IF i = 0 THEN <<target>>
                    ELSE IF deps[i] \in Range(h[i - 1]) THEN h[i - 1]
                    ELSE Append(h[i - 1], deps[i])
  BY <1>6, Zenon
<1> DEFINE UpTo(i) == {deps[j] : j \in 1 .. i}
           Ok(i) == h[i] \in S /\ Range(h[i]) = {target} \cup UpTo(i)
           Bad == {i \in 0 .. n : ~Ok(i)}
<1>8. Bad = {}
  <2> HIDE DEF n
  <2> SUFFICES ASSUME Bad # {} PROVE FALSE
    OBVIOUS
  <2>0. Bad \in SUBSET Nat
    BY <1>0
  <2>1. PICK m \in Bad : \A k \in Bad : m <= k
    <3> HIDE DEF Bad
    <3>1. QED BY <2>0, LeastNumber
  <2>2. m \in 0 .. n /\ ~Ok(m)
    OBVIOUS
  <2>3. Ok(0)
    <3>1. h[0] = <<target>>
      BY <1>0, <1>7
    <3>2. Range(<<target>>) = {target} /\ <<target>> \in S
      BY DEF Range
    <3>3. UpTo(0) = {}
      OBVIOUS
    <3>4. QED BY <3>1, <3>2, <3>3
  <2>4. m \in 1 .. n /\ m - 1 \in 0 .. n /\ m - 1 \notin Bad /\ m # 0
    <3> HIDE DEF Ok
    <3>1. m # 0
      BY <2>2, <2>3
    <3>2. m \in 1 .. n /\ m - 1 \in 0 .. n /\ ~(m <= m - 1)
      BY <1>0, <2>2, <3>1
    <3> HIDE DEF Bad
    <3>3. QED BY <2>1, <3>1, <3>2
  <2>5. Ok(m - 1)
    BY <2>4
  <2>6. UpTo(m) = UpTo(m - 1) \cup {deps[m]}
    <3>1. 1 .. m = (1 .. m - 1) \cup {m}
      BY <1>0, <2>4
    <3>2. QED BY <3>1
  <2>7. deps[m] \in Nodes
    BY <1>0, <2>4
  <2>8. CASE deps[m] \in Range(h[m - 1])
    <3>1. h[m] = h[m - 1]
      BY <1>7, <2>4, <2>8
    <3> HIDE DEF UpTo, S
    <3>2. QED BY <2>2, <2>5, <2>6, <2>8, <3>1
  <2>9. CASE deps[m] \notin Range(h[m - 1])
    <3>1. h[m] = Append(h[m - 1], deps[m])
      BY <1>7, <2>4, <2>9
    <3>2. Range(h[m]) = Range(h[m - 1]) \cup {deps[m]}
      BY <2>5, <2>7, <3>1, RangeAppend
    <3>3. h[m] \in S
      BY <2>5, <2>7, <3>1
    <3> HIDE DEF UpTo, S
    <3>4. QED BY <2>2, <2>5, <2>6, <3>2, <3>3
  <2>10. QED BY <2>8, <2>9
<1>9. Ok(n)
  <2> HIDE DEF n, Ok
  <2>1. QED BY <1>0, <1>8
<1>10. UpTo(n) = Range(deps)
  BY <1>0 DEF Range
<1> HIDE DEF UpTo, S, n
<1>11. QED BY <1>6, <1>9, <1>10

\* After k rounds all nodes within k calls are visited; of those that are k calls away
\* each is still in the frontier or has had its callers looked at.
Rounds ==
  /\ depth \in 0 .. MaxDepth
  /\ pc \in {"node", "edges"} => depth < MaxDepth
  /\ pc = "done" => frontier = <<>> \/ depth = MaxDepth
  /\ Within[depth] \subseteq visited
  /\ \A u \in Within[depth] : u \in Range(frontier) \/ Start[u] \subseteq visited \cup edges

\* One more round reaches the callers of what the rounds before it reached.
LEMMA RoundsKept ==
  ASSUME TypeOK, Complete, Rounds, [Next]_vars PROVE Rounds'
<1> USE DepsAssumption
<1>0. Within[depth] \subseteq Nodes /\ depth \in Nat
  BY WithinIs DEF Rounds
<1>1. CASE BeginRound
  BY <1>1 DEF BeginRound, Rounds
<1>2. CASE Query
  <2>1. frontier \in Seq(Nodes) /\ frontier # <<>> /\ Head(frontier) \in Nodes
    BY <1>2 DEF Query, TypeOK
  <2>2. Range(frontier) = {Head(frontier)} \cup Range(Tail(frontier))
    BY <2>1, RangeHeadTail
  <2>3. Start[Head(frontier)] \subseteq edges' /\ edges = {}
    BY <1>2, <2>1 DEF Query, Complete
  <2>4. QED BY <1>2, <2>2, <2>3 DEF Query, Rounds
<1>3. ASSUME NEW src \in Nodes, Edge(src) PROVE Rounds'
  <2>1. /\ visited' \cup edges' = visited \cup edges /\ visited \subseteq visited'
        /\ UNCHANGED <<pc, frontier, depth>>
    BY <1>3 DEF Edge
  <2>2. QED BY <2>1 DEF Rounds
<1>4. CASE NodeDone
  BY <1>4 DEF NodeDone, Rounds
<1>5. CASE EndRound
  <2>1. /\ pc = "node" /\ frontier = <<>> /\ frontier' = nextFrontier /\ pc' = "round"
        /\ depth' = depth + 1 /\ UNCHANGED <<visited, edges>> /\ edges = {}
    BY <1>5 DEF EndRound, Complete
  <2>2. depth' \in 1 .. MaxDepth /\ depth' - 1 = depth
    BY <2>1, <1>0 DEF Rounds
  <2>3. \A u \in Within[depth] : Start[u] \subseteq visited
    BY <2>1, RangeEmpty DEF Rounds
  <2>4. Within[depth'] = Within[depth] \cup UNION {Start[u] : u \in Within[depth]}
    BY <2>2, WithinIs
  <2>5. Within[depth'] \subseteq visited
    BY <2>3, <2>4 DEF Rounds
  <2>6. \A u \in visited : u \in Range(nextFrontier) \/ Start[u] \subseteq visited
    BY <2>1, RangeEmpty DEF Complete
  <2>7. QED BY <2>1, <2>2, <2>5, <2>6 DEF Rounds
<1>6. ASSUME NEW src \in Nodes, NEW dst \in Nodes, InsertInteraction(src, dst) PROVE Rounds'
  BY <1>6 DEF InsertInteraction, search, Rounds
<1>7. CASE UNCHANGED vars
  BY <1>7 DEF vars, search, Rounds
<1>8. QED BY <1>1, <1>2, <1>3, <1>4, <1>5, <1>6, <1>7 DEF Next, Search

\* A closed set has everything within any number of calls.
LEMMA WithinClosed ==
  ASSUME NEW S \in SUBSET Nodes, Closed(S, Start)
  PROVE  \A d \in 0 .. MaxDepth : Within[d] \subseteq S
<1> USE DepsAssumption
<1> DEFINE Bad == {d \in 0 .. MaxDepth : ~(Within[d] \subseteq S)}
<1> SUFFICES ASSUME Bad # {} PROVE FALSE
  OBVIOUS
<1>0. Bad \in SUBSET Nat
  OBVIOUS
<1>1. PICK m \in Bad : \A k \in Bad : m <= k
  <2> HIDE DEF Bad
  <2>1. QED BY <1>0, LeastNumber
<1>2. m # 0
  BY WithinIs DEF Closed
<1>3. m \in 1 .. MaxDepth /\ m - 1 \in 0 .. MaxDepth /\ m - 1 \notin Bad
  BY <1>1, <1>2
<1>4. Within[m - 1] \subseteq S
  BY <1>3
<1>5. \A u \in Within[m - 1] : Start[u] \subseteq S
  BY <1>4 DEF Closed
<1>6. Within[m] \subseteq S
  BY <1>3, <1>4, <1>5, WithinIs
<1>7. QED BY <1>6

\* Whether the depth limit or the empty frontier ended the search, the workloads that the
\* run forecasts have the target and every caller at most MaxDepth calls away.
THEOREM DepthReached == Spec => []DepthCovered
<1> USE DepsAssumption
<1>1. Init => Complete /\ Rounds
  <2> SUFFICES ASSUME Init PROVE Complete /\ Rounds
    OBVIOUS
  <2>1. Range(<<target>>) = {target}
    BY DEF Range
  <2>2. Complete
    BY <2>1 DEF Init, Complete
  <2>3. Rounds
    BY <2>1, WithinIs DEF Init, Rounds
  <2>4. QED BY <2>2, <2>3
<1>2. TypeOK /\ Complete /\ Rounds /\ [Next]_vars => Rounds'
  BY RoundsKept
<1>3. TypeOK /\ Complete /\ Rounds /\ NoDuplicates => DepthCovered
  <2> SUFFICES ASSUME TypeOK, Complete, Rounds, NoDuplicates, pc = "done"
               PROVE  Within[MaxDepth] \subseteq Range(all_workload_uids(order))
    BY DEF DepthCovered
  <2>1. Within[MaxDepth] \subseteq visited
    <3>1. CASE depth = MaxDepth
      BY <3>1 DEF Rounds
    <3>2. CASE frontier = <<>>
      <4>1. Closed(visited, Start) /\ visited \in SUBSET Nodes
        BY <3>2, RangeEmpty DEF Complete, Closed, TypeOK
      <4>2. MaxDepth \in 0 .. MaxDepth
        OBVIOUS
      <4>3. QED BY <4>1, <4>2, WithinClosed
    <3>3. QED BY <3>1, <3>2 DEF Rounds
  <2>2. Range(all_workload_uids(order)) = {target} \cup Range(order)
    BY AllUids DEF TypeOK
  <2>3. QED BY <2>1, <2>2 DEF NoDuplicates
<1>4. QED BY <1>1, <1>2, <1>3, CompleteKept, TypeCorrect, ListedOnce, PTL DEF Spec
=============================================================================
