--------------------------- MODULE RouteSearchProofs ---------------------------
(***************************************************************************)
(* What is served is sound, plans are the cheapest legal ones, and failures *)
(* name their cause, on every map.                                         *)
(*                                                                         *)
(* Three invariants.  RouteInv is about where a search gets to: what it has *)
(* reached lies in every set of nodes that no step leaves, and is such a    *)
(* set itself once the search has failed, so that a failure is a cut; the   *)
(* predecessors make a tree, so that the way back from the goal ends.       *)
(* CostInv adds what the ways cost: the distance of a reached node is what  *)
(* its way through the tree costs, and the distances of what was visited    *)
(* are a potential no step undercuts, which bounds every way from below.    *)
(* A third, Served, ties the index in use to its document, and carries over *)
(* what WorkspaceIndexProofs shows of documents without errors.             *)
(***************************************************************************)
EXTENDS RouteSearch, WorkspaceIndexProofs

-----------------------------------------------------------------------------
(* The map a search walks: the steps it may take out of each node.          *)
Graph(mode) == [n \in DOMAIN index.nodes |-> OpenSteps(mode, n)]

(* No step leaves the set.                                                 *)
Closed(G, C) == \A n \in C : \A a \in G[n] : a.node \in C

Reached(s) == DOMAIN s.distances

IsSearch(s) ==
    s = [mode |-> s.mode, frontier |-> s.frontier, visited |-> s.visited,
         distances |-> s.distances, predecessors |-> s.predecessors,
         found |-> s.found, distance |-> s.distance, over |-> s.over]

(* The far ends of a node's steps that are still to be visited.            *)
Ahead(G, s, n) == {a.node : a \in {b \in G[n] : b.node \notin s.visited \cup {n}}}

(* What relaxing the steps out of n does to a search: some of the nodes     *)
(* ahead, among them all that had not been reached, get a new distance,     *)
(* n for their predecessor and an entry in the frontier.                   *)
Relaxed(s, t, n, d, better, best) ==
    t = [mode |-> s.mode,
         frontier |-> (s.frontier \ {<<n, d>>}) \cup {<<m, best[m]>> : m \in better},
         visited |-> s.visited \cup {n},
         distances |-> Insert(s.distances, [m \in better |-> best[m]]),
         predecessors |-> Insert(s.predecessors, [m \in better |-> n]),
         found |-> s.found, distance |-> s.distance, over |-> s.over]

(* No step costs less than nothing.                                        *)
Priced(mode) == \A n \in DOMAIN index.nodes : \A a \in OpenSteps(mode, n) : Cost(mode, a) \in Nat

(* The new distances are the best of one step more, and an improvement; a   *)
(* node ahead that gets none is as near already.                           *)
Cheaper(s, n, d, better, best) ==
    /\ \A m \in better : \E a \in Graph(s.mode)[n] : a.node = m /\ best[m] = d + Cost(s.mode, a)
    /\ \A a \in Graph(s.mode)[n] : a.node \notin s.visited \cup {n} =>
          IF a.node \in better THEN best[a.node] <= d + Cost(s.mode, a)
          ELSE a.node \in Reached(s) /\ s.distances[a.node] <= d + Cost(s.mode, a)
    /\ \A m \in better \cap Reached(s) : best[m] < s.distances[m]

LEMMA RelaxIsRelaxed ==
    ASSUME NEW s, IsSearch(s), NEW n \in DOMAIN index.nodes, NEW d
    PROVE  \E better \in SUBSET Ahead(Graph(s.mode), s, n) : \E best :
              /\ Relaxed(s, Relax(s, n, d), n, d, better, best)
              /\ Ahead(Graph(s.mode), s, n) \ Reached(s) \subseteq better
              /\ (d \in Nat /\ Priced(s.mode) /\ \A m \in Reached(s) : s.distances[m] \in Nat)
                    => Cheaper(s, n, d, better, best)
<1> DEFINE open   == {a \in OpenSteps(s.mode, n) : a.node \notin s.visited \cup {n}}
           via(m) == {d + Cost(s.mode, a) : a \in {b \in open : b.node = m}}
           least(m) == CHOOSE x \in via(m) : \A y \in via(m) : x <= y
           better == {m \in {a.node : a \in open} :
                        m \in DOMAIN s.distances => least(m) < s.distances[m]}
           best == [m \in better |-> least(m)]
           t == [mode |-> s.mode,
                 frontier |-> (s.frontier \ {<<n, d>>}) \cup {<<m, least(m)>> : m \in better},
                 visited |-> s.visited \cup {n},
                 distances |-> Insert(s.distances, [m \in better |-> least(m)]),
                 predecessors |-> Insert(s.predecessors, [m \in better |-> n]),
                 found |-> s.found, distance |-> s.distance, over |-> s.over]
<1>1. Relax(s, n, d) =
        [s EXCEPT !.visited = s.visited \cup {n},
                  !.distances = Insert(s.distances, [m \in better |-> least(m)]),
                  !.predecessors = Insert(s.predecessors, [m \in better |-> n]),
                  !.frontier = (s.frontier \ {<<n, d>>}) \cup {<<m, least(m)>> : m \in better}]
  BY Zenon DEF Relax
<1>2. Relax(s, n, d) = t
  <2> HIDE DEF better, least
  <2> QED BY <1>1 DEF IsSearch
<1>3. Ahead(Graph(s.mode), s, n) = {a.node : a \in open}
  BY DEF Ahead, Graph
<1>4. better \subseteq Ahead(Graph(s.mode), s, n)
  <2> HIDE DEF open, least
  <2> QED BY <1>3
<1>5. Ahead(Graph(s.mode), s, n) \ Reached(s) \subseteq better
  <2> HIDE DEF open, least
  <2> QED BY <1>3 DEF Reached
<1>6. Relaxed(s, t, n, d, better, best)
  <2>1. \A m \in better : best[m] = least(m)
    <3> HIDE DEF better, least
    <3> QED OBVIOUS
  <2>2. [m \in better |-> best[m]] = [m \in better |-> least(m)]
    <3> HIDE DEF better, least, best
    <3> QED BY <2>1
  <2>3. {<<m, best[m]>> : m \in better} = {<<m, least(m)>> : m \in better}
    <3> HIDE DEF better, least, best
    <3> QED BY <2>1
  <2> HIDE DEF better, least, best
  <2> QED BY <2>2, <2>3 DEF Relaxed
<1>7. ASSUME d \in Nat, Priced(s.mode), \A m \in Reached(s) : s.distances[m] \in Nat
      PROVE  Cheaper(s, n, d, better, best)
  <2>1. \A a \in open : Cost(s.mode, a) \in Nat
    BY <1>7 DEF Priced
  <2>2. ASSUME NEW a \in open
        PROVE  /\ least(a.node) \in via(a.node)
               /\ least(a.node) \in Nat /\ least(a.node) <= d + Cost(s.mode, a)
    <3>1. d + Cost(s.mode, a) \in via(a.node)
      OBVIOUS
    <3>2. via(a.node) \in SUBSET Nat
      <4> HIDE DEF open
      <4> QED BY <1>7, <2>1
    <3>3. \E x \in via(a.node) : \A y \in via(a.node) : x <= y
      <4> HIDE DEF via
      <4> QED BY <3>1, <3>2, LeastNat
    <3>4. least(a.node) \in via(a.node) /\ \A y \in via(a.node) : least(a.node) <= y
      <4> HIDE DEF via
      <4> QED BY <3>3
    <3> HIDE DEF via, least
    <3> QED BY <3>1, <3>2, <3>4
  <2>3. \A m \in better : best[m] = least(m) /\ \E a \in open : a.node = m
    <3> HIDE DEF open, least
    <3> QED OBVIOUS
  <2>4. \A a \in open : a \in Graph(s.mode)[n] /\ a.node \notin s.visited \cup {n}
    BY DEF Graph
  <2>5. \A a \in Graph(s.mode)[n] : a.node \notin s.visited \cup {n} => a \in open
    BY DEF Graph
  <2>6. ASSUME NEW m \in better
        PROVE  \E a \in Graph(s.mode)[n] : a.node = m /\ best[m] = d + Cost(s.mode, a)
    <3>1. PICK a \in open : a.node = m
      BY <2>3
    <3>2. least(m) \in via(m) /\ best[m] = least(m)
      <4> HIDE DEF open, via, least, better, best
      <4> QED BY <2>2, <2>3, <3>1
    <3>3. PICK b \in open : b.node = m /\ least(m) = d + Cost(s.mode, b)
      <4> HIDE DEF least, open
      <4> QED BY <3>2
    <3> HIDE DEF open, via, least, better, best
    <3> QED BY <2>4, <3>2, <3>3
  <2>7. ASSUME NEW a \in Graph(s.mode)[n], a.node \notin s.visited \cup {n}
        PROVE  IF a.node \in better THEN best[a.node] <= d + Cost(s.mode, a)
               ELSE a.node \in Reached(s) /\ s.distances[a.node] <= d + Cost(s.mode, a)
    <3>1. a \in open
      BY <2>5, <2>7
    <3>2. CASE a.node \in better
      <4> HIDE DEF open, via, least, better, best
      <4> QED BY <2>2, <2>3, <3>1, <3>2
    <3>3. CASE a.node \notin better
      <4>1. a.node \in Reached(s) /\ ~(least(a.node) < s.distances[a.node])
        <5> HIDE DEF open, via, least
        <5> QED BY <3>1, <3>3 DEF Reached
      <4> HIDE DEF open, via, least, better, best
      <4>2. least(a.node) \in Nat /\ least(a.node) <= d + Cost(s.mode, a)
        BY <2>2, <3>1
      <4>3. Cost(s.mode, a) \in Nat /\ s.distances[a.node] \in Nat
        BY <1>7, <2>1, <3>1, <4>1
      <4> QED BY <1>7, <3>3, <4>1, <4>2, <4>3
    <3> QED BY <3>2, <3>3
  <2>8. ASSUME NEW m \in better \cap Reached(s)
        PROVE  best[m] < s.distances[m]
    <3>1. least(m) < s.distances[m]
      <4> HIDE DEF open, least
      <4> QED BY DEF Reached
    <3> HIDE DEF open, least, better, best
    <3> QED BY <2>3, <3>1
  <2> HIDE DEF open, via, least, better, best
  <2> QED BY <2>6, <2>7, <2>8 DEF Cheaper
<1> HIDE DEF open, via, least, better, best, t
<1> QED BY <1>2, <1>4, <1>5, <1>6, <1>7

-----------------------------------------------------------------------------
(* Where a search gets to.  What it has reached is in every closed set that *)
(* holds its start; a reached node is visited or waits in the frontier; and *)
(* the steps out of a visited node, the goal apart, lead to reached ones.  *)
ReachInv(s, G, start, goal) ==
    /\ start \in Reached(s) /\ Reached(s) \subseteq DOMAIN G
    /\ s.visited \subseteq Reached(s)
    /\ \A x \in s.frontier : x[1] \in Reached(s) /\ x = <<x[1], x[2]>>
    /\ ~s.over => \A n \in Reached(s) \ s.visited : \E d : <<n, d>> \in s.frontier
    /\ \A n \in s.visited \ {goal} : \A a \in G[n] : a.node \in Reached(s)
    /\ \A C \in SUBSET DOMAIN G : start \in C /\ Closed(G, C) => Reached(s) \subseteq C
    /\ s.found => goal \in Reached(s) /\ s.over
    /\ goal \in s.visited => s.found
    /\ s.over /\ ~s.found => Reached(s) \subseteq s.visited

(* The predecessors make a tree rooted in the start: every other reached    *)
(* node has one, visited before it, so that ranks fall along them.         *)
Ranked(s, start, rank) ==
    /\ rank \in [Reached(s) -> Nat]
    /\ rank[start] = 0
    /\ \A m \in Reached(s) : rank[m] <= Cardinality(s.visited \ {m})
    /\ \A m \in DOMAIN s.predecessors : rank[s.predecessors[m]] < rank[m]

TreeInv(s, start) ==
    /\ DOMAIN s.predecessors = Reached(s) \ {start}
    /\ \A m \in DOMAIN s.predecessors : s.predecessors[m] \in s.visited
    /\ IsFiniteSet(s.visited)
    /\ start \in s.visited \/ Reached(s) = {start}
    /\ \E rank : Ranked(s, start, rank)

LEMMA BeginRanks ==
    ASSUME NEW start, NEW s, Reached(s) = {start}, s.visited = {}, DOMAIN s.predecessors = {}
    PROVE  TreeInv(s, start)
<1>1. IsFiniteSet(s.visited)
  BY FS_EmptySet
<1>2. \A m : Cardinality(s.visited \ {m}) = 0
  <2>1. \A m : s.visited \ {m} = {}
    OBVIOUS
  <2> QED BY <2>1, FS_EmptySet
<1> DEFINE rank == [n \in Reached(s) |-> 0]
<1>3. rank \in [Reached(s) -> Nat] /\ rank[start] = 0 /\ \A m \in Reached(s) : rank[m] = 0
  OBVIOUS
<1> HIDE DEF rank
<1>4. Ranked(s, start, rank)
  BY <1>2, <1>3 DEF Ranked
<1> QED BY <1>1, <1>4 DEF TreeInv

(* A search that begins has reached its start.                             *)
LEMMA BeginReaches ==
    ASSUME NEW G, NEW mode, NEW start \in DOMAIN index.nodes, NEW goal \in DOMAIN index.nodes,
           DOMAIN G = DOMAIN index.nodes, NEW s, s = Begin(mode, start, goal)
    PROVE  /\ IsSearch(s) /\ s.mode = mode
           /\ ReachInv(s, G, start, goal) /\ TreeInv(s, start)
<1>1. CASE start = goal
  <2>1. s = [mode |-> mode, frontier |-> {}, visited |-> {}, distances |-> [n \in {start} |-> 0],
             predecessors |-> << >>, found |-> TRUE, distance |-> 0, over |-> TRUE]
    BY <1>1 DEF Begin, NoSearch
  <2>2. /\ IsSearch(s) /\ s.mode = mode /\ Reached(s) = {start} /\ s.visited = {}
        /\ DOMAIN s.predecessors = {} /\ s.frontier = {} /\ s.found /\ s.over
    BY <2>1 DEF IsSearch, Reached
  <2>3. ReachInv(s, G, start, goal)
    BY <1>1, <2>2 DEF ReachInv
  <2> QED BY <2>2, <2>3, BeginRanks
<1>2. CASE start # goal
  <2>1. s = [mode |-> mode, frontier |-> {<<start, 0>>}, visited |-> {},
             distances |-> [n \in {start} |-> 0], predecessors |-> << >>, found |-> FALSE,
             distance |-> Infinity, over |-> FALSE]
    BY <1>2 DEF Begin, NoSearch
  <2>2. /\ IsSearch(s) /\ s.mode = mode /\ Reached(s) = {start} /\ s.visited = {}
        /\ DOMAIN s.predecessors = {} /\ s.frontier = {<<start, 0>>} /\ ~s.found /\ ~s.over
    BY <2>1 DEF IsSearch, Reached
  <2>3. ReachInv(s, G, start, goal)
    BY <1>2, <2>2 DEF ReachInv
  <2> QED BY <2>2, <2>3, BeginRanks
<1> QED BY <1>1, <1>2

(* An entry of a visited node is passed over.                              *)
LEMMA PassOverReaches ==
    ASSUME NEW G, NEW start, NEW goal, NEW s, IsSearch(s), ReachInv(s, G, start, goal),
           TreeInv(s, start), ~s.over, NEW x \in s.frontier, x[1] \in s.visited,
           NEW t, t = [s EXCEPT !.frontier = @ \ {x}]
    PROVE  /\ IsSearch(t) /\ t.mode = s.mode
           /\ ReachInv(t, G, start, goal) /\ TreeInv(t, start)
<1>1. t = [mode |-> s.mode, frontier |-> s.frontier \ {x}, visited |-> s.visited,
           distances |-> s.distances, predecessors |-> s.predecessors,
           found |-> s.found, distance |-> s.distance, over |-> s.over]
  BY DEF IsSearch
<1>2. IsSearch(t) /\ t.mode = s.mode /\ Reached(t) = Reached(s)
  BY <1>1 DEF IsSearch, Reached
<1>3. ReachInv(t, G, start, goal)
  <2>1. \A n \in Reached(t) \ t.visited : \E d : <<n, d>> \in t.frontier
    <3> TAKE n \in Reached(t) \ t.visited
    <3>1. PICK d : <<n, d>> \in s.frontier
      BY <1>1, <1>2 DEF ReachInv
    <3>2. <<n, d>> # x
      BY <1>1
    <3> QED BY <1>1, <3>1, <3>2
  <2> QED BY <1>1, <1>2, <2>1 DEF ReachInv
<1>4. TreeInv(t, start)
  BY <1>1, <1>2 DEF TreeInv, Ranked
<1> QED BY <1>2, <1>3, <1>4

(* The goal surfaces: the search is over.                                  *)
Finished(s, t, x) ==
    t = [mode |-> s.mode, frontier |-> {}, visited |-> s.visited \cup {x[1]},
         distances |-> s.distances, predecessors |-> s.predecessors,
         found |-> TRUE, distance |-> x[2], over |-> TRUE]

LEMMA FinishReaches ==
    ASSUME NEW G, NEW start, NEW goal, NEW s, IsSearch(s), ReachInv(s, G, start, goal),
           TreeInv(s, start), ~s.over, NEW x \in s.frontier, x[1] = goal,
           NEW t, Finished(s, t, x)
    PROVE  /\ IsSearch(t) /\ t.mode = s.mode
           /\ ReachInv(t, G, start, goal) /\ TreeInv(t, start)
<1>1. t = [mode |-> s.mode, frontier |-> {}, visited |-> s.visited \cup {goal},
           distances |-> s.distances, predecessors |-> s.predecessors,
           found |-> TRUE, distance |-> x[2], over |-> TRUE]
  BY DEF Finished
<1>2. IsSearch(t) /\ t.mode = s.mode /\ Reached(t) = Reached(s)
  BY <1>1 DEF IsSearch, Reached
<1>3. ReachInv(t, G, start, goal)
  BY <1>1, <1>2 DEF ReachInv
<1>4. TreeInv(t, start)
  <2>1. IsFiniteSet(s.visited)
    BY DEF TreeInv
  <2>2. IsFiniteSet(s.visited \cup {goal})
    BY <2>1, FS_AddElement
  <2>3. ASSUME NEW m
        PROVE  /\ Cardinality(s.visited \ {m}) \in Nat
               /\ Cardinality((s.visited \cup {goal}) \ {m}) \in Nat
               /\ Cardinality(s.visited \ {m}) <= Cardinality((s.visited \cup {goal}) \ {m})
    <3>1. IsFiniteSet((s.visited \cup {goal}) \ {m}) /\ IsFiniteSet(s.visited \ {m})
      BY <2>1, <2>2, FS_RemoveElement
    <3>2. s.visited \ {m} \in SUBSET ((s.visited \cup {goal}) \ {m})
      OBVIOUS
    <3> QED BY <3>1, <3>2, FS_Subset, FS_CardinalityType
  <2>4. PICK rank : Ranked(s, start, rank)
    BY DEF TreeInv
  <2>5. Ranked(t, start, rank)
    <3>1. ASSUME NEW m \in Reached(t)
          PROVE  rank[m] <= Cardinality(t.visited \ {m})
      <4> DEFINE was == Cardinality(s.visited \ {m})
                 is  == Cardinality((s.visited \cup {goal}) \ {m})
      <4>1. rank[m] \in Nat /\ rank[m] <= was
        BY <1>2, <2>4 DEF Ranked
      <4>2. t.visited = s.visited \cup {goal}
        BY <1>1
      <4>3. was \in Nat /\ is \in Nat /\ was <= is
        BY <2>3
      <4> HIDE DEF was, is
      <4>4. rank[m] <= is
        BY <4>1, <4>3
      <4> QED BY <4>2, <4>4 DEF is
    <3> QED BY <1>1, <1>2, <2>4, <3>1 DEF Ranked
  <2> QED BY <1>1, <1>2, <2>2, <2>5 DEF TreeInv
<1> QED BY <1>2, <1>3, <1>4

(* The frontier runs dry.                                                  *)
LEMMA ExhaustReaches ==
    ASSUME NEW G, NEW start, NEW goal, NEW s, IsSearch(s), ReachInv(s, G, start, goal),
           TreeInv(s, start), ~s.over, s.frontier = {},
           NEW t, t = [s EXCEPT !.over = TRUE]
    PROVE  /\ IsSearch(t) /\ t.mode = s.mode
           /\ ReachInv(t, G, start, goal) /\ TreeInv(t, start)
<1>1. t = [mode |-> s.mode, frontier |-> s.frontier, visited |-> s.visited,
           distances |-> s.distances, predecessors |-> s.predecessors,
           found |-> s.found, distance |-> s.distance, over |-> TRUE]
  BY DEF IsSearch
<1>2. IsSearch(t) /\ t.mode = s.mode /\ Reached(t) = Reached(s)
  BY <1>1 DEF IsSearch, Reached
<1>3. ReachInv(t, G, start, goal)
  BY <1>1, <1>2 DEF ReachInv
<1>4. TreeInv(t, start)
  BY <1>1, <1>2 DEF TreeInv, Ranked
<1> QED BY <1>2, <1>3, <1>4

-----------------------------------------------------------------------------
(* A node surfaces and its steps are relaxed.                              *)
LEMMA RelaxReaches ==
    ASSUME NEW G, Closed(G, DOMAIN G), NEW start, NEW goal,
           NEW s, IsSearch(s), ReachInv(s, G, start, goal), ~s.over,
           NEW n \in DOMAIN G, NEW d, <<n, d>> \in s.frontier, n # goal, n \notin s.visited,
           NEW better \in SUBSET Ahead(G, s, n), NEW best,
           Ahead(G, s, n) \ Reached(s) \subseteq better,
           NEW t, Relaxed(s, t, n, d, better, best)
    PROVE  /\ Reached(t) = Reached(s) \cup Ahead(G, s, n)
           /\ ReachInv(t, G, start, goal)
<1>1. /\ t.visited = s.visited \cup {n} /\ t.over = s.over /\ t.found = s.found
      /\ t.frontier = (s.frontier \ {<<n, d>>}) \cup {<<m, best[m]>> : m \in better}
      /\ t.distances = Insert(s.distances, [m \in better |-> best[m]])
  BY DEF Relaxed
<1>2. n \in Reached(s)
  <2>1. <<n, d>>[1] = n
    OBVIOUS
  <2> QED BY <2>1 DEF ReachInv
<1>3. Reached(t) = Reached(s) \cup better
  BY <1>1 DEF Reached, Insert
<1>4. Reached(t) = Reached(s) \cup Ahead(G, s, n)
  BY <1>3
<1>5. Reached(t) \subseteq DOMAIN G
  BY <1>4 DEF ReachInv, Ahead, Closed
<1>6. ASSUME NEW x \in t.frontier
      PROVE  x[1] \in Reached(t) /\ x = <<x[1], x[2]>>
  <2>1. CASE x \in s.frontier
    BY <1>3, <2>1 DEF ReachInv
  <2>2. CASE \E m \in better : x = <<m, best[m]>>
    BY <1>3, <2>2
  <2> QED BY <1>1, <2>1, <2>2
<1>7. ASSUME NEW m \in Reached(t) \ t.visited
      PROVE  \E e : <<m, e>> \in t.frontier
  <2>1. CASE m \in better
    BY <1>1, <2>1
  <2>2. CASE m \notin better
    <3>1. m \in Reached(s) \ s.visited /\ m # n
      BY <1>1, <1>3, <2>2
    <3>2. PICK e : <<m, e>> \in s.frontier
      BY <3>1 DEF ReachInv
    <3>3. <<m, e>> # <<n, d>>
      BY <3>1
    <3> QED BY <1>1, <3>2, <3>3
  <2> QED BY <2>1, <2>2
<1>8. ASSUME NEW m \in t.visited \ {goal}, NEW a \in G[m]
      PROVE  a.node \in Reached(t)
  <2>1. CASE m \in s.visited
    BY <1>4, <2>1 DEF ReachInv
  <2>2. CASE m = n /\ a.node \in s.visited \cup {n}
    BY <1>2, <1>4, <2>2 DEF ReachInv
  <2>3. CASE m = n /\ a.node \notin s.visited \cup {n}
    BY <1>4, <2>3 DEF Ahead
  <2> QED BY <1>1, <2>1, <2>2, <2>3
<1>9. ASSUME NEW C \in SUBSET DOMAIN G, start \in C, Closed(G, C)
      PROVE  Reached(t) \subseteq C
  <2>1. Reached(s) \subseteq C
    BY <1>9 DEF ReachInv
  <2>2. Ahead(G, s, n) \subseteq C
    BY <1>2, <1>9, <2>1 DEF Ahead, Closed
  <2> QED BY <1>4, <2>1, <2>2
<1>10. /\ start \in Reached(t) /\ t.visited \subseteq Reached(t)
       /\ t.found => goal \in Reached(t) /\ t.over
       /\ goal \in t.visited => t.found
       /\ t.over /\ ~t.found => Reached(t) \subseteq t.visited
  BY <1>1, <1>2, <1>4 DEF ReachInv
<1>11. ReachInv(t, G, start, goal)
  BY <1>5, <1>6, <1>7, <1>8, <1>9, <1>10 DEF ReachInv
<1> QED BY <1>4, <1>11

LEMMA RelaxRanks ==
    ASSUME NEW G, NEW start, NEW goal, NEW s, ReachInv(s, G, start, goal), TreeInv(s, start),
           ~s.over,
           NEW n \in Reached(s) \ s.visited, NEW d,
           NEW better \in SUBSET Ahead(G, s, n), NEW best,
           NEW t, Relaxed(s, t, n, d, better, best)
    PROVE  TreeInv(t, start)
<1>1. /\ t.visited = s.visited \cup {n}
      /\ t.distances = Insert(s.distances, [m \in better |-> best[m]])
      /\ t.predecessors = Insert(s.predecessors, [m \in better |-> n])
  BY DEF Relaxed
<1>2. Reached(t) = Reached(s) \cup better
  BY <1>1 DEF Reached, Insert
<1>3. better \cap (s.visited \cup {n}) = {}
  BY DEF Ahead
<1>4. start \in s.visited \cup {n} /\ start \in Reached(s)
  BY DEF TreeInv, ReachInv
<1>5. /\ DOMAIN t.predecessors = DOMAIN s.predecessors \cup better
      /\ \A m \in DOMAIN t.predecessors :
            t.predecessors[m] = IF m \in better THEN n ELSE s.predecessors[m]
  BY <1>1 DEF Insert
<1>6. DOMAIN t.predecessors = Reached(t) \ {start}
  BY <1>2, <1>3, <1>4, <1>5 DEF TreeInv
<1>7. \A m \in DOMAIN t.predecessors : t.predecessors[m] \in t.visited
  BY <1>1, <1>5 DEF TreeInv
<1>8. IsFiniteSet(s.visited) /\ IsFiniteSet(t.visited)
  BY <1>1, FS_AddElement DEF TreeInv
<1>9. PICK rank : Ranked(s, start, rank)
  BY DEF TreeInv
<1> DEFINE rise == [m \in Reached(t) |-> IF m \in better THEN rank[n] + 1 ELSE rank[m]]
<1>10. ASSUME NEW m
       PROVE  /\ Cardinality(s.visited \ {m}) \in Nat
              /\ Cardinality(t.visited \ {m}) \in Nat
              /\ Cardinality(s.visited \ {m}) <= Cardinality(t.visited \ {m})
  <2>1. IsFiniteSet(t.visited \ {m}) /\ IsFiniteSet(s.visited \ {m})
    BY <1>8, FS_RemoveElement
  <2>2. s.visited \ {m} \in SUBSET (t.visited \ {m})
    BY <1>1
  <2> QED BY <2>1, <2>2, FS_Subset, FS_CardinalityType
<1>11. Cardinality(s.visited) \in Nat /\ Cardinality(t.visited) = Cardinality(s.visited) + 1
  BY <1>1, <1>8, FS_AddElement, FS_CardinalityType
<1>12. rank \in [Reached(s) -> Nat] /\ rank[n] <= Cardinality(s.visited)
  <2>1. s.visited \ {n} = s.visited
    OBVIOUS
  <2> QED BY <1>9, <2>1 DEF Ranked
<1>13. rise \in [Reached(t) -> Nat] /\ rise[start] = 0
  BY <1>2, <1>3, <1>4, <1>9, <1>12 DEF Ranked
<1>14. ASSUME NEW m \in Reached(t)
       PROVE  rise[m] <= Cardinality(t.visited \ {m})
  <2>1. CASE m \in better
    <3>1. t.visited \ {m} = t.visited
      BY <1>1, <1>3, <2>1
    <3>2. rise[m] = rank[n] + 1 /\ rank[n] \in Nat
      BY <1>12, <2>1
    <3> HIDE DEF rise
    <3> QED BY <1>11, <1>12, <3>1, <3>2
  <2>2. CASE m \notin better
    <3>1. m \in Reached(s) /\ rise[m] = rank[m] /\ rank[m] \in Nat
      BY <1>2, <1>12, <2>2
    <3>2. rank[m] <= Cardinality(s.visited \ {m})
      BY <1>9, <3>1 DEF Ranked
    <3> DEFINE was == Cardinality(s.visited \ {m})
               is  == Cardinality(t.visited \ {m})
    <3>3. was \in Nat /\ is \in Nat /\ was <= is
      BY <1>10
    <3> HIDE DEF rise, was, is
    <3>4. rise[m] <= is
      BY <3>1, <3>2, <3>3 DEF was
    <3> QED BY <3>4 DEF is
  <2> QED BY <2>1, <2>2
<1>15. ASSUME NEW m \in DOMAIN t.predecessors
       PROVE  rise[t.predecessors[m]] < rise[m]
  <2>1. CASE m \in better
    BY <1>2, <1>3, <1>5, <1>12, <2>1
  <2>2. CASE m \notin better
    <3>1. m \in DOMAIN s.predecessors /\ t.predecessors[m] = s.predecessors[m]
      BY <1>5, <2>2
    <3>2. s.predecessors[m] \in s.visited /\ s.predecessors[m] \in Reached(s) /\ m \in Reached(s)
      BY <3>1 DEF TreeInv, ReachInv
    <3>3. rise[m] = rank[m] /\ rise[s.predecessors[m]] = rank[s.predecessors[m]]
      BY <1>2, <1>3, <2>2, <3>2
    <3> QED BY <1>9, <3>1, <3>3 DEF Ranked
  <2> QED BY <2>1, <2>2
<1>16. Ranked(t, start, rise)
  <2> HIDE DEF rise
  <2> QED BY <1>13, <1>14, <1>15 DEF Ranked
<1> HIDE DEF rise
<1> QED BY <1>1, <1>4, <1>6, <1>7, <1>8, <1>16 DEF TreeInv

-----------------------------------------------------------------------------
(* The way back from the goal.                                             *)

LEMMA Prepend ==
    ASSUME NEW S, NEW e \in S, NEW q \in Seq(S), q # << >>
    PROVE  LET p == <<e>> \o q IN
           /\ p \in Seq(S) /\ p # << >> /\ Head(p) = e
           /\ Len(p) = Len(q) + 1 /\ p[Len(p)] = q[Len(q)]
           /\ \A i \in 1..(Len(p) - 1) : p[i + 1] = q[i]
           /\ p[1] = e /\ \A i \in 2..(Len(p) - 1) : p[i] = q[i - 1]
<1>1. <<e>> \in Seq(S) /\ Len(<<e>>) = 1 /\ <<e>>[1] = e
  OBVIOUS
<1> DEFINE p == <<e>> \o q
<1>2. p \in Seq(S) /\ Len(p) = Len(q) + 1
  BY <1>1
<1>3. Len(q) \in Nat /\ Len(q) >= 1
  OBVIOUS
<1>4. p[1] = e
  BY <1>1, <1>3
<1>5. \A i \in 1..Len(q) : p[i + 1] = q[i]
  BY <1>1, <1>3
<1> HIDE DEF p
<1>6. p # << >> /\ Head(p) = e
  BY <1>2, <1>3, <1>4
<1>7. p[Len(p)] = q[Len(q)]
  BY <1>2, <1>3, <1>5
<1>8. \A i \in 2..(Len(p) - 1) : p[i] = q[i - 1]
  <2> TAKE i \in 2..(Len(p) - 1)
  <2>1. i - 1 \in 1..Len(q) /\ (i - 1) + 1 = i
    BY <1>2, <1>3
  <2> QED BY <1>5, <2>1
<1>9. \A i \in 1..(Len(p) - 1) : p[i + 1] = q[i]
  BY <1>2, <1>3, <1>5
<1> QED BY <1>2, <1>4, <1>6, <1>7, <1>8, <1>9 DEF p

(* A way through the tree to the goal: each node is the predecessor of the  *)
(* one after it.                                                           *)
Chain(s, goal, q) ==
    /\ q \in Seq(Reached(s)) /\ q # << >>
    /\ q[Len(q)] = goal
    /\ \A i \in 1..(Len(q) - 1) : /\ q[i + 1] \in DOMAIN s.predecessors
                                  /\ q[i] = s.predecessors[q[i + 1]]

LEMMA ChainGrows ==
    ASSUME NEW G, NEW start, NEW goal, NEW s, ReachInv(s, G, start, goal), TreeInv(s, start),
           NEW q, Chain(s, goal, q), Head(q) # start
    PROVE  /\ Head(q) \in DOMAIN s.predecessors
           /\ Chain(s, goal, <<s.predecessors[Head(q)]>> \o q)
           /\ Head(<<s.predecessors[Head(q)]>> \o q) = s.predecessors[Head(q)]
<1>1. q \in Seq(Reached(s)) /\ q # << >> /\ Len(q) \in Nat /\ Len(q) >= 1 /\ Head(q) = q[1]
  BY DEF Chain
<1>2. Head(q) \in Reached(s)
  BY <1>1
<1>3. Head(q) \in DOMAIN s.predecessors
  BY <1>2 DEF TreeInv
<1> DEFINE e == s.predecessors[Head(q)]
           p == <<e>> \o q
<1>4. e \in Reached(s)
  BY <1>3 DEF TreeInv, ReachInv
<1> HIDE DEF e
<1>5. /\ p \in Seq(Reached(s)) /\ p # << >> /\ Head(p) = e
      /\ Len(p) = Len(q) + 1 /\ p[Len(p)] = q[Len(q)]
      /\ \A i \in 1..(Len(p) - 1) : p[i + 1] = q[i]
      /\ p[1] = e /\ \A i \in 2..(Len(p) - 1) : p[i] = q[i - 1]
  BY <1>1, <1>4, Prepend
<1> HIDE DEF p
<1>6. ASSUME NEW i \in 1..(Len(p) - 1)
      PROVE  p[i + 1] \in DOMAIN s.predecessors /\ p[i] = s.predecessors[p[i + 1]]
  <2>1. CASE i = 1
    BY <1>1, <1>3, <1>5, <2>1 DEF e
  <2>2. CASE i # 1
    <3>1. i \in 2..(Len(p) - 1) /\ i - 1 \in 1..(Len(q) - 1) /\ (i - 1) + 1 = i
      BY <1>1, <1>5, <2>2
    <3>2. q[i] \in DOMAIN s.predecessors /\ q[i - 1] = s.predecessors[q[i]]
      BY <3>1 DEF Chain
    <3> QED BY <1>5, <3>1, <3>2
  <2> QED BY <2>1, <2>2
<1>7. Chain(s, goal, p)
  BY <1>5, <1>6 DEF Chain
<1> QED BY <1>3, <1>5, <1>7 DEF p, e

(* The rank of the goal is at most the number of predecessors, which is how *)
(* often the way back is followed.                                         *)
LEMMA GoalRank ==
    ASSUME NEW G, IsFiniteSet(DOMAIN G), NEW start, NEW goal, NEW s,
           ReachInv(s, G, start, goal), TreeInv(s, start), s.found,
           NEW rank, Ranked(s, start, rank)
    PROVE  /\ Cardinality(DOMAIN s.predecessors) \in Nat
           /\ rank[goal] \in Nat
           /\ rank[goal] <= Cardinality(DOMAIN s.predecessors)
           /\ Cardinality(DOMAIN s.predecessors) <= Cardinality(DOMAIN G)
<1> DEFINE preds == DOMAIN s.predecessors
           before == s.visited \ {goal}
<1>1. goal \in Reached(s) /\ rank[goal] \in Nat /\ rank[goal] <= Cardinality(before)
  BY DEF ReachInv, Ranked
<1>2. preds = Reached(s) \ {start} /\ preds \in SUBSET DOMAIN G
  BY DEF TreeInv, ReachInv
<1>3. IsFiniteSet(preds) /\ Cardinality(preds) <= Cardinality(DOMAIN G)
  BY <1>2, FS_Subset
<1>4. Cardinality(preds) \in Nat
  BY <1>3, FS_CardinalityType
<1>5. CASE goal = start
  BY <1>3, <1>4, <1>5 DEF Ranked
<1>6. CASE goal # start
  <2>1. start \in before /\ goal \notin before /\ before \subseteq Reached(s)
    BY <1>1, <1>6 DEF TreeInv, ReachInv
  <2>2. IsFiniteSet(before) /\ Cardinality(before) \in Nat
    BY FS_RemoveElement, FS_CardinalityType DEF TreeInv
  <2> DEFINE others == before \ {start}
  <2>3. IsFiniteSet(others) /\ Cardinality(others) = Cardinality(before) - 1
    BY <2>1, <2>2, FS_RemoveElement
  <2>4. Cardinality(others \cup {goal}) = Cardinality(others) + 1
    BY <2>1, <2>3, FS_AddElement
  <2>5. others \cup {goal} \in SUBSET preds
    BY <1>1, <1>2, <1>6, <2>1
  <2>6. Cardinality(others \cup {goal}) <= Cardinality(preds)
    BY <1>3, <2>5, FS_Subset
  <2> HIDE DEF preds, before, others
  <2>7. Cardinality(before) <= Cardinality(preds)
    BY <2>2, <2>3, <2>4, <2>6
  <2>8. rank[goal] <= Cardinality(preds)
    BY <1>1, <1>4, <2>2, <2>7
  <2> QED BY <1>1, <1>3, <1>4, <2>8 DEF preds
<1> QED BY <1>5, <1>6

(* The node before, in the way back, until the start is met.               *)
Before(s, start, q) ==
    IF Head(q) = start THEN q ELSE <<s.predecessors[Head(q)]>> \o q

LEMMA WayBackExists ==
    ASSUME NEW G, NEW start, NEW goal, NEW s, ReachInv(s, G, start, goal), TreeInv(s, start),
           s.found
    PROVE  \E back : back = [k \in Nat |-> IF k = 0 THEN <<goal>>
                                           ELSE Before(s, start, back[k - 1])]
<1> DEFINE S == { q \in Seq(Reached(s)) : Chain(s, goal, q) }
           base == <<goal>>
           step == [x \in Nat \X S |-> Before(s, start, x[2])]
<1>1. base \in S
  BY DEF ReachInv, Chain
<1>2. ASSUME NEW q \in S
      PROVE  Before(s, start, q) \in S
  <2>1. CASE Head(q) = start
    BY <2>1 DEF Before
  <2>2. CASE Head(q) # start
    <3>1. Chain(s, goal, <<s.predecessors[Head(q)]>> \o q)
      BY <2>2, ChainGrows
    <3> QED BY <2>2, <3>1 DEF Chain, Before
  <2> QED BY <2>1, <2>2
<1> HIDE DEF S, base
<1>3. step \in [Nat \X S -> S]
  BY <1>2
<1> HIDE DEF step
<1>4. PICK f \in [Nat -> S] : Iterates(f, base, step)
  BY <1>1, <1>3, Recursion
<1>5. ASSUME NEW k \in Nat, k # 0
      PROVE  step[<<k, f[k - 1]>>] = Before(s, start, f[k - 1])
  <2>1. k - 1 \in Nat
    BY <1>5
  <2>2. f[k - 1] \in S
    BY <2>1
  <2> QED BY <2>2 DEF step
<1>6. \A k \in Nat : f[k] = IF k = 0 THEN base ELSE Before(s, start, f[k - 1])
  BY <1>4, <1>5 DEF Iterates
<1>7. f = [k \in Nat |-> IF k = 0 THEN base ELSE Before(s, start, f[k - 1])]
  BY <1>6
<1> QED BY <1>7 DEF base

LEMMA WayBackEnds ==
    ASSUME NEW G, IsFiniteSet(DOMAIN G), NEW start, NEW goal, NEW s,
           ReachInv(s, G, start, goal), TreeInv(s, start), s.found,
           NEW back, back = [k \in Nat |-> IF k = 0 THEN <<goal>>
                                           ELSE Before(s, start, back[k - 1])]
    PROVE  LET q == back[Cardinality(DOMAIN s.predecessors)] IN
           Chain(s, goal, q) /\ Head(q) = start
<1>1. back[0] = <<goal>> /\ \A k \in Nat : back[k + 1] = Before(s, start, back[k])
  OBVIOUS
<1>2. PICK rank : Ranked(s, start, rank)
  BY DEF TreeInv
<1>3. /\ Cardinality(DOMAIN s.predecessors) \in Nat
      /\ rank[goal] \in Nat
      /\ rank[goal] <= Cardinality(DOMAIN s.predecessors)
  BY <1>2, GoalRank
<1> DEFINE Near(k, q) == Head(q) = start \/ rank[Head(q)] + k <= rank[goal]
           Good == { k \in Nat : Chain(s, goal, back[k]) /\ Near(k, back[k]) }
<1>4. 0 \in Good
  <2>1. Head(<<goal>>) = goal /\ Chain(s, goal, <<goal>>)
    BY DEF ReachInv, Chain
  <2> QED BY <1>1, <1>3, <2>1
<1>5. ASSUME NEW k \in Nat, k \in Good
      PROVE  k + 1 \in Good
  <2>1. PICK q : q = back[k] /\ Chain(s, goal, q) /\ Near(k, q)
    BY <1>5
  <2>2. back[k + 1] = Before(s, start, q)
    BY <1>1, <2>1
  <2>3. CASE Head(q) = start
    BY <2>1, <2>2, <2>3 DEF Before
  <2>4. CASE Head(q) # start
    <3> DEFINE p == <<s.predecessors[Head(q)]>> \o q
               e == s.predecessors[Head(q)]
    <3>1. Head(q) \in DOMAIN s.predecessors /\ Chain(s, goal, p) /\ Head(p) = e
      BY <2>1, <2>4, ChainGrows
    <3>2. back[k + 1] = p
      BY <2>2, <2>4 DEF Before
    <3>3. e \in Reached(s) /\ Head(q) \in Reached(s)
      BY <3>1 DEF TreeInv, ReachInv
    <3>4. rank[e] \in Nat /\ rank[Head(q)] \in Nat /\ rank[e] < rank[Head(q)]
      BY <1>2, <3>1, <3>3 DEF Ranked
    <3>5. rank[Head(q)] + k <= rank[goal]
      BY <2>1, <2>4
    <3> HIDE DEF p, e
    <3>6. rank[e] + (k + 1) <= rank[goal]
      BY <1>3, <3>4, <3>5
    <3> QED BY <3>1, <3>2, <3>6
  <2> QED BY <2>3, <2>4
<1>6. Nat \subseteq Good
  <2> HIDE DEF Good
  <2> QED BY <1>4, <1>5, NatSet
<1> DEFINE K == Cardinality(DOMAIN s.predecessors)
<1>7. PICK q : q = back[K] /\ Chain(s, goal, q) /\ Near(K, q)
  BY <1>3, <1>6
<1>8. Head(q) = start
  <2> SUFFICES ASSUME Head(q) # start PROVE FALSE
    OBVIOUS
  <2>1. Head(q) \in DOMAIN s.predecessors
    BY <1>7, ChainGrows
  <2>2. Head(q) \in Reached(s) /\ s.predecessors[Head(q)] \in Reached(s)
    BY <2>1 DEF TreeInv, ReachInv
  <2>3. /\ rank[s.predecessors[Head(q)]] \in Nat /\ rank[Head(q)] \in Nat
        /\ rank[s.predecessors[Head(q)]] < rank[Head(q)]
    BY <1>2, <2>1, <2>2 DEF Ranked
  <2>4. rank[Head(q)] + K <= rank[goal]
    BY <1>7
  <2> HIDE DEF K
  <2> QED BY <1>3, <2>3, <2>4 DEF K
<1> QED BY <1>7, <1>8

(* reconstruct_route_nodes, of a search that found its goal, comes back to  *)
(* the start: the loop ends and no predecessor is missing.                 *)
LEMMA RouteIsAChain ==
    ASSUME NEW G, IsFiniteSet(DOMAIN G), NEW s, s.found,
           ReachInv(s, G, ends.start, ends.goal), TreeInv(s, ends.start)
    PROVE  Chain(s, ends.goal, RouteNodes(s)) /\ Head(RouteNodes(s)) = ends.start
<1> DEFINE back == CHOOSE g : g = [k \in Nat |->
                      IF k = 0 THEN <<ends.goal>>
                      ELSE IF Head(g[k - 1]) = ends.start THEN g[k - 1]
                      ELSE <<s.predecessors[Head(g[k - 1])]>> \o g[k - 1]]
<1>1. RouteNodes(s) = back[Cardinality(DOMAIN s.predecessors)]
  BY Zenon DEF RouteNodes
<1>2. PICK g : g = [k \in Nat |-> IF k = 0 THEN <<ends.goal>>
                                  ELSE Before(s, ends.start, g[k - 1])]
  BY WayBackExists
<1>3. back = [k \in Nat |-> IF k = 0 THEN <<ends.goal>>
                            ELSE Before(s, ends.start, back[k - 1])]
  BY <1>2, Zenon DEF Before
<1> HIDE DEF back
<1> QED BY <1>1, <1>3, WayBackEnds

-----------------------------------------------------------------------------
(* The map of a document.                                                  *)

LEMMA NodesAreFinite ==
    ASSUME NEW asked \in Scenarios, index = Rebuild(asked.doc)
    PROVE  /\ IsFiniteSet(DOMAIN index.nodes)
           /\ DOMAIN index.nodes = Ids(asked.doc.nodes)
           /\ DOMAIN index.adjacency = DOMAIN index.nodes
           /\ \A n \in DOMAIN index.nodes : index.adjacency[n] = Adjacency(asked.doc, n)
<1>1. /\ DOMAIN index.nodes = Ids(asked.doc.nodes)
      /\ DOMAIN index.adjacency = Ids(asked.doc.nodes)
      /\ \A n \in DOMAIN index.nodes : index.adjacency[n] = Adjacency(asked.doc, n)
  BY DEF Rebuild
<1>2. IsFiniteSet(DOMAIN asked.doc.nodes)
  <2>1. Len(asked.doc.nodes) \in Nat /\ DOMAIN asked.doc.nodes = 1..Len(asked.doc.nodes)
    BY DocumentsAssumption DEF IsDocument
  <2>2. IsFiniteSet(1..Len(asked.doc.nodes))
    <3> DEFINE n == Len(asked.doc.nodes)
    <3>1. n \in Nat
      BY <2>1
    <3> HIDE DEF n
    <3>2. n \in Int /\ 1 \in Int
      BY <3>1
    <3>3. IsFiniteSet(1..n)
      BY <3>2, FS_Interval, Zenon
    <3> QED BY <3>3 DEF n
  <2> QED BY <2>1, <2>2, Zenon
<1>3. IsFiniteSet(Ids(asked.doc.nodes))
  BY <1>2, IdsAreFinite
<1> QED BY <1>1, <1>3

LEMMA StepsStayOnTheMap ==
    ASSUME NEW asked \in Scenarios, index = Rebuild(asked.doc),
           NEW n \in DOMAIN index.nodes
    PROVE  /\ Neighbors(index, n) = Adjacency(asked.doc, n)
           /\ LegalSteps(index, n) \subseteq Neighbors(index, n)
           /\ \A mode : OpenSteps(mode, n) \subseteq LegalSteps(index, n)
           /\ \A a \in Neighbors(index, n) : a.node \in DOMAIN index.nodes
<1>1. Neighbors(index, n) = Adjacency(asked.doc, n)
  BY NodesAreFinite DEF Neighbors
<1>2. LegalSteps(index, n) \subseteq Neighbors(index, n)
  BY DEF LegalSteps
<1>3. \A mode : OpenSteps(mode, n) \subseteq LegalSteps(index, n)
  BY DEF OpenSteps
<1>4. ASSUME NEW a \in Adjacency(asked.doc, n)
      PROVE  a.node \in Ids(asked.doc.nodes)
  <2>1. PICK i \in DOMAIN asked.doc.edges :
            \/ a.node = asked.doc.nodes[asked.doc.edges[i].target].id
            \/ a.node = asked.doc.nodes[asked.doc.edges[i].source].id
    BY <1>4 DEF Adjacency
  <2>2. {asked.doc.edges[i].source, asked.doc.edges[i].target} \subseteq DOMAIN asked.doc.nodes
    BY DocumentsAssumption DEF IsDocument
  <2> QED BY <2>1, <2>2 DEF Ids
<1> QED BY <1>1, <1>2, <1>3, <1>4, NodesAreFinite

LEMMA MapIsClosed ==
    ASSUME NEW asked \in Scenarios, index = Rebuild(asked.doc), NEW mode
    PROVE  /\ DOMAIN Graph(mode) = DOMAIN index.nodes
           /\ IsFiniteSet(DOMAIN Graph(mode))
           /\ Closed(Graph(mode), DOMAIN Graph(mode))
<1>1. DOMAIN Graph(mode) = DOMAIN index.nodes
  BY DEF Graph
<1>2. \A n \in DOMAIN index.nodes : \A a \in OpenSteps(mode, n) : a.node \in DOMAIN index.nodes
  BY StepsStayOnTheMap
<1> QED BY <1>1, <1>2, NodesAreFinite DEF Graph, Closed

(* Of the three searches two skip the same edges, the third none.           *)
LEMMA ThreeMaps ==
    /\ Graph("penalties") = Graph("blocking")
    /\ \A n : OpenSteps("unconstrained", n) = LegalSteps(index, n)
    /\ \A n, a : a \in OpenSteps("blocking", n)
                    <=> a \in LegalSteps(index, n) /\ ~HardBlocked(index, a.edge)
BY DEF Graph, OpenSteps, Skips

(* validate_route_plan_shape has nothing to find in a plan made of a chain. *)
LEMMA ChainsAreWellShaped ==
    ASSUME NEW s, NEW nodes, Chain(s, ends.goal, nodes), Head(nodes) = ends.start,
           NEW via \in EdgesAlong(nodes)
    PROVE  WellShaped(RoutePlan(nodes, via))
<1> DEFINE plan == RoutePlan(nodes, via)
<1>1. /\ plan.start = ends.start /\ plan.goal = ends.goal
      /\ plan.nodes = nodes /\ plan.edges = via
      /\ plan.node_zones = [i \in DOMAIN nodes |-> ZonesOfNode(index, nodes[i])]
      /\ plan.edge_zones = [i \in DOMAIN via |-> ToSet(ZonesOfEdge(index, via[i]))]
  BY DEF RoutePlan
<1>2. /\ DOMAIN plan.steps = DOMAIN nodes
      /\ plan.steps = [i \in DOMAIN nodes |-> plan.steps[i]]
      /\ \A i \in DOMAIN nodes :
            /\ plan.steps[i].node = nodes[i]
            /\ plan.steps[i].incoming = IF i = 1 THEN None ELSE Some(via[i - 1])
  BY DEF RoutePlan
<1> HIDE DEF plan
<1>3. /\ nodes \in Seq(Reached(s)) /\ nodes # << >> /\ nodes[Len(nodes)] = ends.goal
      /\ Len(nodes) \in Nat /\ Len(nodes) >= 1 /\ DOMAIN nodes = 1..Len(nodes)
  BY DEF Chain
<1>4. DOMAIN via = 1..(Len(nodes) - 1) /\ via \in [1..(Len(nodes) - 1) -> DOMAIN index.edges]
  BY DEF EdgesAlong
<1>5. Len(via) + 1 = Len(nodes)
  <2>1. via = [i \in 1..(Len(nodes) - 1) |-> via[i]] /\ Len(nodes) - 1 \in Nat
    BY <1>3, <1>4
  <2>2. Len(via) = Len(nodes) - 1
    BY <2>1
  <2> QED BY <1>3, <2>2
<1>6. Len(plan.node_zones) = Len(nodes) /\ Len(plan.edge_zones) = Len(via)
  BY <1>1, <1>3, <1>4, <1>5
<1>7. Len(plan.steps) = Len(nodes)
  BY <1>2, <1>3
<1>8. plan.goal = Last(plan.nodes)
  BY <1>1, <1>3 DEF Last
<1> QED BY <1>1, <1>2, <1>3, <1>5, <1>6, <1>7, <1>8 DEF WellShaped, plan

-----------------------------------------------------------------------------
(* The handler.                                                            *)

Resolved == {ends.start, ends.goal} \subseteq DOMAIN index.nodes

SearchOK(s) ==
    /\ IsSearch(s)
    /\ ReachInv(s, Graph(s.mode), ends.start, ends.goal)
    /\ TreeInv(s, ends.start)

(* The walls part the goal from the start.                                 *)
NoOpenWay ==
    \E C \in SUBSET DOMAIN index.nodes :
        ends.start \in C /\ ends.goal \notin C /\ Closed(Graph("blocking"), C)

(* But for the walls there is a way.                                       *)
LegalWay ==
    \A C \in SUBSET DOMAIN index.nodes :
        ends.start \in C /\ Closed(Graph("unconstrained"), C) => ends.goal \in C

StageInv ==
    /\ scenario \in Scenarios
    /\ stage # "boot" => index = Rebuild(scenario.doc)
    /\ Searching => \/ Resolved /\ SearchOK(search)
                    \/ ~Resolved /\ stage = "search" /\ search.over /\ ~search.found
    /\ stage = "search" => search.mode \in {"blocking", "penalties"}
    /\ stage \in {"unconstrained", "blocking"} => search.mode = stage /\ NoOpenWay
    /\ stage = "blocking" => LegalWay

RouteInv == StageInv /\ DiagnosisNamesTheCut

LEMMA Unmoved ==
    ASSUME index' = index, ends' = ends
    PROVE  /\ Resolved' <=> Resolved
           /\ SearchOK(search') => SearchOK(search)'
           /\ NoOpenWay' <=> NoOpenWay
           /\ LegalWay' <=> LegalWay
<1>1. /\ Graph(search.mode)' = Graph(search'.mode)
      /\ Graph("blocking")' = Graph("blocking")
      /\ Graph("unconstrained")' = Graph("unconstrained")
  BY DEF Graph, OpenSteps, Skips
<1>2. Resolved' <=> Resolved
  BY DEF Resolved
<1>3. NoOpenWay' <=> NoOpenWay
  BY <1>1 DEF NoOpenWay
<1>4. LegalWay' <=> LegalWay
  BY <1>1 DEF LegalWay
<1>5. SearchOK(search') => SearchOK(search)'
  BY <1>1 DEF SearchOK
<1> QED BY <1>2, <1>3, <1>4, <1>5

(* One iteration of the loop.                                              *)
LEMMA ExpandKeeps ==
    ASSUME StageInv, Expand
    PROVE  SearchOK(search') /\ search'.mode = search.mode /\ Resolved
<1> DEFINE G == Graph(search.mode)
           start == ends.start
           goal == ends.goal
<1>1. /\ Resolved /\ SearchOK(search) /\ ~search.over
      /\ scenario \in Scenarios /\ index = Rebuild(scenario.doc)
  BY DEF StageInv, Expand, Searching
<1>2. DOMAIN G = DOMAIN index.nodes /\ IsFiniteSet(DOMAIN G) /\ Closed(G, DOMAIN G)
  BY <1>1, MapIsClosed
<1>3. IsSearch(search) /\ ReachInv(search, G, start, goal) /\ TreeInv(search, start)
  BY <1>1 DEF SearchOK
<1>4. PICK x \in search.frontier :
        search' = IF x[1] \in search.visited
                  THEN [search EXCEPT !.frontier = @ \ {x}]
                  ELSE IF x[1] = goal
                  THEN [search EXCEPT !.visited = @ \cup {x[1]}, !.frontier = {},
                                      !.found = TRUE, !.distance = x[2], !.over = TRUE]
                  ELSE Relax(search, x[1], x[2])
  BY DEF Expand, Nearest
<1>5. x[1] \in Reached(search) /\ x = <<x[1], x[2]>> /\ x[1] \in DOMAIN G
  BY <1>3 DEF ReachInv
<1> HIDE DEF G, start, goal
<1>6. CASE x[1] \in search.visited
  <2>1. search' = [search EXCEPT !.frontier = @ \ {x}]
    BY <1>4, <1>6
  <2>2. /\ IsSearch(search') /\ search'.mode = search.mode
        /\ ReachInv(search', G, start, goal) /\ TreeInv(search', start)
    BY <1>1, <1>3, <1>6, <2>1, PassOverReaches
  <2> QED BY <1>1, <2>2 DEF SearchOK, G, start, goal
<1>7. CASE x[1] \notin search.visited /\ x[1] = goal
  <2>1. search' = [search EXCEPT !.visited = @ \cup {x[1]}, !.frontier = {},
                                 !.found = TRUE, !.distance = x[2], !.over = TRUE]
    BY <1>4, <1>7
  <2>2. Finished(search, search', x)
    BY <1>3, <2>1 DEF Finished, IsSearch
  <2>3. /\ IsSearch(search') /\ search'.mode = search.mode
        /\ ReachInv(search', G, start, goal) /\ TreeInv(search', start)
    BY <1>1, <1>3, <1>7, <2>2, FinishReaches
  <2> QED BY <1>1, <2>3 DEF SearchOK, G, start, goal
<1>8. CASE x[1] \notin search.visited /\ x[1] # goal
  <2>1. search' = Relax(search, x[1], x[2])
    BY <1>4, <1>8
  <2>2. PICK better, best :
            /\ better \in SUBSET Ahead(G, search, x[1])
            /\ Relaxed(search, search', x[1], x[2], better, best)
            /\ Ahead(G, search, x[1]) \ Reached(search) \subseteq better
    BY <1>2, <1>3, <1>5, <2>1, RelaxIsRelaxed DEF G
  <2>3. ReachInv(search', G, start, goal)
    BY <1>1, <1>2, <1>3, <1>4, <1>5, <1>8, <2>2, RelaxReaches
  <2>4. TreeInv(search', start)
    BY <1>1, <1>3, <1>5, <1>8, <2>2, RelaxRanks
  <2>5. IsSearch(search') /\ search'.mode = search.mode
    BY <2>2 DEF Relaxed, IsSearch
  <2> QED BY <1>1, <2>3, <2>4, <2>5 DEF SearchOK, G, start, goal
<1> QED BY <1>6, <1>7, <1>8

(* The rest of the handler keeps the invariant.                            *)
LEMMA PlanRouteKeeps ==
    ASSUME StageInv, stage = "serving", NEW s, NEW g, PlanRoute(s, g)
    PROVE  StageInv' /\ stage' = "search"
<1>1. /\ ends' = [start |-> s, goal |-> g] /\ ends'.start = s /\ ends'.goal = g
      /\ stage' = "search" /\ index' = index /\ scenario' = scenario
      /\ scenario \in Scenarios /\ index = Rebuild(scenario.doc)
  BY DEF PlanRoute, StageInv
<1> DEFINE mode == IF scenario.penalized THEN "penalties" ELSE "blocking"
<1>2. search' = Begin(mode, s, g) /\ mode \in {"blocking", "penalties"}
  BY DEF PlanRoute
<1> HIDE DEF mode
<1>3. CASE {s, g} \subseteq DOMAIN index.nodes
  <2>1. DOMAIN Graph(mode) = DOMAIN index.nodes
    BY DEF Graph
  <2>2. /\ IsSearch(search') /\ search'.mode = mode
        /\ ReachInv(search', Graph(mode), s, g) /\ TreeInv(search', s)
    BY <1>2, <1>3, <2>1, BeginReaches
  <2>3. Graph(search.mode)' = Graph(mode)
    BY <1>1, <2>2 DEF Graph, OpenSteps, Skips
  <2>4. SearchOK(search)'
    BY <1>1, <2>2, <2>3 DEF SearchOK
  <2>5. Resolved'
    BY <1>1, <1>3 DEF Resolved
  <2> QED BY <1>1, <1>2, <2>2, <2>4, <2>5 DEF StageInv
<1>4. CASE ~ {s, g} \subseteq DOMAIN index.nodes
  <2>1. search' = [NoSearch EXCEPT !.mode = mode]
    BY <1>2, <1>4 DEF Begin
  <2>2. search'.over /\ ~search'.found /\ search'.mode = mode
    BY <2>1 DEF NoSearch
  <2>3. ~Resolved'
    BY <1>1, <1>4 DEF Resolved
  <2> QED BY <1>1, <1>2, <2>2, <2>3 DEF StageInv
<1> QED BY <1>1, <1>3, <1>4

(* What a search that failed has reached: a closed set without the goal.    *)
LEMMA FailureCloses ==
    ASSUME SearchOK(search), search.over, ~search.found
    PROVE  /\ ends.start \in Reached(search) /\ ends.goal \notin Reached(search)
           /\ Reached(search) \subseteq DOMAIN index.nodes
           /\ Closed(Graph(search.mode), Reached(search))
<1>1. DOMAIN Graph(search.mode) = DOMAIN index.nodes
  BY DEF Graph
<1>2. search.visited = Reached(search) /\ ends.goal \notin search.visited
  BY DEF SearchOK, ReachInv
<1> QED BY <1>1, <1>2 DEF SearchOK, ReachInv, Closed

LEMMA DiagnoseKeeps ==
    ASSUME StageInv, Diagnose
    PROVE  StageInv' /\ stage' = "unconstrained"
<1>1. /\ stage = "search" /\ search.over /\ ~search.found /\ Resolved
      /\ search' = Begin("unconstrained", ends.start, ends.goal)
      /\ stage' = "unconstrained"
      /\ scenario' = scenario /\ index' = index /\ ends' = ends
  BY DEF Diagnose, SearchAgain, Resolved
<1>2. SearchOK(search) /\ search.mode \in {"blocking", "penalties"}
  BY <1>1 DEF StageInv, Searching
<1>3. NoOpenWay
  <2>1. Graph(search.mode) = Graph("blocking")
    BY <1>2, ThreeMaps
  <2> QED BY <1>1, <1>2, <2>1, FailureCloses DEF NoOpenWay
<1>4. SearchOK(search') /\ search'.mode = "unconstrained"
  <2>1. DOMAIN Graph("unconstrained") = DOMAIN index.nodes
    BY DEF Graph
  <2> QED BY <1>1, <2>1, BeginReaches DEF SearchOK, Resolved
<1>5. SearchOK(search)' /\ Resolved' /\ NoOpenWay'
  BY <1>1, <1>3, <1>4, Unmoved
<1> QED BY <1>1, <1>4, <1>5 DEF StageInv

LEMMA DiagnoseWallsKeeps ==
    ASSUME StageInv, DiagnoseWalls
    PROVE  StageInv' /\ stage' = "blocking"
<1>1. /\ stage = "unconstrained" /\ search.over /\ search.found
      /\ search' = Begin("blocking", ends.start, ends.goal)
      /\ stage' = "blocking"
      /\ scenario' = scenario /\ index' = index /\ ends' = ends
  BY DEF DiagnoseWalls, SearchAgain
<1>2. /\ SearchOK(search) /\ search.mode = "unconstrained" /\ Resolved /\ NoOpenWay
  BY <1>1 DEF StageInv, Searching
<1>3. LegalWay
  <2>1. DOMAIN Graph("unconstrained") = DOMAIN index.nodes
    BY DEF Graph
  <2> QED BY <1>1, <1>2, <2>1 DEF SearchOK, ReachInv, LegalWay
<1>4. SearchOK(search') /\ search'.mode = "blocking"
  <2>1. DOMAIN Graph("blocking") = DOMAIN index.nodes
    BY DEF Graph
  <2> QED BY <1>1, <1>2, <2>1, BeginReaches DEF SearchOK, Resolved
<1>5. SearchOK(search)' /\ Resolved' /\ NoOpenWay' /\ LegalWay'
  BY <1>1, <1>2, <1>3, <1>4, Unmoved
<1> QED BY <1>1, <1>4, <1>5 DEF StageInv

LEMMA SearchKeeps ==
    ASSUME StageInv, Expand \/ Exhausted
    PROVE  StageInv' /\ stage' = stage
<1>1. /\ Searching /\ ~search.over /\ stage' = stage
      /\ scenario' = scenario /\ index' = index /\ ends' = ends
  BY DEF Expand, Exhausted
<1>2. SearchOK(search') /\ search'.mode = search.mode /\ Resolved
  <2>1. CASE Expand
    BY <2>1, ExpandKeeps
  <2>2. CASE Exhausted
    <3>1. search.frontier = {} /\ search' = [search EXCEPT !.over = TRUE]
      BY <2>2 DEF Exhausted
    <3>2. SearchOK(search) /\ Resolved
      BY <1>1 DEF StageInv
    <3> QED BY <1>1, <3>1, <3>2, ExhaustReaches DEF SearchOK
  <2> QED BY <2>1, <2>2
<1>3. SearchOK(search)' /\ (Resolved' <=> Resolved) /\ (NoOpenWay' <=> NoOpenWay)
      /\ (LegalWay' <=> LegalWay)
  BY <1>1, <1>2, Unmoved
<1> QED BY <1>1, <1>2, <1>3 DEF StageInv, Searching

-----------------------------------------------------------------------------
(* The diagnosis.                                                          *)

LEMMA CutUnmoved ==
    ASSUME index' = index, ends' = ends, NEW f
    PROVE  NamesTheCut(f) => NamesTheCut(f)'
BY DEF NamesTheCut, Reachable

(* A failure that names the cut makes an answer that does.                 *)
LEMMA AnswerNamesTheCut ==
    ASSUME index' = index, ends' = ends, NEW f, NamesTheCut(f),
           answer' = [plan |-> None, failure |-> Some(f)]
    PROVE  DiagnosisNamesTheCut'
<1>1. Default(answer.failure, NoAnswer)' = f
  BY DEF Default, Some, None
<1>2. NamesTheCut(f)'
  BY CutUnmoved
<1> QED BY <1>1, <1>2 DEF DiagnosisNamesTheCut, NamesTheCut, Reachable


(* A way found is turned into a plan: the answer is no failure.             *)
LEMMA FoundDoesNotFail ==
    ASSUME StageInv, Found
    PROVE  answer'.failure = None /\ stage' = "answered"
<1>1. stage = "search" /\ search.over /\ search.found
  BY DEF Found
<1>2. PICK via \in EdgesAlong(RouteNodes(search)) :
        LET plan == RoutePlan(RouteNodes(search), via) IN
        Answer(IF WellShaped(plan) THEN [plan |-> Some(plan), failure |-> None]
               ELSE [plan |-> None, failure |-> Some(Failure("Unreachable"))])
  BY DEF Found
<1> DEFINE G == Graph(search.mode)
           nodes == RouteNodes(search)
<1>3. scenario \in Scenarios /\ index = Rebuild(scenario.doc) /\ SearchOK(search)
  BY <1>1 DEF StageInv, Searching
<1>4. /\ IsFiniteSet(DOMAIN G)
      /\ ReachInv(search, G, ends.start, ends.goal) /\ TreeInv(search, ends.start)
  BY <1>3, MapIsClosed DEF SearchOK
<1> HIDE DEF G
<1>5. Chain(search, ends.goal, nodes) /\ Head(nodes) = ends.start
  BY <1>1, <1>4, RouteIsAChain
<1> HIDE DEF nodes
<1>6. WellShaped(RoutePlan(nodes, via))
  BY <1>2, <1>5, ChainsAreWellShaped DEF nodes
<1>7. Answer([plan |-> Some(RoutePlan(nodes, via)), failure |-> None])
  BY <1>2, <1>6 DEF nodes
<1> QED BY <1>7 DEF Answer

(* Of two ends one is not on the map.                                      *)
LEMMA MissingEndIsMissing ==
    ASSUME MissingEnd
    PROVE  DiagnosisNamesTheCut' /\ stage' = "answered"
<1> DEFINE f == Failure(IF ends.start \notin DOMAIN index.nodes
                        THEN "MissingStartNode" ELSE "MissingGoalNode")
<1>1. /\ answer' = [plan |-> None, failure |-> Some(f)] /\ stage' = "answered"
      /\ index' = index /\ ends' = ends
      /\ ~ {ends.start, ends.goal} \subseteq DOMAIN index.nodes
  BY DEF MissingEnd, Answer
<1>2. f.kind \in {"MissingStartNode", "MissingGoalNode"}
  BY DEF Failure
<1> HIDE DEF f
<1>3. NamesTheCut(f)
  BY <1>1, <1>2 DEF NamesTheCut
<1> QED BY <1>1, <1>3, AnswerNamesTheCut

(* The unconstrained search failed: what it reached is a set no legal step  *)
(* leaves, and the locked edges are all that leads out of it.               *)
LEMMA UnreachableNamesTheLocks ==
    ASSUME StageInv, ReportUnreachable
    PROVE  DiagnosisNamesTheCut' /\ stage' = "answered"
<1>1. /\ stage = "unconstrained" /\ search.over /\ ~search.found
      /\ answer' = [plan |-> None, failure |-> Some(Unreachable)]
      /\ stage' = "answered" /\ index' = index /\ ends' = ends
  BY DEF ReportUnreachable, Answer
<1>2. SearchOK(search) /\ search.mode = "unconstrained"
  BY <1>1 DEF StageInv, Searching
<1> DEFINE C == Reached(search)
           legal(n) == LegalSteps(index, n)
           any(n)   == Neighbors(index, n)
           locked == {a.edge : a \in {b \in UNION {Neighbors(index, n) : n \in C} :
                                        ~AllowsTraversal(index, b.edge, b.from_source)}}
<1>3. /\ ends.start \in C /\ ends.goal \notin C /\ C \in SUBSET DOMAIN index.nodes
      /\ Closed(Graph("unconstrained"), C)
  BY <1>1, <1>2, FailureCloses
<1>4. \A n \in C : \A a \in legal(n) : a.node \in C
  <2> HIDE DEF C
  <2>1. \A n \in C : Graph("unconstrained")[n] = legal(n)
    BY <1>3, ThreeMaps DEF Graph
  <2> QED BY <1>3, <2>1 DEF Closed
<1>5. \A n \in C : \A a \in any(n) : a.edge \in locked \/ a.node \in C
  <2> TAKE n \in C
  <2> TAKE a \in any(n)
  <2>1. CASE AllowsTraversal(index, a.edge, a.from_source)
    BY <1>4, <2>1 DEF LegalSteps
  <2>2. CASE ~AllowsTraversal(index, a.edge, a.from_source)
    <3>1. a \in UNION {Neighbors(index, m) : m \in C}
      OBVIOUS
    <3> QED BY <2>2, <3>1
  <2> QED BY <2>1, <2>2
<1>6. Unreachable.kind = "Unreachable" /\ Unreachable.locked_edges = locked
  BY DEF Unreachable, Failure, Reached
<1> HIDE DEF C, locked
<1>7. NamesTheCut(Unreachable)
  BY <1>3, <1>4, <1>5, <1>6, Zenon DEF NamesTheCut, Reachable
<1> QED BY <1>1, <1>7, AnswerNamesTheCut

(* The unconstrained search got through and the one around the walls did    *)
(* not: the walled edges out of what that one reached are a cut, and there  *)
(* are some, or there were no way.                                         *)
LEMMA PolicyNamesTheWalls ==
    ASSUME StageInv, ReportWalls
    PROVE  DiagnosisNamesTheCut' /\ stage' = "answered"
<1>1. PICK f \in PolicyFailure :
        /\ stage = "blocking" /\ search.over
        /\ answer' = [plan |-> None, failure |-> Some(f)]
        /\ stage' = "answered" /\ index' = index /\ ends' = ends
  BY DEF ReportWalls, Answer
<1>2. SearchOK(search) /\ search.mode = "blocking" /\ NoOpenWay /\ LegalWay
  BY <1>1 DEF StageInv, Searching
<1>3. ~search.found
  <2>1. DOMAIN Graph("blocking") = DOMAIN index.nodes
    BY DEF Graph
  <2> QED BY <1>2, <2>1 DEF NoOpenWay, SearchOK, ReachInv
<1> DEFINE C == Reached(search)
           legal(n) == LegalSteps(index, n)
           steps  == UNION {LegalSteps(index, n) : n \in C}
           walled == {a.edge : a \in {b \in steps : HardBlocked(index, b.edge)}}
<1>4. /\ ends.start \in C /\ ends.goal \notin C /\ C \in SUBSET DOMAIN index.nodes
      /\ Closed(Graph("blocking"), C)
  BY <1>1, <1>2, <1>3, FailureCloses
<1>5. \A n \in C : \A a \in legal(n) : a.edge \in walled \/ a.node \in C
  <2> TAKE n \in C
  <2> TAKE a \in legal(n)
  <2>1. CASE ~HardBlocked(index, a.edge)
    BY <1>4, <2>1, ThreeMaps DEF Closed, Graph
  <2>2. CASE HardBlocked(index, a.edge)
    <3>1. a \in steps
      OBVIOUS
    <3> QED BY <2>2, <3>1
  <2> QED BY <2>1, <2>2
<1>6. \A S \in SUBSET DOMAIN index.nodes :
        ends.start \in S /\ (\A n \in S : \A a \in legal(n) : a.node \in S) => ends.goal \in S
  BY <1>2, ThreeMaps DEF LegalWay, Closed, Graph
<1>7. walled # {}
  <2> HIDE DEF C, walled
  <2> QED BY <1>4, <1>5, <1>6
<1>8. \A e \in walled : HardBlocked(index, e)
  OBVIOUS
<1>9. f.kind = "PolicyBlocked" /\ f.blocked_edges = walled
  BY <1>1, <1>7 DEF PolicyFailure, Failure, Reached
<1> HIDE DEF C, walled
<1>10. NamesTheCut(f)
  BY <1>4, <1>5, <1>6, <1>8, <1>9, Zenon DEF NamesTheCut, Reachable
<1> QED BY <1>1, <1>10, AnswerNamesTheCut

-----------------------------------------------------------------------------
(* The invariant.                                                          *)

(* Outside a search there is little to keep.                               *)
LEMMA Idle ==
    ASSUME StageInv, stage' \in {"serving", "refused", "answered"},
           scenario' = scenario, index' = Rebuild(scenario.doc)
    PROVE  StageInv'
BY DEF StageInv, Searching

LEMMA NotFailed ==
    ASSUME stage' # "answered" \/ answer'.failure = None
    PROVE  DiagnosisNamesTheCut'
BY DEF DiagnosisNamesTheCut, Failed

LEMMA RouteInit == Init => RouteInv
<1> SUFFICES ASSUME Init PROVE RouteInv
  OBVIOUS
<1>1. stage = "boot" /\ scenario \in Scenarios
  BY DEF Init
<1>2. StageInv
  BY <1>1 DEF StageInv, Searching
<1>3. DiagnosisNamesTheCut
  BY <1>1 DEF DiagnosisNamesTheCut, Failed
<1> QED BY <1>2, <1>3 DEF RouteInv

LEMMA RouteStep == RouteInv /\ [Next]_vars => RouteInv'
<1> SUFFICES ASSUME RouteInv, [Next]_vars PROVE RouteInv'
  OBVIOUS
<1>1. StageInv /\ DiagnosisNamesTheCut
  BY DEF RouteInv
<1>2. CASE Boot
  <2>1. /\ stage' \in {"serving", "refused"} /\ scenario' = scenario
        /\ index' = Rebuild(scenario.doc)
    BY <1>2 DEF Boot
  <2> QED BY <1>1, <2>1, Idle, NotFailed DEF RouteInv
<1>3. CASE Request
  <2> DEFINE s == ResolveNode(index, scenario.start)
             g == ResolveNode(index, scenario.goal)
  <2>1. stage = "serving"
    BY <1>3 DEF Request
  <2>2. CASE PlanRoute(Default(s, Nil), Default(g, Nil))
    <3>1. StageInv' /\ stage' = "search"
      BY <1>1, <2>1, <2>2, PlanRouteKeeps
    <3> QED BY <3>1, NotFailed DEF RouteInv
  <2>3. CASE /\ stage' = "answered"
             /\ answer' = [plan |-> None, failure |-> None]
             /\ UNCHANGED <<scenario, index, ends, search, first>>
    <3>1. answer'.failure = None /\ scenario' = scenario /\ index' = Rebuild(scenario.doc)
      BY <1>1, <2>1, <2>3 DEF StageInv
    <3> QED BY <1>1, <2>3, <3>1, Idle, NotFailed DEF RouteInv
  <2> QED BY <1>3, <2>2, <2>3 DEF Request
<1>4. CASE Call
  <2>1. StageInv' /\ stage' = "search"
    BY <1>1, <1>4, PlanRouteKeeps DEF Call
  <2> QED BY <2>1, NotFailed DEF RouteInv
<1>5. CASE Expand \/ Exhausted
  <2>1. StageInv' /\ stage' # "answered"
    BY <1>1, <1>5, SearchKeeps DEF Expand, Exhausted, Searching
  <2> QED BY <2>1, NotFailed DEF RouteInv
<1>6. CASE Found
  <2>1. answer'.failure = None /\ stage' = "answered"
    BY <1>1, <1>6, FoundDoesNotFail
  <2>2. scenario' = scenario /\ index' = Rebuild(scenario.doc)
    BY <1>1, <1>6 DEF Found, Answer, StageInv
  <2> QED BY <1>1, <2>1, <2>2, Idle, NotFailed DEF RouteInv
<1>7. CASE Diagnose
  <2>1. StageInv' /\ stage' = "unconstrained"
    BY <1>1, <1>7, DiagnoseKeeps
  <2> QED BY <2>1, NotFailed DEF RouteInv
<1>8. CASE DiagnoseWalls
  <2>1. StageInv' /\ stage' = "blocking"
    BY <1>1, <1>8, DiagnoseWallsKeeps
  <2> QED BY <2>1, NotFailed DEF RouteInv
<1>9. CASE MissingEnd \/ ReportWalls \/ ReportUnreachable
  <2>1. DiagnosisNamesTheCut' /\ stage' = "answered"
    BY <1>1, <1>9, MissingEndIsMissing, PolicyNamesTheWalls, UnreachableNamesTheLocks
  <2>2. scenario' = scenario /\ index' = Rebuild(scenario.doc)
    BY <1>1, <1>9 DEF MissingEnd, ReportWalls, ReportUnreachable, Answer, StageInv
  <2> QED BY <1>1, <2>1, <2>2, Idle DEF RouteInv
<1>10. CASE UNCHANGED vars
  <2>1. /\ scenario' = scenario /\ index' = index /\ stage' = stage /\ ends' = ends
        /\ search' = search /\ answer' = answer
    BY <1>10 DEF vars
  <2>2. StageInv'
    <3>1. Searching' <=> Searching
      BY <2>1 DEF Searching
    <3>2. /\ Resolved' <=> Resolved
          /\ SearchOK(search) => SearchOK(search)'
          /\ NoOpenWay' <=> NoOpenWay
          /\ LegalWay' <=> LegalWay
      BY <2>1, Unmoved
    <3> QED BY <1>1, <2>1, <3>1, <3>2 DEF StageInv
  <2>3. DiagnosisNamesTheCut'
    <3>1. CASE ~Failed
      BY <2>1, <3>1 DEF DiagnosisNamesTheCut, Failed
    <3>2. CASE Failed
      <4>1. NamesTheCut(Default(answer.failure, NoAnswer))
        BY <1>1, <3>2 DEF DiagnosisNamesTheCut
      <4>2. NamesTheCut(Default(answer.failure, NoAnswer))'
        BY <2>1, <4>1, CutUnmoved
      <4> QED BY <4>2 DEF DiagnosisNamesTheCut
    <3> QED BY <3>1, <3>2
  <2> QED BY <2>2, <2>3 DEF RouteInv
<1> QED BY <1>2, <1>3, <1>4, <1>5, <1>6, <1>7, <1>8, <1>9, <1>10 DEF Next

(* A failure names its cause, on every map and for every question: the      *)
(* walls that plan_route reports as blocking are a cut between start and    *)
(* goal where a legal way would else lead, and where none would the locked  *)
(* edges it reports are all that bars one.                                 *)
THEOREM DiagnosisNamesTheCutHolds == Spec => []DiagnosisNamesTheCut
<1>1. Init => RouteInv
  BY RouteInit
<1>2. RouteInv /\ [Next]_vars => RouteInv'
  BY RouteStep
<1>3. RouteInv => DiagnosisNamesTheCut
  BY DEF RouteInv
<1> QED BY <1>1, <1>2, <1>3, PTL DEF Spec

-----------------------------------------------------------------------------
(* What the ways cost.  A reached node has the price of the cheapest way    *)
(* met so far, its own entry in the frontier until it is visited, and no    *)
(* price below that of a visited one; the step from its predecessor makes   *)
(* up the difference, and no step out of a visited node would better it.    *)
PriceInv(s, G, start, goal) ==
    /\ \A n \in Reached(s) : s.distances[n] \in Nat
    /\ s.distances[start] = 0
    /\ \A x \in s.frontier : x[2] \in Nat /\ s.distances[x[1]] <= x[2]
    /\ ~s.over => \A n \in Reached(s) \ s.visited : <<n, s.distances[n]>> \in s.frontier
    /\ \A n \in s.visited : \A x \in s.frontier : s.distances[n] <= x[2]
    /\ \A n \in s.visited \ {goal} : \A a \in G[n] :
          s.distances[a.node] <= s.distances[n] + Cost(s.mode, a)
    /\ \A n \in DOMAIN s.predecessors : \E a \in G[s.predecessors[n]] :
          a.node = n /\ s.distances[n] = s.distances[s.predecessors[n]] + Cost(s.mode, a)
    /\ s.found =>
          /\ s.distance = s.distances[goal]
          /\ \A n \in s.visited : s.distances[n] <= s.distance
          /\ \A n \in Reached(s) \ s.visited : s.distance <= s.distances[n]

LEMMA BeginPrices ==
    ASSUME NEW G, NEW mode, NEW start \in DOMAIN index.nodes, NEW goal \in DOMAIN index.nodes,
           NEW s, s = Begin(mode, start, goal)
    PROVE  PriceInv(s, G, start, goal)
<1>1. CASE start = goal
  <2>1. s = [mode |-> mode, frontier |-> {}, visited |-> {}, distances |-> [n \in {start} |-> 0],
             predecessors |-> << >>, found |-> TRUE, distance |-> 0, over |-> TRUE]
    BY <1>1 DEF Begin, NoSearch
  <2>2. /\ Reached(s) = {start} /\ s.visited = {} /\ s.distances[start] = 0
        /\ DOMAIN s.predecessors = {} /\ s.frontier = {} /\ s.over /\ s.distance = 0
    BY <2>1 DEF Reached
  <2> QED BY <1>1, <2>2 DEF PriceInv
<1>2. CASE start # goal
  <2>1. s = [mode |-> mode, frontier |-> {<<start, 0>>}, visited |-> {},
             distances |-> [n \in {start} |-> 0], predecessors |-> << >>, found |-> FALSE,
             distance |-> Infinity, over |-> FALSE]
    BY <1>2 DEF Begin, NoSearch
  <2>2. /\ Reached(s) = {start} /\ s.visited = {} /\ s.distances[start] = 0
        /\ DOMAIN s.predecessors = {} /\ s.frontier = {<<start, 0>>} /\ ~s.found
    BY <2>1 DEF Reached
  <2> QED BY <2>2 DEF PriceInv
<1> QED BY <1>1, <1>2

(* A search that only drops entries of visited nodes keeps its prices.      *)
LEMMA PricesKept ==
    ASSUME NEW G, NEW start, NEW goal, NEW s, PriceInv(s, G, start, goal),
           NEW t, t.mode = s.mode, t.visited = s.visited, t.distances = s.distances,
           t.predecessors = s.predecessors, t.found = s.found, t.distance = s.distance,
           t.frontier \subseteq s.frontier,
           ~t.over => \A n \in Reached(t) \ t.visited : <<n, t.distances[n]>> \in t.frontier
    PROVE  PriceInv(t, G, start, goal)
<1>1. Reached(t) = Reached(s)
  BY DEF Reached
<1>2. /\ \A n \in Reached(t) : t.distances[n] \in Nat
      /\ t.distances[start] = 0
  BY <1>1 DEF PriceInv
<1>3. /\ \A x \in t.frontier : x[2] \in Nat /\ t.distances[x[1]] <= x[2]
      /\ \A n \in t.visited : \A x \in t.frontier : t.distances[n] <= x[2]
  BY DEF PriceInv
<1>4. /\ \A n \in t.visited \ {goal} : \A a \in G[n] :
            t.distances[a.node] <= t.distances[n] + Cost(t.mode, a)
      /\ \A n \in DOMAIN t.predecessors : \E a \in G[t.predecessors[n]] :
            a.node = n /\ t.distances[n] = t.distances[t.predecessors[n]] + Cost(t.mode, a)
  BY DEF PriceInv
<1>5. t.found =>
          /\ t.distance = t.distances[goal]
          /\ \A n \in t.visited : t.distances[n] <= t.distance
          /\ \A n \in Reached(t) \ t.visited : t.distance <= t.distances[n]
  <2>1. CASE t.found
    <3>1. s.found
      BY <2>1
    <3> QED BY <1>1, <3>1 DEF PriceInv
  <2> QED BY <2>1
<1> QED BY <1>2, <1>3, <1>4, <1>5, Zenon DEF PriceInv

LEMMA PassOverPrices ==
    ASSUME NEW G, NEW start, NEW goal, NEW s, IsSearch(s), PriceInv(s, G, start, goal),
           ~s.over, NEW x \in s.frontier, x[1] \in s.visited,
           NEW t, t = [s EXCEPT !.frontier = @ \ {x}]
    PROVE  PriceInv(t, G, start, goal)
<1>1. t = [mode |-> s.mode, frontier |-> s.frontier \ {x}, visited |-> s.visited,
           distances |-> s.distances, predecessors |-> s.predecessors,
           found |-> s.found, distance |-> s.distance, over |-> s.over]
  BY DEF IsSearch
<1>2. /\ t.mode = s.mode /\ t.visited = s.visited /\ t.distances = s.distances
      /\ t.predecessors = s.predecessors /\ t.found = s.found /\ t.distance = s.distance
      /\ t.frontier = s.frontier \ {x} /\ Reached(t) = Reached(s)
  BY <1>1 DEF Reached
<1>3. \A n \in Reached(t) \ t.visited : <<n, t.distances[n]>> \in t.frontier
  <2> TAKE n \in Reached(t) \ t.visited
  <2>1. <<n, s.distances[n]>> \in s.frontier
    BY <1>2 DEF PriceInv
  <2>2. <<n, s.distances[n]>> # x
    BY <1>2
  <2> QED BY <1>2, <2>1, <2>2
<1> QED BY <1>2, <1>3, PricesKept

LEMMA ExhaustPrices ==
    ASSUME NEW G, NEW start, NEW goal, NEW s, IsSearch(s), PriceInv(s, G, start, goal),
           NEW t, t = [s EXCEPT !.over = TRUE]
    PROVE  PriceInv(t, G, start, goal)
<1>1. t = [mode |-> s.mode, frontier |-> s.frontier, visited |-> s.visited,
           distances |-> s.distances, predecessors |-> s.predecessors,
           found |-> s.found, distance |-> s.distance, over |-> TRUE]
  BY DEF IsSearch
<1>2. /\ t.mode = s.mode /\ t.visited = s.visited /\ t.distances = s.distances
      /\ t.predecessors = s.predecessors /\ t.found = s.found /\ t.distance = s.distance
      /\ t.frontier = s.frontier /\ t.over
  BY <1>1
<1> QED BY <1>2, PricesKept

(* The entry that surfaces for an unvisited node carries its price, which   *)
(* no unvisited node undercuts.                                            *)
LEMMA NearestIsItsPrice ==
    ASSUME NEW G, NEW start, NEW goal, NEW s, ReachInv(s, G, start, goal),
           PriceInv(s, G, start, goal), ~s.over,
           NEW n \in Reached(s) \ s.visited, NEW d, <<n, d>> \in Nearest(s.frontier)
    PROVE  /\ d \in Nat /\ d = s.distances[n] /\ <<n, d>> \in s.frontier
           /\ \A m \in Reached(s) \ s.visited : d <= s.distances[m]
           /\ \A m \in s.visited : s.distances[m] <= d
           /\ \A x \in s.frontier : d <= x[2]
<1>1. /\ <<n, d>>[1] = n /\ <<n, d>>[2] = d
      /\ <<n, d>> \in s.frontier /\ \A x \in s.frontier : d <= x[2]
  BY DEF Nearest
<1>2. d \in Nat /\ s.distances[n] <= d /\ s.distances[n] \in Nat
  BY <1>1 DEF PriceInv
<1>3. \A m \in Reached(s) \ s.visited : d <= s.distances[m]
  <2> TAKE m \in Reached(s) \ s.visited
  <2>1. <<m, s.distances[m]>> \in s.frontier
    BY DEF PriceInv
  <2>2. <<m, s.distances[m]>>[2] = s.distances[m]
    OBVIOUS
  <2> QED BY <1>1, <2>1, <2>2
<1>4. d = s.distances[n]
  BY <1>2, <1>3
<1>5. \A m \in s.visited : s.distances[m] <= d
  BY <1>1 DEF PriceInv
<1> QED BY <1>1, <1>2, <1>3, <1>4, <1>5

LEMMA FinishPrices ==
    ASSUME NEW G, NEW start, NEW goal, NEW s, IsSearch(s), ReachInv(s, G, start, goal),
           PriceInv(s, G, start, goal), ~s.over, goal \in Reached(s) \ s.visited,
           NEW d, <<goal, d>> \in Nearest(s.frontier),
           NEW t, Finished(s, t, <<goal, d>>)
    PROVE  PriceInv(t, G, start, goal)
<1>1. /\ d = s.distances[goal]
      /\ \A m \in Reached(s) \ s.visited : d <= s.distances[m]
      /\ \A m \in s.visited : s.distances[m] <= d
  BY NearestIsItsPrice
<1>2. t = [mode |-> s.mode, frontier |-> {}, visited |-> s.visited \cup {goal},
           distances |-> s.distances, predecessors |-> s.predecessors,
           found |-> TRUE, distance |-> d, over |-> TRUE]
  BY DEF Finished
<1>3. /\ t.mode = s.mode /\ t.visited = s.visited \cup {goal} /\ t.distances = s.distances
      /\ t.predecessors = s.predecessors /\ t.found /\ t.distance = d
      /\ t.frontier = {} /\ Reached(t) = Reached(s) /\ t.over
  BY <1>2 DEF Reached
<1>4. d <= d
  BY NearestIsItsPrice
<1> QED BY <1>1, <1>3, <1>4 DEF PriceInv

LEMMA RelaxPrices ==
    ASSUME NEW s, IsSearch(s), Priced(s.mode), NEW start, NEW goal,
           Closed(Graph(s.mode), DOMAIN Graph(s.mode)),
           ReachInv(s, Graph(s.mode), start, goal), TreeInv(s, start),
           PriceInv(s, Graph(s.mode), start, goal), ~s.over,
           NEW n \in Reached(s) \ s.visited, n # goal,
           NEW d, <<n, d>> \in Nearest(s.frontier),
           NEW better \in SUBSET Ahead(Graph(s.mode), s, n), NEW best,
           NEW t, Relaxed(s, t, n, d, better, best), Cheaper(s, n, d, better, best)
    PROVE  PriceInv(t, Graph(s.mode), start, goal)
<1> DEFINE G == Graph(s.mode)
<1>1. /\ t.visited = s.visited \cup {n} /\ t.over = s.over /\ t.found = s.found
      /\ t.mode = s.mode
      /\ t.frontier = (s.frontier \ {<<n, d>>}) \cup {<<m, best[m]>> : m \in better}
      /\ t.distances = Insert(s.distances, [m \in better |-> best[m]])
      /\ t.predecessors = Insert(s.predecessors, [m \in better |-> n])
  BY DEF Relaxed
<1>2. /\ Reached(t) = Reached(s) \cup better
      /\ \A m \in Reached(t) : t.distances[m] = IF m \in better THEN best[m] ELSE s.distances[m]
  BY <1>1 DEF Reached, Insert
<1>3. /\ DOMAIN t.predecessors = DOMAIN s.predecessors \cup better
      /\ \A m \in DOMAIN t.predecessors :
            t.predecessors[m] = IF m \in better THEN n ELSE s.predecessors[m]
  BY <1>1 DEF Insert
<1>4. /\ d \in Nat /\ d = s.distances[n] /\ <<n, d>> \in s.frontier
      /\ \A m \in s.visited : s.distances[m] <= d
      /\ \A x \in s.frontier : d <= x[2]
  BY NearestIsItsPrice
<1>5. better \cap (s.visited \cup {n}) = {}
  BY DEF Ahead
<1>6. DOMAIN G = DOMAIN index.nodes /\ \A m \in DOMAIN G : \A a \in G[m] : Cost(s.mode, a) \in Nat
  BY DEF Graph, Priced
<1>7. /\ Reached(s) \subseteq DOMAIN G /\ s.visited \subseteq Reached(s) /\ n \in DOMAIN G
      /\ start \in Reached(s)
  BY DEF ReachInv
<1>8. /\ \A m \in better : \E a \in G[n] : a.node = m /\ best[m] = d + Cost(s.mode, a)
      /\ \A a \in G[n] : a.node \notin s.visited \cup {n} =>
            IF a.node \in better THEN best[a.node] <= d + Cost(s.mode, a)
            ELSE a.node \in Reached(s) /\ s.distances[a.node] <= d + Cost(s.mode, a)
      /\ \A m \in better \cap Reached(s) : best[m] < s.distances[m]
  BY DEF Cheaper
<1> HIDE DEF G
<1>9. /\ \A m \in Reached(s) : s.distances[m] \in Nat
      /\ \A x \in s.frontier : x[2] \in Nat /\ s.distances[x[1]] <= x[2] /\ x[1] \in Reached(s)
      /\ \A m \in s.visited : \A x \in s.frontier : s.distances[m] <= x[2]
  BY DEF PriceInv, ReachInv
<1>10. \A m \in better : best[m] \in Nat /\ d <= best[m]
  <2> TAKE m \in better
  <2>1. PICK a \in G[n] : a.node = m /\ best[m] = d + Cost(s.mode, a)
    BY <1>8
  <2>2. Cost(s.mode, a) \in Nat
    BY <1>6, <1>7
  <2> QED BY <1>4, <2>1, <2>2
<1>11. \A m \in Reached(t) : t.distances[m] \in Nat
  BY <1>2, <1>9, <1>10
<1>12. \A m \in Reached(s) : m \in Reached(t) /\ t.distances[m] <= s.distances[m]
  BY <1>2, <1>8, <1>9, <1>10
<1>13. \A m \in s.visited \cup {n} : m \in Reached(t) /\ t.distances[m] = s.distances[m]
  BY <1>2, <1>5, <1>7
<1>14. t.distances[start] = 0
  BY <1>13 DEF TreeInv, PriceInv
<1>15. ASSUME NEW x \in t.frontier
       PROVE  x[2] \in Nat /\ t.distances[x[1]] <= x[2] /\ d <= x[2]
  <2>1. CASE x \in s.frontier
    <3>1. x[2] \in Nat /\ s.distances[x[1]] <= x[2] /\ x[1] \in Reached(s) /\ d <= x[2]
      BY <1>4, <1>9, <2>1
    <3>2. t.distances[x[1]] <= s.distances[x[1]] /\ t.distances[x[1]] \in Nat
          /\ s.distances[x[1]] \in Nat
      BY <1>9, <1>11, <1>12, <3>1
    <3> QED BY <3>1, <3>2
  <2>2. CASE \E m \in better : x = <<m, best[m]>>
    <3>1. PICK m \in better : x = <<m, best[m]>>
      BY <2>2
    <3>2. t.distances[m] = best[m] /\ x[1] = m /\ x[2] = best[m]
      BY <1>2, <3>1
    <3> QED BY <1>10, <3>2
  <2> QED BY <1>1, <2>1, <2>2
<1>16. \A m \in Reached(t) \ t.visited : <<m, t.distances[m]>> \in t.frontier
  <2> TAKE m \in Reached(t) \ t.visited
  <2>1. CASE m \in better
    BY <1>1, <1>2, <2>1
  <2>2. CASE m \notin better
    <3>1. m \in Reached(s) \ s.visited /\ m # n /\ t.distances[m] = s.distances[m]
      BY <1>1, <1>2, <2>2
    <3>2. <<m, s.distances[m]>> \in s.frontier
      BY <3>1 DEF PriceInv
    <3> QED BY <1>1, <3>1, <3>2
  <2> QED BY <2>1, <2>2
<1>17. \A m \in t.visited : \A x \in t.frontier : t.distances[m] <= x[2]
  <2> TAKE m \in t.visited
  <2> TAKE x \in t.frontier
  <2>1. t.distances[m] = s.distances[m] /\ s.distances[m] <= d /\ s.distances[m] \in Nat
    BY <1>1, <1>4, <1>7, <1>9, <1>13
  <2> QED BY <1>4, <1>15, <2>1
<1>18. ASSUME NEW m \in t.visited \ {goal}, NEW a \in G[m]
       PROVE  t.distances[a.node] <= t.distances[m] + Cost(s.mode, a)
  <2>1. /\ m \in Reached(s) /\ Cost(s.mode, a) \in Nat
        /\ t.distances[m] = s.distances[m] /\ s.distances[m] \in Nat
    BY <1>1, <1>6, <1>7, <1>9, <1>13
  <2>2. CASE m \in s.visited
    <3>1. a.node \in Reached(s) /\ s.distances[a.node] <= s.distances[m] + Cost(s.mode, a)
      BY <2>2 DEF PriceInv, ReachInv, G
    <3>2. /\ t.distances[a.node] <= s.distances[a.node] /\ t.distances[a.node] \in Nat
          /\ s.distances[a.node] \in Nat
      BY <1>9, <1>11, <1>12, <3>1
    <3> QED BY <2>1, <3>1, <3>2
  <2>3. CASE m = n /\ a.node \in s.visited \cup {n}
    <3>1. t.distances[a.node] = s.distances[a.node] /\ s.distances[a.node] <= d
          /\ s.distances[a.node] \in Nat
      BY <1>4, <1>7, <1>9, <1>13, <2>3
    <3> QED BY <1>4, <2>1, <2>3, <3>1
  <2>4. CASE m = n /\ a.node \notin s.visited \cup {n}
    <3>1. CASE a.node \in better
      BY <1>2, <1>4, <1>8, <2>1, <2>4, <3>1
    <3>2. CASE a.node \notin better
      BY <1>2, <1>4, <1>8, <2>1, <2>4, <3>2
    <3> QED BY <3>1, <3>2
  <2> QED BY <1>1, <2>2, <2>3, <2>4
<1>19. ASSUME NEW m \in DOMAIN t.predecessors
       PROVE  \E a \in G[t.predecessors[m]] :
                a.node = m /\ t.distances[m] = t.distances[t.predecessors[m]] + Cost(s.mode, a)
  <2>1. CASE m \in better
    <3>1. PICK a \in G[n] : a.node = m /\ best[m] = d + Cost(s.mode, a)
      BY <1>8, <2>1
    <3>2. t.predecessors[m] = n /\ t.distances[n] = d /\ t.distances[m] = best[m]
      BY <1>2, <1>3, <1>4, <1>13, <2>1
    <3> QED BY <3>1, <3>2
  <2>2. CASE m \notin better
    <3>1. m \in DOMAIN s.predecessors /\ t.predecessors[m] = s.predecessors[m]
      BY <1>3, <2>2
    <3>2. PICK a \in G[s.predecessors[m]] :
            a.node = m /\ s.distances[m] = s.distances[s.predecessors[m]] + Cost(s.mode, a)
      BY <3>1 DEF PriceInv, G
    <3>3. s.predecessors[m] \in s.visited /\ m \in Reached(s)
      BY <3>1 DEF TreeInv
    <3>4. /\ t.distances[m] = s.distances[m]
          /\ t.distances[s.predecessors[m]] = s.distances[s.predecessors[m]]
      BY <1>2, <1>13, <2>2, <3>3
    <3> QED BY <3>1, <3>2, <3>4
  <2> QED BY <2>1, <2>2
<1>20. ~t.found
  BY <1>1 DEF ReachInv
<1>21. \A m \in t.visited \ {goal} : \A a \in G[m] :
          t.distances[a.node] <= t.distances[m] + Cost(t.mode, a)
  BY <1>1, <1>18
<1>22. \A m \in DOMAIN t.predecessors : \E a \in G[t.predecessors[m]] :
          a.node = m /\ t.distances[m] = t.distances[t.predecessors[m]] + Cost(t.mode, a)
  <2> TAKE m \in DOMAIN t.predecessors
  <2>1. PICK a \in G[t.predecessors[m]] :
          a.node = m /\ t.distances[m] = t.distances[t.predecessors[m]] + Cost(s.mode, a)
    BY <1>19
  <2>2. Cost(s.mode, a) = Cost(t.mode, a)
    BY <1>1
  <2> QED BY <2>1, <2>2
<1>23. PriceInv(t, G, start, goal)
  BY <1>11, <1>14, <1>15, <1>16, <1>17, <1>20, <1>21, <1>22, Zenon DEF PriceInv
<1> QED BY <1>23 DEF G

-----------------------------------------------------------------------------
(* The search against all ways.                                            *)

(* What the ways of up to N steps cost.                                     *)
AreCosts(costs, mode, N) ==
    costs = [k \in 0..N |-> IF k = 0 THEN NoSteps ELSE OneMore(mode, costs[k - 1])]

LEMMA CostsExist ==
    ASSUME NEW mode, Priced(mode), NEW N \in Nat
    PROVE  \E costs : AreCosts(costs, mode, N)
<1> DEFINE S == [DOMAIN index.nodes -> SUBSET Nat]
           base == NoSteps
           step == [x \in Nat \X S |-> OneMore(mode, x[2])]
<1>1. base \in S
  BY DEF NoSteps
<1>2. ASSUME NEW c \in S
      PROVE  OneMore(mode, c) \in S
  <2>1. ASSUME NEW n \in DOMAIN index.nodes, NEW m \in DOMAIN index.nodes,
               NEW a \in OpenSteps(mode, m), NEW x \in c[m]
        PROVE  x + Cost(mode, a) \in Nat
    BY DEF Priced
  <2>2. ASSUME NEW n \in DOMAIN index.nodes
        PROVE  c[n] \cup UNION {{x + Cost(mode, a) : a \in {b \in OpenSteps(mode, m) : b.node = n},
                                              x \in c[m]}
                         : m \in DOMAIN index.nodes} \in SUBSET Nat
    <3>1. c[n] \in SUBSET Nat
      OBVIOUS
    <3> HIDE DEF S
    <3> QED BY <2>1, <3>1
  <2> QED BY <2>2 DEF OneMore
<1> HIDE DEF S, base
<1>3. step \in [Nat \X S -> S]
  BY <1>2
<1> HIDE DEF step
<1>4. PICK f \in [Nat -> S] : Iterates(f, base, step)
  BY <1>1, <1>3, Recursion
<1>5. \A k \in Nat : f[k] = IF k = 0 THEN base ELSE OneMore(mode, f[k - 1])
  <2> TAKE k \in Nat
  <2>1. CASE k = 0
    BY <1>4, <2>1 DEF Iterates
  <2>2. CASE k # 0
    <3>1. k - 1 \in Nat
      BY <2>2
    <3>2. f[k - 1] \in S
      BY <3>1
    <3>3. step[<<k, f[k - 1]>>] = OneMore(mode, f[k - 1])
      BY <3>2 DEF step
    <3>4. f[k] = step[<<k, f[k - 1]>>]
      BY <1>4, <2>2 DEF Iterates
    <3> QED BY <2>2, <3>3, <3>4
  <2> QED BY <2>1, <2>2
<1> DEFINE costs == [k \in 0..N |-> f[k]]
<1>6. \A k \in 0..N : costs[k] = IF k = 0 THEN base ELSE OneMore(mode, costs[k - 1])
  <2> TAKE k \in 0..N
  <2>1. CASE k = 0
    BY <1>5, <2>1
  <2>2. CASE k # 0
    <3>1. k \in Nat /\ k - 1 \in 0..N /\ costs[k - 1] = f[k - 1] /\ costs[k] = f[k]
      BY <2>2
    <3> HIDE DEF costs
    <3> QED BY <1>5, <2>2, <3>1
  <2> QED BY <2>1, <2>2
<1>7. costs = [k \in 0..N |-> IF k = 0 THEN base ELSE OneMore(mode, costs[k - 1])]
  <2>1. costs = [k \in 0..N |-> costs[k]]
    OBVIOUS
  <2> HIDE DEF costs
  <2> QED BY <1>6, <2>1
<1> HIDE DEF costs
<1> QED BY <1>7 DEF AreCosts, base

LEMMA WalkCostsAreCosts ==
    ASSUME NEW mode, Priced(mode), Cardinality(DOMAIN index.nodes) \in Nat
    PROVE  \E costs : /\ AreCosts(costs, mode, Cardinality(DOMAIN index.nodes))
                      /\ WalkCosts(mode) = costs[Cardinality(DOMAIN index.nodes)][ends.goal]
<1> DEFINE N == Cardinality(DOMAIN index.nodes)
           costs == CHOOSE g : g = [k \in 0..N |->
                        IF k = 0 THEN NoSteps ELSE OneMore(mode, g[k - 1])]
<1>1. WalkCosts(mode) = costs[N][ends.goal]
  BY Zenon DEF WalkCosts
<1>2. PICK g : AreCosts(g, mode, N)
  BY CostsExist
<1>3. AreCosts(costs, mode, N)
  <2> HIDE DEF N
  <2> QED BY <1>2, Zenon DEF AreCosts
<1> HIDE DEF costs
<1> QED BY <1>1, <1>3

LEMMA CostsUnfold ==
    ASSUME NEW mode, NEW N \in Nat, NEW costs, AreCosts(costs, mode, N)
    PROVE  /\ costs[0] = NoSteps
           /\ \A k \in Nat : k + 1 <= N => costs[k + 1] = OneMore(mode, costs[k])
<1>1. costs = [k \in 0..N |-> IF k = 0 THEN NoSteps ELSE OneMore(mode, costs[k - 1])]
  BY DEF AreCosts
<1>2. \A k \in 0..N : costs[k] = IF k = 0 THEN NoSteps ELSE OneMore(mode, costs[k - 1])
  BY <1>1
<1>3. 0 \in 0..N
  OBVIOUS
<1>4. ASSUME NEW k \in Nat, k + 1 <= N
      PROVE  costs[k + 1] = OneMore(mode, costs[k])
  <2>1. k + 1 \in 0..N /\ k + 1 # 0 /\ (k + 1) - 1 = k
    BY <1>4
  <2> QED BY <1>2, <2>1
<1> QED BY <1>2, <1>3, <1>4

(* A potential that no step climbs faster than it costs is a lower bound.   *)
LEMMA PotentialBounds ==
    ASSUME NEW mode, Priced(mode), NEW N \in Nat,
           NEW costs, AreCosts(costs, mode, N),
           NEW p \in [DOMAIN index.nodes -> Nat], p[ends.start] = 0,
           \A m \in DOMAIN index.nodes : \A a \in OpenSteps(mode, m) :
                a.node \in DOMAIN index.nodes /\ p[a.node] <= p[m] + Cost(mode, a)
    PROVE  \A n \in DOMAIN index.nodes : \A x \in costs[N][n] : p[n] <= x
<1> DEFINE Bounded(c) == \A n \in DOMAIN index.nodes : \A x \in c[n] : x \in Nat /\ p[n] <= x
           Good == { k \in Nat : k <= N => Bounded(costs[k]) }
<1>1. 0 \in Good
  <2>1. costs[0] = NoSteps
    BY CostsUnfold
  <2>2. \A n \in DOMAIN index.nodes : \A x \in NoSteps[n] : x = 0 /\ n = ends.start
    BY DEF NoSteps
  <2>3. Bounded(NoSteps)
    BY <2>2
  <2> QED BY <2>1, <2>3
<1>2. ASSUME NEW k \in Nat, k \in Good
      PROVE  k + 1 \in Good
  <2> SUFFICES ASSUME k + 1 <= N PROVE Bounded(costs[k + 1])
    OBVIOUS
  <2>1. Bounded(costs[k]) /\ costs[k + 1] = OneMore(mode, costs[k])
    BY <1>2, CostsUnfold
  <2> DEFINE c == costs[k]
  <2> HIDE DEF c
  <2>2. ASSUME NEW n \in DOMAIN index.nodes, NEW x \in OneMore(mode, c)[n], Bounded(c)
        PROVE  x \in Nat /\ p[n] <= x
    <3>1. x \in c[n] \cup UNION {{y + Cost(mode, a) :
                                    a \in {b \in OpenSteps(mode, m) : b.node = n}, y \in c[m]}
                         : m \in DOMAIN index.nodes}
      BY <2>2 DEF OneMore
    <3>2. CASE x \in c[n]
      BY <2>2, <3>2
    <3>3. CASE \E m \in DOMAIN index.nodes : \E a \in OpenSteps(mode, m) : \E y \in c[m] :
                    a.node = n /\ x = y + Cost(mode, a)
      <4>3. PICK m \in DOMAIN index.nodes : \E a \in OpenSteps(mode, m) : \E y \in c[m] :
                    a.node = n /\ x = y + Cost(mode, a)
        BY <3>3
      <4>4. PICK a \in OpenSteps(mode, m) : \E y \in c[m] : a.node = n /\ x = y + Cost(mode, a)
        BY <4>3
      <4>1. PICK y \in c[m] : a.node = n /\ x = y + Cost(mode, a)
        BY <4>4
      <4>2. y \in Nat /\ p[m] <= y /\ p[n] <= p[m] + Cost(mode, a) /\ Cost(mode, a) \in Nat
            /\ p[m] \in Nat /\ p[n] \in Nat
        BY <2>2, <4>1 DEF Priced
      <4> QED BY <4>1, <4>2
    <3> QED BY <3>1, <3>2, <3>3
  <2> QED BY <2>1, <2>2 DEF c
<1>3. Nat \subseteq Good
  <2> HIDE DEF Good
  <2> QED BY <1>1, <1>2, NatSet
<1> QED BY <1>3

(* Down the tree, every price is that of a way.                             *)
LEMMA TreeCosts ==
    ASSUME NEW s, NEW start, start = ends.start, NEW goal, NEW N \in Nat,
           ReachInv(s, Graph(s.mode), start, goal), TreeInv(s, start),
           PriceInv(s, Graph(s.mode), start, goal),
           NEW costs, AreCosts(costs, s.mode, N),
           NEW rank, Ranked(s, start, rank), goal \in Reached(s), rank[goal] <= N
    PROVE  s.distances[goal] \in costs[N][goal]
<1> DEFINE G == Graph(s.mode)
           Good == { k \in Nat : k <= N => \A n \in Reached(s) :
                        rank[n] <= k => s.distances[n] \in costs[k][n] }
<1>1. /\ DOMAIN G = DOMAIN index.nodes /\ \A m \in DOMAIN G : G[m] = OpenSteps(s.mode, m)
      /\ Reached(s) \subseteq DOMAIN G
  BY DEF Graph, ReachInv
<1>2. /\ rank \in [Reached(s) -> Nat] /\ rank[start] = 0
      /\ \A m \in DOMAIN s.predecessors : rank[s.predecessors[m]] < rank[m]
  BY DEF Ranked
<1>3. /\ DOMAIN s.predecessors = Reached(s) \ {start}
      /\ \A m \in DOMAIN s.predecessors : s.predecessors[m] \in Reached(s)
  BY DEF TreeInv, ReachInv
<1>4. 0 \in Good
  <2>1. ASSUME NEW n \in Reached(s), rank[n] <= 0
        PROVE  s.distances[n] \in costs[0][n]
    <3>1. n = start
      BY <1>2, <1>3, <2>1
    <3>2. s.distances[start] = 0 /\ NoSteps[n] = {0}
      BY <1>1, <3>1 DEF PriceInv, NoSteps
    <3>3. costs[0] = NoSteps
      BY CostsUnfold
    <3> QED BY <3>1, <3>2, <3>3
  <2> QED BY <2>1
<1>5. ASSUME NEW k \in Nat, k \in Good
      PROVE  k + 1 \in Good
  <2> SUFFICES ASSUME k + 1 <= N, NEW n \in Reached(s), rank[n] <= k + 1
               PROVE  s.distances[n] \in costs[k + 1][n]
    OBVIOUS
  <2>1. \A m \in Reached(s) : rank[m] <= k => s.distances[m] \in costs[k][m]
    BY <1>5
  <2> DEFINE c == costs[k]
  <2>2. costs[k + 1] = OneMore(s.mode, c)
    BY CostsUnfold
  <2> HIDE DEF c
  <2>3. OneMore(s.mode, c)[n]
            = c[n] \cup UNION {{x + Cost(s.mode, a) :
                                    a \in {b \in OpenSteps(s.mode, m) : b.node = n}, x \in c[m]}
                               : m \in DOMAIN index.nodes}
    BY <1>1 DEF OneMore
  <2>4. CASE rank[n] <= k
    BY <2>1, <2>2, <2>3, <2>4 DEF c
  <2>5. CASE ~(rank[n] <= k)
    <3>1. n # start /\ n \in DOMAIN s.predecessors
      BY <1>2, <1>3, <2>5
    <3>2. PICK m : m = s.predecessors[n]
      OBVIOUS
    <3>3. m \in Reached(s) /\ m \in DOMAIN index.nodes /\ rank[m] <= k
      BY <1>1, <1>2, <1>3, <3>1, <3>2
    <3>4. PICK a \in G[m] : a.node = n /\ s.distances[n] = s.distances[m] + Cost(s.mode, a)
      BY <3>1, <3>2 DEF PriceInv
    <3>5. s.distances[m] \in c[m] /\ a \in OpenSteps(s.mode, m)
      BY <1>1, <2>1, <3>3, <3>4 DEF c
    <3> HIDE DEF G
    <3>6. s.distances[n] \in OneMore(s.mode, c)[n]
      BY <2>3, <3>3, <3>4, <3>5
    <3> QED BY <2>2, <3>6
  <2> QED BY <2>4, <2>5
<1>6. Nat \subseteq Good
  <2> HIDE DEF Good
  <2> QED BY <1>4, <1>5, NatSet
<1> QED BY <1>6

(* The distance a search ends with is what the cheapest way costs.          *)
LEMMA DistanceIsCheapest ==
    ASSUME IsFiniteSet(DOMAIN index.nodes), Resolved, SearchOK(search), Priced(search.mode),
           \A m \in DOMAIN index.nodes : \A a \in OpenSteps(search.mode, m) :
                a.node \in DOMAIN index.nodes,
           PriceInv(search, Graph(search.mode), ends.start, ends.goal), search.found
    PROVE  /\ search.distance \in WalkCosts(search.mode)
           /\ \A cost \in WalkCosts(search.mode) : search.distance <= cost
<1> DEFINE N == Cardinality(DOMAIN index.nodes)
           G == Graph(search.mode)
           D == search.distance
           dist == search.distances
           near == {n \in Reached(search) : dist[n] <= D}
           p == [n \in DOMAIN index.nodes |-> IF n \in near THEN dist[n] ELSE D]
<1>1. N \in Nat
  BY FS_CardinalityType
<1>2. PICK costs : /\ AreCosts(costs, search.mode, N)
                   /\ WalkCosts(search.mode) = costs[N][ends.goal]
  BY <1>1, WalkCostsAreCosts
<1>3. /\ ReachInv(search, G, ends.start, ends.goal) /\ TreeInv(search, ends.start)
      /\ DOMAIN G = DOMAIN index.nodes
      /\ \A n \in DOMAIN index.nodes : G[n] = OpenSteps(search.mode, n)
      /\ ends.start \in DOMAIN index.nodes /\ ends.goal \in DOMAIN index.nodes
  BY DEF SearchOK, Graph, Resolved
<1>4. ends.goal \in Reached(search) /\ ends.start \in Reached(search)
      /\ search.visited \subseteq Reached(search) /\ Reached(search) \subseteq DOMAIN index.nodes
  BY <1>3 DEF ReachInv
<1>5. /\ \A n \in Reached(search) : dist[n] \in Nat
      /\ dist[ends.start] = 0 /\ D = dist[ends.goal] /\ D \in Nat
      /\ \A n \in search.visited : dist[n] <= D
      /\ \A n \in Reached(search) \ search.visited : D <= dist[n]
      /\ \A n \in search.visited \ {ends.goal} : \A a \in G[n] :
            dist[a.node] <= dist[n] + Cost(search.mode, a)
  BY <1>4 DEF PriceInv
<1>6. D \in costs[N][ends.goal]
  <2>1. PICK rank : Ranked(search, ends.start, rank)
    BY <1>3 DEF TreeInv
  <2>2. rank[ends.goal] <= N
    <3> DEFINE P == Cardinality(DOMAIN search.predecessors)
    <3>1. P \in Nat /\ rank[ends.goal] \in Nat /\ rank[ends.goal] <= P /\ P <= N
      BY <1>3, <2>1, GoalRank
    <3> HIDE DEF P, N
    <3> QED BY <1>1, <3>1
  <2> HIDE DEF N
  <2>3. dist[ends.goal] \in costs[N][ends.goal]
    BY <1>1, <1>2, <1>3, <1>4, <2>1, <2>2, TreeCosts
  <2> QED BY <1>5, <2>3
<1>7. /\ p \in [DOMAIN index.nodes -> Nat]
      /\ p[ends.start] = 0 /\ p[ends.goal] = D
      /\ \A n \in DOMAIN index.nodes : p[n] <= D
  BY <1>3, <1>4, <1>5
<1>8. ASSUME NEW m \in DOMAIN index.nodes, NEW a \in OpenSteps(search.mode, m)
      PROVE  a.node \in DOMAIN index.nodes /\ p[a.node] <= p[m] + Cost(search.mode, a)
  <2>1. /\ a.node \in DOMAIN index.nodes /\ Cost(search.mode, a) \in Nat
        /\ p[m] \in Nat /\ p[a.node] \in Nat /\ p[a.node] <= D /\ a \in G[m]
    BY <1>3, <1>7 DEF Priced
  <2>2. CASE m \in search.visited /\ m # ends.goal
    <3>1. m \in near /\ p[m] = dist[m]
      BY <1>4, <1>5, <2>2
    <3>2. dist[a.node] <= dist[m] + Cost(search.mode, a) /\ dist[m] \in Nat
      BY <1>4, <1>5, <2>1, <2>2
    <3>3. a.node \in Reached(search)
      BY <1>3, <2>1, <2>2 DEF ReachInv
    <3>4. p[a.node] <= dist[a.node] /\ dist[a.node] \in Nat
      BY <1>4, <1>5, <3>3
    <3> HIDE DEF p, near, D, dist
    <3> QED BY <2>1, <3>1, <3>2, <3>4
  <2>3. CASE m = ends.goal
    <3> HIDE DEF p, near, D, dist
    <3> QED BY <1>5, <1>7, <2>1, <2>3
  <2>4. CASE m \notin search.visited
    <3>1. p[m] = D
      <4>1. CASE m \in near
        BY <1>5, <2>4, <4>1
      <4>2. CASE m \notin near
        BY <4>2
      <4> QED BY <4>1, <4>2
    <3> HIDE DEF p, near, D, dist
    <3> QED BY <1>5, <2>1, <3>1
  <2> QED BY <2>2, <2>3, <2>4
<1>9. \A x \in costs[N][ends.goal] : D <= x
  <2>1. \A n \in DOMAIN index.nodes : \A x \in costs[N][n] : p[n] <= x
    <3> HIDE DEF p, N
    <3> QED BY <1>1, <1>2, <1>3, <1>7, <1>8, PotentialBounds
  <2> HIDE DEF p, N
  <2> QED BY <1>3, <1>7, <2>1
<1> HIDE DEF N, D
<1> QED BY <1>2, <1>6, <1>9 DEF D

-----------------------------------------------------------------------------
(* What the boot check is good for: every id names one entry.               *)

LEMMA ServedIdsAreUnique ==
    ASSUME NEW asked \in Scenarios, index = Rebuild(asked.doc), Bootable(index)
    PROVE  /\ index.doc = asked.doc
           /\ \A i, j \in DOMAIN asked.doc.nodes :
                asked.doc.nodes[i].id = asked.doc.nodes[j].id => i = j
           /\ \A i, j \in DOMAIN asked.doc.edges :
                asked.doc.edges[i].id = asked.doc.edges[j].id => i = j
<1>1. index.doc = asked.doc
  BY DEF Rebuild
<1>2. IdErrors(asked.doc) = {}
  BY <1>1 DEF Bootable, ValidationErrors
<1>3. NamesAreUnique(asked.doc.nodes) /\ NamesAreUnique(asked.doc.edges)
  BY <1>2, DocumentsAssumption, ValidNames
<1> QED BY <1>1, <1>3 DEF NamesAreUnique

LEMMA ServedEdges ==
    ASSUME NEW asked \in Scenarios, index = Rebuild(asked.doc), Bootable(index)
    PROVE  /\ DOMAIN index.edges = Ids(asked.doc.edges)
           /\ \A i \in DOMAIN asked.doc.edges :
                index.edges[asked.doc.edges[i].id] = asked.doc.edges[i]
<1>1. /\ DOMAIN index.edges = Ids(asked.doc.edges)
      /\ \A e \in Ids(asked.doc.edges) : index.edges[e] = FirstNamed(asked.doc.edges, e)
  BY DEF Rebuild
<1>2. ASSUME NEW i \in DOMAIN asked.doc.edges
      PROVE  FirstNamed(asked.doc.edges, asked.doc.edges[i].id) = asked.doc.edges[i]
  <2>1. Named(asked.doc.edges, asked.doc.edges[i].id) = {i}
    BY ServedIdsAreUnique DEF Named
  <2>2. i \in Nat
    BY DocumentsAssumption DEF IsDocument
  <2>3. (CHOOSE k \in {i} : \A j \in {i} : k <= j) = i
    BY <2>2
  <2> QED BY <2>1, <2>3 DEF FirstNamed
<1> QED BY <1>1, <1>2 DEF Ids

(* A step is taken along an edge that joins its two ends.                   *)
LEMMA StepsAreEdges ==
    ASSUME NEW asked \in Scenarios, index = Rebuild(asked.doc), Bootable(index),
           NEW n \in DOMAIN index.nodes, NEW a \in Neighbors(index, n)
    PROVE  \E i \in DOMAIN asked.doc.edges :
              LET e == asked.doc.edges[i] IN
              /\ a.edge = e.id /\ a.weight = e.weight
              /\ a.edge \in DOMAIN index.edges /\ index.edges[a.edge] = e
              /\ {asked.doc.nodes[e.source].id, asked.doc.nodes[e.target].id} = {n, a.node}
<1>1. a \in Adjacency(asked.doc, n)
  BY StepsStayOnTheMap
<1>2. PICK i \in DOMAIN asked.doc.edges :
        LET e == asked.doc.edges[i] IN
        \/ /\ asked.doc.nodes[e.source].id = n
           /\ a = [node |-> asked.doc.nodes[e.target].id, edge |-> e.id, weight |-> e.weight,
                   from_source |-> TRUE]
        \/ /\ asked.doc.nodes[e.target].id = n
           /\ a = [node |-> asked.doc.nodes[e.source].id, edge |-> e.id, weight |-> e.weight,
                   from_source |-> FALSE]
  BY <1>1 DEF Adjacency
<1>3. LET e == asked.doc.edges[i] IN
        /\ a.edge = e.id /\ a.weight = e.weight
        /\ {asked.doc.nodes[e.source].id, asked.doc.nodes[e.target].id} = {n, a.node}
  <2> DEFINE e == asked.doc.edges[i]
             from == asked.doc.nodes[e.source].id
             to == asked.doc.nodes[e.target].id
  <2>1. \/ from = n /\ a = [node |-> to, edge |-> e.id, weight |-> e.weight, from_source |-> TRUE]
        \/ to = n /\ a = [node |-> from, edge |-> e.id, weight |-> e.weight, from_source |-> FALSE]
    BY <1>2, Zenon
  <2> HIDE DEF e, from, to
  <2>2. a.edge = e.id /\ a.weight = e.weight /\ {from, to} = {n, a.node}
    BY <2>1
  <2> QED BY <2>2, Zenon DEF e, from, to
<1>4. a.edge \in DOMAIN index.edges /\ index.edges[a.edge] = asked.doc.edges[i]
  BY <1>3, ServedEdges DEF Ids
<1> QED BY <1>3, <1>4

LEMMA StepsArePriced ==
    ASSUME PricesAreNatural, NEW asked \in Scenarios, index = Rebuild(asked.doc), Bootable(index),
           NEW mode
    PROVE  /\ Priced(mode)
           /\ \A e \in DOMAIN index.edges : StepCost(e) \in Nat
<1>1. \A e \in DOMAIN index.edges : index.edges[e].weight \in Nat /\ Penalty(index, e) \in Nat
  BY DEF PricesAreNatural
<1>2. ASSUME NEW n \in DOMAIN index.nodes, NEW a \in OpenSteps(mode, n)
      PROVE  Cost(mode, a) \in Nat
  <2>1. a \in Neighbors(index, n)
    BY StepsStayOnTheMap
  <2>2. a.edge \in DOMAIN index.edges /\ a.weight = index.edges[a.edge].weight
    BY <2>1, StepsAreEdges
  <2>3. a.weight \in Nat /\ Surcharge(mode, a.edge) \in Nat
    BY <1>1, <2>2 DEF Surcharge
  <2> QED BY <2>3 DEF Cost
<1>3. \A e \in DOMAIN index.edges : StepCost(e) \in Nat
  BY <1>1 DEF StepCost
<1> QED BY <1>2, <1>3 DEF Priced

(* Where no two edges join the same nodes the plan's edge is the step's.    *)
LEMMA TheEdgeTaken ==
    ASSUME NEW asked \in Scenarios, index = Rebuild(asked.doc), Bootable(index), Simple,
           NEW n \in DOMAIN index.nodes, NEW a \in Neighbors(index, n),
           NEW f \in EdgesJoining(index, n, a.node)
    PROVE  f = a.edge
<1> DEFINE at(k) == asked.doc.nodes[k].id
<1>1. PICK i \in DOMAIN asked.doc.edges :
        LET e == asked.doc.edges[i] IN
        /\ a.edge = e.id
        /\ a.edge \in DOMAIN index.edges /\ index.edges[a.edge] = e
        /\ {at(e.source), at(e.target)} = {n, a.node}
  BY StepsAreEdges
<1>2. index.doc = asked.doc
  BY ServedIdsAreUnique
<1>3. /\ f \in DOMAIN index.edges
      /\ {at(index.edges[f].source), at(index.edges[f].target)} = {n, a.node}
  BY <1>2 DEF EdgesJoining
<1>4. PICK j \in DOMAIN asked.doc.edges : index.edges[f] = asked.doc.edges[j]
  BY <1>3, ServedEdges DEF Ids
<1>5. \A k \in {i, j} : /\ asked.doc.edges[k].source \in DOMAIN asked.doc.nodes
                        /\ asked.doc.edges[k].target \in DOMAIN asked.doc.nodes
  BY DocumentsAssumption DEF IsDocument
<1>6. \A k, l \in DOMAIN asked.doc.nodes : at(k) = at(l) => k = l
  BY ServedIdsAreUnique
<1>7. {index.edges[f].source, index.edges[f].target}
            = {index.edges[a.edge].source, index.edges[a.edge].target}
  <2> DEFINE fs == index.edges[f].source
             ft == index.edges[f].target
             as == index.edges[a.edge].source
             bt == index.edges[a.edge].target
  <2>1. {fs, ft, as, bt} \subseteq DOMAIN asked.doc.nodes
    BY <1>1, <1>4, <1>5
  <2>2. {at(fs), at(ft)} = {at(as), at(bt)}
    BY <1>1, <1>3
  <2> HIDE DEF fs, ft, as, bt
  <2>3. {fs, ft} = {as, bt}
    <3> HIDE DEF at
    <3>1. (at(fs) = at(as) \/ at(fs) = at(bt)) /\ (at(ft) = at(as) \/ at(ft) = at(bt))
          /\ (at(as) = at(fs) \/ at(as) = at(ft)) /\ (at(bt) = at(fs) \/ at(bt) = at(ft))
      BY <2>2
    <3> QED BY <1>6, <2>1, <3>1
  <2> QED BY <2>3 DEF fs, ft, as, bt
<1> QED BY <1>1, <1>3, <1>7 DEF Simple

-----------------------------------------------------------------------------
(* The plan of a search drives the way the search found.                    *)

AreTotals(totals, via, L) ==
    totals = [i \in 0..L |-> IF i = 0 THEN 0 ELSE totals[i - 1] + StepCost(via[i])]

LEMMA TotalsExist ==
    ASSUME NEW via, NEW L \in Nat, \A i \in 1..L : StepCost(via[i]) \in Nat
    PROVE  \E totals : AreTotals(totals, via, L)
<1> DEFINE price == [k \in Nat |-> IF k \in 1..L THEN StepCost(via[k]) ELSE 0]
           step == [x \in Nat \X Nat |-> x[2] + price[x[1]]]
<1>1. price \in [Nat -> Nat]
  OBVIOUS
<1>2. \A i \in 1..L : price[i] = StepCost(via[i])
  OBVIOUS
<1> HIDE DEF price
<1>3. step \in [Nat \X Nat -> Nat]
  BY <1>1
<1>4. \A k \in Nat : \A x \in Nat : step[<<k, x>>] = x + price[k]
  OBVIOUS
<1> HIDE DEF step
<1>5. PICK f \in [Nat -> Nat] : Iterates(f, 0, step)
  BY <1>3, Recursion
<1> DEFINE totals == [i \in 0..L |-> f[i]]
<1>6. ASSUME NEW i \in 0..L
      PROVE  f[i] = IF i = 0 THEN 0 ELSE f[i - 1] + StepCost(via[i])
  <2>1. CASE i = 0
    BY <1>5, <2>1 DEF Iterates
  <2>2. CASE i # 0
    <3>1. i \in Nat /\ i - 1 \in Nat /\ i \in 1..L /\ f[i - 1] \in Nat
      BY <2>2
    <3>2. f[i] = step[<<i, f[i - 1]>>]
      BY <1>5, <2>2, <3>1 DEF Iterates
    <3> QED BY <1>2, <1>4, <2>2, <3>1, <3>2
  <2> QED BY <2>1, <2>2
<1>7. ASSUME NEW i \in 0..L
      PROVE  totals[i] = IF i = 0 THEN 0 ELSE totals[i - 1] + StepCost(via[i])
  <2>1. CASE i = 0
    BY <1>6, <2>1
  <2>2. CASE i # 0
    <3>1. i - 1 \in 0..L /\ totals[i - 1] = f[i - 1] /\ totals[i] = f[i]
      BY <2>2
    <3> HIDE DEF totals
    <3> QED BY <1>6, <2>2, <3>1
  <2> QED BY <2>1, <2>2
<1>8. totals = [i \in 0..L |-> totals[i]]
  OBVIOUS
<1> HIDE DEF totals
<1>9. totals = [i \in 0..L |-> IF i = 0 THEN 0 ELSE totals[i - 1] + StepCost(via[i])]
  BY <1>7, <1>8
<1> QED BY <1>9 DEF AreTotals

LEMMA PlanTotal ==
    ASSUME NEW nodes, NEW via, Len(via) \in Nat,
           \A i \in 1..Len(via) : StepCost(via[i]) \in Nat
    PROVE  \E totals : /\ AreTotals(totals, via, Len(via))
                       /\ RoutePlan(nodes, via).total = totals[Len(via)]
<1> DEFINE L == Len(via)
           totals == CHOOSE g : g = [i \in 0..Len(via) |->
                        IF i = 0 THEN 0 ELSE g[i - 1] + StepCost(via[i])]
           plan(t) ==
            [ start |-> ends.start, goal |-> ends.goal, nodes |-> nodes, edges |-> via,
              zones |-> UNION {ZonesOfNode(index, nodes[i]) : i \in DOMAIN nodes}
                        \cup UNION {ToSet(ZonesOfEdge(index, via[i])) : i \in DOMAIN via},
              node_zones |-> [i \in DOMAIN nodes |-> ZonesOfNode(index, nodes[i])],
              edge_zones |-> [i \in DOMAIN via |-> ToSet(ZonesOfEdge(index, via[i]))],
              steps |-> [i \in DOMAIN nodes |->
                            [node |-> nodes[i],
                             incoming |-> IF i = 1 THEN None ELSE Some(via[i - 1]),
                             cost |-> IF i = 1 THEN 0 ELSE StepCost(via[i - 1]),
                             cumulative |-> t[i - 1]]],
              total |-> t[Len(via)] ]
<1>1. RoutePlan(nodes, via) = plan(totals)
  BY Zenon DEF RoutePlan
<1>2. \A t : plan(t).total = t[L]
  OBVIOUS
<1>3. PICK g : AreTotals(g, via, L)
  BY TotalsExist
<1>4. AreTotals(totals, via, L)
  BY <1>3, Zenon DEF AreTotals
<1>5. plan(totals).total = totals[L]
  <2> HIDE DEF totals, plan
  <2> QED BY <1>2
<1> HIDE DEF totals, plan
<1> QED BY <1>1, <1>4, <1>5

LEMMA PlanDrivesTheWay ==
    ASSUME PricesAreNatural, scenario \in Scenarios, index = Rebuild(scenario.doc),
           Bootable(index), Simple, SearchOK(search), search.found,
           search.mode = IF scenario.penalized THEN "penalties" ELSE "blocking",
           PriceInv(search, Graph(search.mode), ends.start, ends.goal),
           NEW nodes, Chain(search, ends.goal, nodes), Head(nodes) = ends.start,
           NEW via \in EdgesAlong(nodes)
    PROVE  /\ RoutePlan(nodes, via).total = search.distance
           /\ \A i \in DOMAIN via :
                /\ ~HardBlocked(index, via[i])
                /\ \E a \in LegalSteps(index, nodes[i]) :
                        a.edge = via[i] /\ a.node = nodes[i + 1]
<1> DEFINE L == Len(nodes) - 1
           dist == search.distances
           G == Graph(search.mode)
<1>1. /\ nodes \in Seq(Reached(search)) /\ nodes # << >> /\ nodes[Len(nodes)] = ends.goal
      /\ Len(nodes) \in Nat /\ Len(nodes) >= 1 /\ L \in Nat
      /\ \A i \in 1..Len(nodes) : nodes[i] \in Reached(search)
      /\ nodes[1] = ends.start
  BY DEF Chain
<1>2. /\ DOMAIN via = 1..L /\ via \in [1..L -> DOMAIN index.edges]
      /\ \A i \in 1..L : via[i] \in EdgesJoining(index, nodes[i], nodes[i + 1])
  BY DEF EdgesAlong
<1>3. Len(via) = L
  <2>1. via = [i \in 1..L |-> via[i]]
    BY <1>2
  <2> HIDE DEF L
  <2> QED BY <1>1, <2>1
<1>4. /\ DOMAIN G = DOMAIN index.nodes
      /\ \A n \in DOMAIN index.nodes : G[n] = OpenSteps(search.mode, n)
      /\ Reached(search) \subseteq DOMAIN index.nodes
  BY DEF SearchOK, ReachInv, Graph
<1>5. ASSUME NEW i \in 1..L
      PROVE  \E a \in OpenSteps(search.mode, nodes[i]) :
                /\ a \in LegalSteps(index, nodes[i]) /\ ~HardBlocked(index, a.edge)
                /\ a.edge = via[i] /\ a.node = nodes[i + 1]
                /\ dist[nodes[i + 1]] = dist[nodes[i]] + StepCost(via[i])
  <2>1. i \in 1..(Len(nodes) - 1) /\ i \in 1..Len(nodes)
    BY <1>1
  <2>2. nodes[i + 1] \in DOMAIN search.predecessors
        /\ nodes[i] = search.predecessors[nodes[i + 1]]
    BY <2>1 DEF Chain
  <2>3. nodes[i] \in DOMAIN index.nodes
    BY <1>1, <1>4, <2>1
  <2>4. PICK a \in OpenSteps(search.mode, nodes[i]) :
            a.node = nodes[i + 1]
            /\ dist[nodes[i + 1]] = dist[nodes[i]] + Cost(search.mode, a)
    BY <1>4, <2>2, <2>3 DEF PriceInv
  <2>5. a \in LegalSteps(index, nodes[i]) /\ a \in Neighbors(index, nodes[i])
        /\ ~Skips(search.mode, a.edge)
    BY <2>3, StepsStayOnTheMap DEF OpenSteps
  <2>6. ~HardBlocked(index, a.edge)
    BY <2>5 DEF Skips
  <2>7. via[i] = a.edge
    BY <1>2, <2>3, <2>4, <2>5, TheEdgeTaken
  <2>8. a.weight = index.edges[a.edge].weight
    BY <2>3, <2>5, StepsAreEdges
  <2>9. StepCost(via[i]) = Cost(search.mode, a)
    <3>1. CASE scenario.penalized
      BY <2>7, <2>8, <3>1 DEF StepCost, Cost, Surcharge
    <3>2. CASE ~scenario.penalized
      BY <2>7, <2>8, <3>2 DEF StepCost, Cost, Surcharge
    <3> QED BY <3>1, <3>2
  <2> QED BY <2>4, <2>5, <2>6, <2>7, <2>9
<1>6. \A i \in 1..Len(via) : StepCost(via[i]) \in Nat
  BY <1>2, <1>3, StepsArePriced
<1>7. PICK totals : /\ AreTotals(totals, via, L)
                    /\ RoutePlan(nodes, via).total = totals[L]
  <2> HIDE DEF L
  <2> QED BY <1>1, <1>3, <1>6, PlanTotal
<1>8. \A i \in 0..L : totals[i] = IF i = 0 THEN 0 ELSE totals[i - 1] + StepCost(via[i])
  BY <1>7 DEF AreTotals
<1> DEFINE Good == { i \in Nat : i <= L => totals[i] = dist[nodes[i + 1]] }
<1>9. 0 \in Good
  <2>1. dist[ends.start] = 0
    BY DEF PriceInv
  <2> QED BY <1>1, <1>8, <2>1
<1>10. ASSUME NEW i \in Nat, i \in Good
       PROVE  i + 1 \in Good
  <2> SUFFICES ASSUME i + 1 <= L PROVE totals[i + 1] = dist[nodes[(i + 1) + 1]]
    OBVIOUS
  <2>1. i + 1 \in 0..L /\ i + 1 \in 1..L /\ i + 1 # 0 /\ (i + 1) - 1 = i /\ i <= L
    BY <1>1
  <2>2. totals[i + 1] = totals[i] + StepCost(via[i + 1])
    <3> HIDE DEF L
    <3> QED BY <1>8, <2>1
  <2>3. totals[i] = dist[nodes[i + 1]]
    BY <1>10, <2>1
  <2>4. dist[nodes[(i + 1) + 1]] = dist[nodes[i + 1]] + StepCost(via[i + 1])
    <3> HIDE DEF L
    <3> QED BY <1>5, <2>1
  <2> QED BY <2>2, <2>3, <2>4
<1>11. Nat \subseteq Good
  <2> HIDE DEF Good
  <2> QED BY <1>9, <1>10, NatSet
<1>12. totals[L] = dist[ends.goal]
  <2>1. L \in Good /\ L <= L /\ L + 1 = Len(nodes)
    BY <1>1, <1>11
  <2> QED BY <1>1, <2>1
<1>13. search.distance = dist[ends.goal]
  BY DEF PriceInv
<1> HIDE DEF L, dist, Good
<1> QED BY <1>2, <1>5, <1>7, <1>12, <1>13

-----------------------------------------------------------------------------
(* The invariant, with prices.                                             *)

PriceStage ==
    /\ stage \notin {"boot", "refused"} => Bootable(index)
    /\ Searching /\ Resolved => PriceInv(search, Graph(search.mode), ends.start, ends.goal)
    /\ stage = "search" => search.mode = IF scenario.penalized THEN "penalties" ELSE "blocking"

CostInv == RouteInv /\ PriceStage /\ PlanIsCheapestLegal

LEMMA PricesUnmoved ==
    ASSUME index' = index, NEW start, NEW goal, NEW t,
           t = search', PriceInv(t, Graph(t.mode), start, goal),
           ends'.start = start, ends'.goal = goal
    PROVE  PriceInv(search, Graph(search.mode), ends.start, ends.goal)'
<1>1. Graph(search.mode)' = Graph(t.mode)
  BY DEF Graph, OpenSteps, Skips
<1>2. \A a : Cost(t.mode, a)' = Cost(t.mode, a)
  BY DEF Cost, Surcharge
<1> QED BY <1>1, <1>2 DEF PriceInv, Reached, Cost, Surcharge

LEMMA PlanUnmoved ==
    ASSUME index' = index, ends' = ends, search' = search, NEW plan, IsCheapestLegal(plan)
    PROVE  IsCheapestLegal(plan)'
<1>1. /\ NoSteps' = NoSteps
      /\ \A mode, c : OneMore(mode, c)' = OneMore(mode, c)
  BY DEF NoSteps, OneMore, OpenSteps, Cost, Skips, Surcharge
<1>2. WalkCosts(search.mode)' = WalkCosts(search.mode)
  BY <1>1 DEF WalkCosts
<1>3. Simple' <=> Simple
  BY DEF Simple
<1> QED BY <1>2, <1>3 DEF IsCheapestLegal

LEMMA ExpandPrices ==
    ASSUME PricesAreNatural, StageInv, PriceStage, Expand
    PROVE  PriceInv(search', Graph(search'.mode), ends.start, ends.goal)
<1> DEFINE G == Graph(search.mode)
           start == ends.start
           goal == ends.goal
<1>1. /\ Resolved /\ SearchOK(search) /\ ~search.over
      /\ scenario \in Scenarios /\ index = Rebuild(scenario.doc) /\ Bootable(index)
      /\ PriceInv(search, G, start, goal)
  BY DEF StageInv, PriceStage, Expand, Searching
<1>2. DOMAIN G = DOMAIN index.nodes /\ Closed(G, DOMAIN G) /\ Priced(search.mode)
  BY <1>1, MapIsClosed, StepsArePriced
<1>3. IsSearch(search) /\ ReachInv(search, G, start, goal) /\ TreeInv(search, start)
  BY <1>1 DEF SearchOK
<1>4. PICK x \in Nearest(search.frontier) :
        search' = IF x[1] \in search.visited
                  THEN [search EXCEPT !.frontier = @ \ {x}]
                  ELSE IF x[1] = goal
                  THEN [search EXCEPT !.visited = @ \cup {x[1]}, !.frontier = {},
                                      !.found = TRUE, !.distance = x[2], !.over = TRUE]
                  ELSE Relax(search, x[1], x[2])
  BY DEF Expand
<1>5. /\ x \in search.frontier /\ x[1] \in Reached(search) /\ x = <<x[1], x[2]>>
      /\ x[1] \in DOMAIN G /\ x[1] \in DOMAIN index.nodes
  BY <1>2, <1>3 DEF ReachInv, Nearest
<1> HIDE DEF start, goal
<1>6. CASE x[1] \in search.visited
  <2>1. search' = [search EXCEPT !.frontier = @ \ {x}]
    BY <1>4, <1>6
  <2>2. search'.mode = search.mode
    BY <1>1, <1>3, <1>5, <1>6, <2>1, PassOverReaches
  <2>3. PriceInv(search', G, start, goal)
    BY <1>1, <1>3, <1>5, <1>6, <2>1, PassOverPrices
  <2> QED BY <2>2, <2>3 DEF start, goal
<1>7. CASE x[1] \notin search.visited /\ x[1] = goal
  <2>1. search' = [search EXCEPT !.visited = @ \cup {x[1]}, !.frontier = {},
                                 !.found = TRUE, !.distance = x[2], !.over = TRUE]
    BY <1>4, <1>7
  <2>2. Finished(search, search', x)
    BY <1>3, <2>1 DEF Finished, IsSearch
  <2>3. x = <<goal, x[2]>> /\ goal \in Reached(search) \ search.visited
    BY <1>5, <1>7
  <2>4. <<goal, x[2]>> \in Nearest(search.frontier) /\ Finished(search, search', <<goal, x[2]>>)
    BY <1>4, <2>2, <2>3
  <2>5. PriceInv(search', G, start, goal)
    BY <1>1, <1>3, <2>3, <2>4, FinishPrices
  <2>6. search'.mode = search.mode
    BY <2>2 DEF Finished
  <2> QED BY <2>5, <2>6 DEF start, goal
<1>8. CASE x[1] \notin search.visited /\ x[1] # goal
  <2> DEFINE n == x[1]
             d == x[2]
  <2>1. search' = Relax(search, n, d) /\ <<n, d>> \in Nearest(search.frontier)
        /\ n \in Reached(search) \ search.visited /\ n # goal /\ n \in DOMAIN index.nodes
    BY <1>4, <1>5, <1>8
  <2> HIDE DEF n, d
  <2>2. d \in Nat /\ \A m \in Reached(search) : search.distances[m] \in Nat
    BY <1>1, <1>3, <2>1, NearestIsItsPrice DEF PriceInv
  <2>3. PICK better, best :
            /\ better \in SUBSET Ahead(G, search, n)
            /\ Relaxed(search, search', n, d, better, best)
            /\ Cheaper(search, n, d, better, best)
    BY <1>2, <1>3, <2>1, <2>2, RelaxIsRelaxed
  <2>4. PriceInv(search', G, start, goal)
    BY <1>1, <1>2, <1>3, <2>1, <2>3, RelaxPrices
  <2>5. search'.mode = search.mode
    BY <2>3 DEF Relaxed
  <2> QED BY <2>4, <2>5 DEF start, goal
<1> QED BY <1>6, <1>7, <1>8

(* The plan that is handed out is the cheapest legal one.                   *)
LEMMA FoundIsCheapest ==
    ASSUME PricesAreNatural, StageInv, PriceStage, Found
    PROVE  PlanIsCheapestLegal'
<1>1. stage = "search" /\ search.over /\ search.found
  BY DEF Found
<1>2. PICK via \in EdgesAlong(RouteNodes(search)) :
        LET plan == RoutePlan(RouteNodes(search), via) IN
        Answer(IF WellShaped(plan) THEN [plan |-> Some(plan), failure |-> None]
               ELSE [plan |-> None, failure |-> Some(Failure("Unreachable"))])
  BY DEF Found
<1> DEFINE nodes == RouteNodes(search)
<1>3. /\ scenario \in Scenarios /\ index = Rebuild(scenario.doc) /\ Bootable(index)
      /\ Resolved /\ SearchOK(search)
      /\ PriceInv(search, Graph(search.mode), ends.start, ends.goal)
      /\ search.mode = IF scenario.penalized THEN "penalties" ELSE "blocking"
  BY <1>1 DEF StageInv, PriceStage, Searching
<1>4. /\ IsFiniteSet(DOMAIN Graph(search.mode)) /\ IsFiniteSet(DOMAIN index.nodes)
      /\ ReachInv(search, Graph(search.mode), ends.start, ends.goal)
      /\ TreeInv(search, ends.start)
  BY <1>3, MapIsClosed DEF SearchOK
<1>5. Chain(search, ends.goal, nodes) /\ Head(nodes) = ends.start
  BY <1>1, <1>4, RouteIsAChain
<1> HIDE DEF nodes
<1>6. WellShaped(RoutePlan(nodes, via))
  BY <1>2, <1>5, ChainsAreWellShaped DEF nodes
<1>7. Answer([plan |-> Some(RoutePlan(nodes, via)), failure |-> None])
  BY <1>2, <1>6 DEF nodes
<1>8. /\ search.distance \in WalkCosts(search.mode)
      /\ \A cost \in WalkCosts(search.mode) : search.distance <= cost
  <2>1. \A m \in DOMAIN index.nodes : \A a \in OpenSteps(search.mode, m) :
            a.node \in DOMAIN index.nodes
    BY <1>3, StepsStayOnTheMap
  <2>2. Priced(search.mode)
    BY <1>3, StepsArePriced
  <2> QED BY <1>1, <1>3, <1>4, <2>1, <2>2, DistanceIsCheapest
<1>9. Simple =>
        /\ RoutePlan(nodes, via).total = search.distance
        /\ \A i \in DOMAIN via :
             /\ ~HardBlocked(index, via[i])
             /\ \E a \in LegalSteps(index, nodes[i]) : a.edge = via[i] /\ a.node = nodes[i + 1]
  BY <1>1, <1>2, <1>3, <1>5, PlanDrivesTheWay DEF nodes
<1>10. PICK plan : plan = RoutePlan(nodes, via)
  OBVIOUS
<1>11. plan.nodes = nodes /\ plan.edges = via
  BY <1>10 DEF RoutePlan
<1>12. IsCheapestLegal(plan)
  BY <1>8, <1>9, <1>10, <1>11 DEF IsCheapestLegal
<1>13. /\ index' = index /\ ends' = ends /\ search' = search
       /\ answer' = [plan |-> Some(plan), failure |-> None]
  BY <1>7, <1>10 DEF Answer
<1>14. IsCheapestLegal(plan)'
  BY <1>12, <1>13, PlanUnmoved
<1>15. Default(answer.plan, NoAnswer)' = plan
  BY <1>13 DEF Default, Some, None
<1> QED BY <1>14, <1>15 DEF PlanIsCheapestLegal, IsCheapestLegal

(* A search that begins, wherever it does, begins with its start at nought. *)
LEMMA BeginPriceStage ==
    ASSUME NEW mode, NEW s, NEW g, index' = index, Bootable(index),
           ends'.start = s, ends'.goal = g, search' = Begin(mode, s, g),
           stage' \in {"search", "unconstrained", "blocking"},
           stage' = "search" =>
                mode = (IF scenario.penalized THEN "penalties" ELSE "blocking")
                /\ scenario' = scenario
    PROVE  PriceStage'
<1>1. search'.mode = mode
  <2>1. CASE ~ {s, g} \subseteq DOMAIN index.nodes
    BY <2>1 DEF Begin, NoSearch
  <2>2. CASE {s, g} \subseteq DOMAIN index.nodes /\ s = g
    BY <2>2 DEF Begin, NoSearch
  <2>3. CASE {s, g} \subseteq DOMAIN index.nodes /\ s # g
    BY <2>3 DEF Begin, NoSearch
  <2> QED BY <2>1, <2>2, <2>3
<1>2. ASSUME Resolved'
      PROVE  PriceInv(search, Graph(search.mode), ends.start, ends.goal)'
  <2>1. s \in DOMAIN index.nodes /\ g \in DOMAIN index.nodes
    BY <1>2 DEF Resolved
  <2>2. PICK t : t = search'
    OBVIOUS
  <2>3. PriceInv(t, Graph(t.mode), s, g)
    BY <2>1, <2>2, BeginPrices
  <2> QED BY <2>2, <2>3, PricesUnmoved
<1>3. Bootable(index)'
  BY DEF Bootable
<1> QED BY <1>1, <1>2, <1>3 DEF PriceStage, Searching

LEMMA NotPlanned ==
    ASSUME stage' # "answered" \/ answer'.plan = None
    PROVE  PlanIsCheapestLegal'
BY DEF PlanIsCheapestLegal, Planned

LEMMA CostInit == Init => CostInv
<1> SUFFICES ASSUME Init PROVE CostInv
  OBVIOUS
<1>1. stage = "boot"
  BY DEF Init
<1>2. PriceStage /\ PlanIsCheapestLegal
  BY <1>1 DEF PriceStage, Searching, PlanIsCheapestLegal, Planned
<1> QED BY <1>2, RouteInit DEF CostInv

LEMMA CostStep == PricesAreNatural /\ CostInv /\ [Next]_vars => CostInv'
<1> SUFFICES ASSUME PricesAreNatural, CostInv, [Next]_vars PROVE CostInv'
  OBVIOUS
<1>1. RouteInv' /\ StageInv /\ PriceStage /\ PlanIsCheapestLegal
  BY RouteStep DEF CostInv, RouteInv
<1> SUFFICES PriceStage' /\ PlanIsCheapestLegal'
  BY <1>1 DEF CostInv
<1>2. CASE Boot
  <2>1. /\ index' = Rebuild(scenario.doc)
        /\ stage' = IF Bootable(Rebuild(scenario.doc)) THEN "serving" ELSE "refused"
    BY <1>2 DEF Boot
  <2>2. stage' \in {"serving", "refused"} /\ (stage' = "serving" => Bootable(index)')
    BY <2>1 DEF Bootable
  <2>3. PriceStage'
    BY <2>2 DEF PriceStage, Searching
  <2> QED BY <2>2, <2>3, NotPlanned
<1>3. ASSUME NEW s, NEW g, stage = "serving", PlanRoute(s, g)
      PROVE  PriceStage' /\ PlanIsCheapestLegal'
  <2>1. Bootable(index)
    BY <1>1, <1>3 DEF PriceStage
  <2>2. /\ index' = index /\ scenario' = scenario /\ stage' = "search"
        /\ ends'.start = s /\ ends'.goal = g
        /\ search' = Begin(IF scenario.penalized THEN "penalties" ELSE "blocking", s, g)
    BY <1>3 DEF PlanRoute
  <2>3. PriceStage'
    BY <2>1, <2>2, BeginPriceStage
  <2> QED BY <2>2, <2>3, NotPlanned
<1>4. CASE Request
  <2> DEFINE s == ResolveNode(index, scenario.start)
             g == ResolveNode(index, scenario.goal)
  <2>1. stage = "serving"
    BY <1>4 DEF Request
  <2>2. CASE PlanRoute(Default(s, Nil), Default(g, Nil))
    BY <1>3, <2>1, <2>2
  <2>3. CASE /\ stage' = "answered"
             /\ answer' = [plan |-> None, failure |-> None]
             /\ UNCHANGED <<scenario, index, ends, search, first>>
    <3>1. answer'.plan = None
      BY <2>3
    <3>2. Bootable(index)'
      BY <1>1, <2>1, <2>3 DEF PriceStage, Bootable
    <3>3. PriceStage'
      BY <2>3, <3>2 DEF PriceStage, Searching
    <3> QED BY <3>1, <3>3, NotPlanned
  <2> QED BY <1>4, <2>2, <2>3 DEF Request
<1>5. CASE Call
  BY <1>3, <1>5 DEF Call
<1>6. CASE Expand \/ Exhausted
  <2>1. /\ Searching /\ stage' = stage /\ stage' # "answered" /\ scenario' = scenario
        /\ index' = index /\ ends' = ends /\ ~search.over
    BY <1>6 DEF Expand, Exhausted, Searching
  <2>2. PICK t : t = search'
    OBVIOUS
  <2>3. Resolved /\ SearchOK(search)
    BY <1>1, <2>1 DEF StageInv
  <2>4. PriceInv(t, Graph(t.mode), ends.start, ends.goal) /\ t.mode = search.mode
    <3>1. CASE Expand
      BY <1>1, <2>2, <3>1, ExpandPrices, ExpandKeeps
    <3>2. CASE Exhausted
      <4>1. search' = [search EXCEPT !.over = TRUE] /\ IsSearch(search)
            /\ PriceInv(search, Graph(search.mode), ends.start, ends.goal)
        BY <1>1, <2>1, <2>3, <3>2 DEF Exhausted, SearchOK, PriceStage
      <4>2. search'.mode = search.mode
        BY <4>1 DEF IsSearch
      <4>3. PriceInv(t, Graph(search.mode), ends.start, ends.goal)
        BY <2>2, <4>1, ExhaustPrices
      <4> QED BY <2>2, <4>2, <4>3
    <3> QED BY <1>6, <3>1, <3>2
  <2>5. PriceInv(search, Graph(search.mode), ends.start, ends.goal)'
    BY <2>1, <2>2, <2>4, PricesUnmoved
  <2>6. Bootable(index)'
    BY <1>1, <2>1 DEF PriceStage, Searching, Bootable
  <2>7. PriceStage'
    BY <1>1, <2>1, <2>2, <2>4, <2>5, <2>6 DEF PriceStage
  <2> QED BY <2>1, <2>7, NotPlanned
<1>7. CASE Found
  <2>1. PlanIsCheapestLegal'
    BY <1>1, <1>7, FoundIsCheapest
  <2>2. stage' = "answered" /\ Bootable(index)'
    BY <1>1, <1>7 DEF Found, Answer, PriceStage, Bootable
  <2>3. PriceStage'
    BY <2>2 DEF PriceStage, Searching
  <2> QED BY <2>1, <2>3
<1>8. CASE Diagnose \/ DiagnoseWalls
  <2>1. PICK mode \in {"unconstrained", "blocking"} : SearchAgain(mode)
    BY <1>8 DEF Diagnose, DiagnoseWalls
  <2>2. stage \in {"search", "unconstrained"}
    BY <1>8 DEF Diagnose, DiagnoseWalls
  <2>3. Bootable(index)
    BY <1>1, <2>2 DEF PriceStage
  <2>4. PriceStage'
    BY <2>1, <2>3, BeginPriceStage DEF SearchAgain
  <2>5. stage' # "answered"
    BY <2>1 DEF SearchAgain
  <2> QED BY <2>4, <2>5, NotPlanned
<1>9. CASE MissingEnd \/ ReportWalls \/ ReportUnreachable
  <2>1. PICK f : Answer([plan |-> None, failure |-> f])
    BY <1>9 DEF MissingEnd, ReportWalls, ReportUnreachable
  <2>2. stage' = "answered" /\ answer'.plan = None /\ index' = index
    BY <2>1 DEF Answer
  <2>3. stage \in {"search", "unconstrained", "blocking"}
    BY <1>9 DEF MissingEnd, ReportWalls, ReportUnreachable
  <2>4. Bootable(index)'
    BY <1>1, <2>2, <2>3 DEF PriceStage, Bootable
  <2>5. PriceStage'
    BY <2>2, <2>4 DEF PriceStage, Searching
  <2> QED BY <2>2, <2>5, NotPlanned
<1>10. CASE UNCHANGED vars
  <2>1. /\ scenario' = scenario /\ index' = index /\ stage' = stage /\ ends' = ends
        /\ search' = search /\ answer' = answer
    BY <1>10 DEF vars
  <2>2. PriceStage'
    <3>1. /\ stage \notin {"boot", "refused"} => Bootable(index)
          /\ stage = "search" =>
                search.mode = IF scenario.penalized THEN "penalties" ELSE "blocking"
      BY <1>1 DEF PriceStage
    <3>2. (Bootable(index)' <=> Bootable(index)) /\ (Searching' <=> Searching)
          /\ (Resolved' <=> Resolved)
      BY <2>1 DEF Bootable, Searching, Resolved
    <3>3. ASSUME Searching, Resolved
          PROVE  PriceInv(search, Graph(search.mode), ends.start, ends.goal)'
      <4>1. PICK t : t = search
        OBVIOUS
      <4>2. PriceInv(t, Graph(t.mode), ends.start, ends.goal)
        BY <1>1, <3>3, <4>1 DEF PriceStage
      <4> QED BY <2>1, <4>1, <4>2, PricesUnmoved
    <3> QED BY <2>1, <3>1, <3>2, <3>3 DEF PriceStage
  <2>3. PlanIsCheapestLegal'
    <3>1. CASE ~Planned
      BY <2>1, <3>1 DEF PlanIsCheapestLegal, Planned
    <3>2. CASE Planned
      <4>1. PICK plan : plan = Default(answer.plan, NoAnswer)
        OBVIOUS
      <4>2. IsCheapestLegal(plan)
        BY <1>1, <3>2, <4>1 DEF PlanIsCheapestLegal
      <4>3. IsCheapestLegal(plan)'
        BY <2>1, <4>2, PlanUnmoved
      <4>4. Default(answer.plan, NoAnswer)' = plan
        BY <2>1, <4>1 DEF Default
      <4> QED BY <4>3, <4>4 DEF PlanIsCheapestLegal, IsCheapestLegal
    <3> QED BY <3>1, <3>2
  <2> QED BY <2>2, <2>3
<1> QED BY <1>2, <1>4, <1>5, <1>6, <1>7, <1>8, <1>9, <1>10 DEF Next

(* A plan is the cheapest legal way, on every map whose edges cost nothing  *)
(* below zero: the distance plan_route's search ends with is that of a way  *)
(* and no way is cheaper; and where no two edges join the same nodes, the   *)
(* plan's edges are open, taken as their direction allows, and add up to    *)
(* that distance.                                                          *)
THEOREM PlanIsCheapestLegalHolds ==
    ASSUME PricesAreNatural
    PROVE  Spec => []PlanIsCheapestLegal
<1>1. Init => CostInv
  BY CostInit
<1>2. CostInv /\ [Next]_vars => CostInv'
  BY CostStep
<1>3. CostInv => PlanIsCheapestLegal
  BY DEF CostInv
<1> QED BY <1>1, <1>2, <1>3, PTL DEF Spec

-----------------------------------------------------------------------------
(* The served index.  Three properties of it follow from what its document  *)
(* passed at the boot: they need only that the index is the one the boot    *)
(* made of it, and that nothing but a refusal follows a document in error.  *)
Served ==
    /\ scenario \in Scenarios
    /\ stage # "boot" => index = Rebuild(scenario.doc)
    /\ stage \notin {"boot", "refused"} => Bootable(index)

LEMMA ServedInit == Init => Served
BY DEF Init, Served

LEMMA ServedStep == Served /\ [Next]_vars => Served'
<1> SUFFICES ASSUME Served, [Next]_vars PROVE Served'
  OBVIOUS
<1>1. CASE Boot
  <2>1. /\ scenario' = scenario /\ index' = Rebuild(scenario.doc)
        /\ stage' = IF Bootable(index') THEN "serving" ELSE "refused"
    BY <1>1 DEF Boot
  <2> DEFINE idx == index'
  <2>2. (stage' = "serving" /\ Bootable(idx)) \/ stage' = "refused"
    BY <2>1
  <2>3. Bootable(index)' <=> Bootable(index')
    OBVIOUS
  <2> QED BY <2>1, <2>2, <2>3 DEF Served
<1>2. CASE Next /\ ~Boot
  <2>1. /\ scenario' = scenario /\ index' = index
        /\ stage \notin {"boot", "refused"} /\ stage' \notin {"boot", "refused"}
    BY <1>2 DEF Next, Request, Call, PlanRoute, Expand, Exhausted, Searching, Found, MissingEnd,
        Diagnose, DiagnoseWalls, SearchAgain, ReportWalls, ReportUnreachable, Answer
  <2> QED BY <2>1 DEF Served
<1>3. CASE UNCHANGED vars
  BY <1>3 DEF Served, vars
<1> QED BY <1>1, <1>2, <1>3

(* A document that is served makes an index the claim rules can rely on.   *)
THEOREM ServedIsAWorkspaceHolds == Spec => []ServedIsAWorkspace
<1>1. Init => Served
  BY ServedInit
<1>2. Served /\ [Next]_vars => Served'
  BY ServedStep
<1>3. Served => ServedIsAWorkspace
  <2> SUFFICES ASSUME Served, stage \notin {"boot", "refused"}
               PROVE  /\ IsWorkspace(AsWorkspace(index))
                      /\ \A entries \in {scenario.doc.zones, scenario.doc.nodes, scenario.doc.edges} :
                            NamesAreUnique(entries)
    BY Zenon DEF ServedIsAWorkspace, NamesAreUnique
  <2>1. index = Rebuild(scenario.doc) /\ IsDocument(scenario.doc) /\ Bootable(index)
    BY DocumentsAssumption DEF Served
  <2>2. ValidationErrors(Rebuild(scenario.doc)) = {}
    BY <2>1 DEF Bootable
  <2> QED BY <2>1, <2>2, ValidDocumentIsAWorkspace, Zenon
<1> QED BY <1>1, <1>2, <1>3, PTL DEF Spec

(* The walls of the index: a blocked zone is one whatever else it says, and *)
(* the planner and the effective semantics see the same walls, up to the    *)
(* zones that block traversal without a grant.                             *)
LEMMA WallsAgree ==
    ASSUME NEW doc, IsDocument(doc), index = Rebuild(doc), NEW e \in DOMAIN index.edges
    PROVE  HardBlocked(index, e) <=>
                \/ Holds(EffectiveSemantics(index, e).blocked)
                \/ \E z \in ToSet(ZonesOfEdge(index, e)) :
                        index.policies[z].blocks_traversal_without_grant
<1> DEFINE zs == ZonesOfEdge(index, e)
           policies == EdgeZonePolicies(index, e)
           props == index.edges[e].props
           n == Len(zs)
<1>1. zs \in Seq(index.zones)
  BY EdgeZones
<1>2. n \in Nat /\ DOMAIN zs = 1..n /\ ToSet(zs) = {zs[i] : i \in 1..n}
  <2> HIDE DEF zs
  <2> QED BY <1>1 DEF ToSet
<1>3. policies = [i \in 1..n |-> index.policies[zs[i]]]
  BY <1>2, Zenon DEF EdgeZonePolicies
<1>4. Len(policies) = n
  <2>1. policies \in Seq({index.policies[zs[i]] : i \in 1..n})
    <3> HIDE DEF zs, policies
    <3> QED BY <1>2, <1>3
  <2> HIDE DEF zs, policies, n
  <2> QED BY <1>2, <1>3, <2>1
<1>5. index.semantics[e] = ParseEdgeSemantics(props)
  BY DEF Rebuild
<1>6. Holds(EffectiveSemantics(index, e).blocked) <=>
            \/ Holds(index.semantics[e].blocked)
            \/ \E i \in 1..n : Walls(policies[i])
  <2>1. EffectiveSemantics(index, e) = DeriveEffectiveSemantics(props, policies)
    BY Zenon DEF EffectiveSemantics
  <2> HIDE DEF policies, props, n
  <2>2. Len(policies) \in Nat
    BY <1>2, <1>4
  <2> QED BY <1>4, <1>5, <2>1, <2>2, EffectivelyBlocked, Zenon
<1>7. (\E i \in 1..n : Walls(policies[i])) <=> \E z \in ToSet(zs) : Walls(index.policies[z])
  <2> HIDE DEF zs, policies, n
  <2>1. \A i \in 1..n : policies[i] = index.policies[zs[i]]
    BY <1>3
  <2> QED BY <1>2, <2>1
<1>8. HardBlocked(index, e) <=>
            \/ Holds(index.semantics[e].blocked)
            \/ \E z \in ToSet(zs) : Walls(index.policies[z])
            \/ \E z \in ToSet(zs) : index.policies[z].blocks_traversal_without_grant
  <2> HIDE DEF zs
  <2>1. BlockedZones(index, e) # {} <=>
            \/ \E z \in ToSet(zs) : Walls(index.policies[z])
            \/ \E z \in ToSet(zs) : index.policies[z].blocks_traversal_without_grant
    BY DEF BlockedZones, zs
  <2> QED BY <2>1 DEF HardBlocked
<1> HIDE DEF zs, policies, n
<1>9. Holds(EffectiveSemantics(index, e).blocked) <=>
            \/ Holds(index.semantics[e].blocked)
            \/ \E z \in ToSet(zs) : Walls(index.policies[z])
  BY <1>6, <1>7
<1> QED BY <1>8, <1>9, Zenon DEF zs

(* A zone marked as blocked is a wall, and one wall for everybody.         *)
THEOREM BlockedIsBlockedHolds == Spec => []BlockedIsBlocked
<1>1. Init => Served
  BY ServedInit
<1>2. Served /\ [Next]_vars => Served'
  BY ServedStep
<1>3. Served => BlockedIsBlocked
  <2> SUFFICES ASSUME Served, stage = "serving" PROVE BlockedIsBlocked
    BY DEF BlockedIsBlocked
  <2>1. index = Rebuild(scenario.doc) /\ IsDocument(scenario.doc)
    BY DocumentsAssumption DEF Served
  <2>2. ASSUME NEW z \in index.zones,
               "blocked" \in DOMAIN FirstNamed(scenario.doc.zones, z).props,
               Holds(ParseBool(FirstNamed(scenario.doc.zones, z).props["blocked"]))
        PROVE  /\ index.policies[z].kind = "Restricted"
               /\ index.policies[z].blocks_entry_without_grant = TRUE
               /\ index.policies[z].blocks_traversal_without_grant = TRUE
    <3> DEFINE props == FirstNamed(scenario.doc.zones, z).props
    <3>1. index.policies[z] = ParseZonePolicy(props)
      BY <2>1 DEF Rebuild
    <3> QED BY <2>2, <3>1, ParsedZonePolicy
  <2>3. ASSUME NEW e \in DOMAIN index.edges
        PROVE  HardBlocked(index, e) <=>
                \/ Holds(EffectiveSemantics(index, e).blocked)
                \/ \E z \in ToSet(ZonesOfEdge(index, e)) :
                        index.policies[z].blocks_traversal_without_grant
    BY <2>1, WallsAgree
  <2> QED BY <2>2, <2>3 DEF BlockedIsBlocked
<1> QED BY <1>1, <1>2, <1>3, PTL DEF Spec

(* Validation and parsing agree: in a served document every key either     *)
(* parser knows has taken effect, and no capacity is zero.                 *)
THEOREM ServedKeysApplyHolds == Spec => []ServedKeysApply
<1>1. Init => Served
  BY ServedInit
<1>2. Served /\ [Next]_vars => Served'
  BY ServedStep
<1>3. Served => ServedKeysApply
  <2> SUFFICES ASSUME Served, stage = "serving" PROVE ServedKeysApply
    BY DEF ServedKeysApply
  <2>1. index = Rebuild(scenario.doc) /\ IsDocument(scenario.doc) /\ Bootable(index)
    BY DocumentsAssumption DEF Served
  <2>2. TrafficErrors(index) = {} /\ index.doc = scenario.doc
    BY <2>1 DEF Bootable, ValidationErrors, Rebuild
  <2>3. ASSUME NEW z \in index.zones
        PROVE  ZoneErrors(FirstNamed(scenario.doc.zones, z).props) = {}
    BY <2>2 DEF TrafficErrors
  <2>4. ASSUME NEW e \in DOMAIN index.edges
        PROVE  EdgeErrors(index.edges[e].props) = {}
    BY <2>2 DEF TrafficErrors
  <2>5. ASSUME NEW z \in index.zones, NEW k \in DOMAIN FirstNamed(scenario.doc.zones, z).props
        PROVE  LET field == Canonical(k)  p == index.policies[z] IN
               /\ field \in CountKeys => p.capacity_is_explicit /\ p.capacity > 0
               /\ field \in ((ZoneBools \cup ZoneNumbers \cup ZoneTexts) \cap DOMAIN p)
                        \ {"blocks_entry_without_grant", "blocks_traversal_without_grant"}
                    => p[field] # None
    <3> DEFINE props == FirstNamed(scenario.doc.zones, z).props
               field == Canonical(k)
               p == index.policies[z]
    <3>1. p = ParseZonePolicy(props)
      BY <2>1 DEF Rebuild
    <3>2. ~ZoneError(k, props[k])
      BY <2>3 DEF ZoneErrors
    <3>3. /\ IsPolicy(p)
          /\ field \in CountKeys => p.capacity_is_explicit
          /\ Settable(field) => p[field] # None
      <4> HIDE DEF p, field, props
      <4> QED BY <3>1, <3>2, ParsedZonePolicy DEF props, field
    <3>4. DOMAIN p = PolicyFields /\ p.capacity > 0
      <4> HIDE DEF p
      <4> QED BY <3>3 DEF IsPolicy
    <3>5. field \in ((ZoneBools \cup ZoneNumbers \cup ZoneTexts) \cap DOMAIN p)
                    \ {"blocks_entry_without_grant", "blocks_traversal_without_grant"}
          => Settable(field)
      <4> HIDE DEF p, field
      <4> QED BY <3>4 DEF Settable, PolicyFields, ZoneBools, ZoneNumbers, ZoneTexts, SharedBools,
            SharedTexts
    <3> QED BY <3>3, <3>4, <3>5, Zenon
  <2>6. ASSUME NEW e \in DOMAIN index.edges, NEW k \in DOMAIN index.edges[e].props
        PROVE  LET s == index.semantics[e] IN
               /\ Canonical(k) \in EdgeKeys => s[EdgeField(k)] # None
               /\ s.capacity # Some(0)
    <3> DEFINE props == index.edges[e].props
               s == index.semantics[e]
    <3>1. s = ParseEdgeSemantics(props)
      BY <2>1 DEF Rebuild
    <3>2. EdgeErrors(props) = {}
      BY <2>4
    <3>3. 0 \notin s.capacity /\ (Canonical(k) \in EdgeKeys => s[EdgeField(k)] # None)
      <4> HIDE DEF s, props
      <4> QED BY <3>1, <3>2, ParsedEdgeSemantics DEF props
    <3> QED BY <3>3 DEF Some
  <2> QED BY <2>5, <2>6, Zenon DEF ServedKeysApply
<1> QED BY <1>1, <1>2, <1>3, PTL DEF Spec

=============================================================================
