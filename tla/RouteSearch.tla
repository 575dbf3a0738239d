----------------------------- MODULE RouteSearch -----------------------------
(***************************************************************************)
(* Route planning over the served index: src/src/route.rs, the boot check  *)
(* of src/src/bin/syncbot.rs and plan_route_request of src/src/wire/mod.rs.*)
(*                                                                         *)
(* A behavior boots one workspace and plans one route in it.  The search   *)
(* is the Dijkstra loop of the code, one iteration a step: its heap holds  *)
(* an entry for every improvement, entries of visited nodes are passed     *)
(* over when they surface, and entries of one distance surface in any      *)
(* order.  A search that fails is followed by the two of the diagnosis.    *)
(***************************************************************************)
EXTENDS WorkspaceIndex

CONSTANTS
    Scenarios,  \* what may be booted and asked: [doc, start, goal, penalized]
    NoIndex,    \* before the boot
    NoAnswer    \* before the answer

ASSUME DocumentsAssumption == \A asked \in Scenarios : IsDocument(asked.doc)

VARIABLES
    scenario,   \* the document on disk and the question to come
    index,      \* the served index
    stage,      \* where the handler is
    ends,       \* the resolved start and goal
    search,     \* RouteSearchState with its frontier and visited set
    first,      \* diagnosis: the unconstrained search, once it is over
    answer      \* RoutePlanningResult, or why there is none

vars == <<scenario, index, stage, ends, search, first, answer>>

Infinity == 100000

-----------------------------------------------------------------------------
(* Edges: where they may be taken, what walls them off, what they cost.     *)
AllowsTraversal(idx, e, fromSource) ==
    LET s == idx.semantics[e]
        direction == Default(s.preferred_direction, "bidirectional")
    IN  CASE direction \in {"forward", "source_to_target"} -> fromSource \/ Holds(s.reversible)
          [] direction \in {"reverse", "target_to_source"} -> ~fromSource \/ Holds(s.reversible)
          [] OTHER -> TRUE

BlockedZones(idx, e) ==
    {z \in ToSet(ZonesOfEdge(idx, e)) :
        \/ Walls(idx.policies[z])
        \/ idx.policies[z].blocks_traversal_without_grant}

HardBlocked(idx, e) ==
    \/ e \notin DOMAIN idx.edges
    \/ Holds(idx.semantics[e].blocked)
    \/ BlockedZones(idx, e) # {}

SumOver(S, Price(_)) == FoldLeft(LAMBDA total, x : total + Price(x), 0, S)

Per(opt) == IF opt # None /\ Default(opt, 0) > 0 THEN (Unit * Unit) \div Default(opt, 0) ELSE 0
Shortfall(opt) == IF opt = None THEN 0 ELSE MaxOf(10 * Unit - Default(opt, 0), 0)
Flat(charged, price) == IF charged THEN price ELSE 0

ZonePenalty(p) ==
    Flat(p.requires_claim \/ p.blocks_entry_without_grant
            \/ p.blocks_traversal_without_grant, 100 * Unit)
    + Shortfall(p.priority) \div 20
    + Flat(p.waiting_allowed = Some(FALSE), (3 * Unit) \div 2)
    + Flat(p.stop_allowed = Some(FALSE), 2 * Unit)
    + Flat(p.kind = "Corridor", (3 * Unit) \div 4)

(* What an edge's effective semantics add to its price.                    *)
LanePenalty(s) ==
    MaxOf(Default(s.cost_bias, 0), 0)
    + Per(s.speed_limit) + Per(s.clearance_width) + Per(s.clearance_height)
    + Shortfall(s.priority) \div 10
    + Flat(s.capacity # None /\ Default(s.capacity, 0) > 0,
           Unit \div MaxOf(Default(s.capacity, 1), 1))
    + Flat(s.lane_type = Some("corridor"), (3 * Unit) \div 4)
    + Flat(s.passing_allowed = Some(FALSE), Unit \div 2)
    + Flat(Holds(s.no_stop), 2 * Unit)

Penalty(idx, e) ==
    LanePenalty(EffectiveSemantics(idx, e))
    + SumOver(EdgeZonePolicies(idx, e), ZonePenalty)

LegalSteps(idx, n) ==
    {a \in Neighbors(idx, n) : AllowsTraversal(idx, a.edge, a.from_source)}

(* The three searches differ in the edges they skip and in what they add.   *)
Skips(mode, e) == mode # "unconstrained" /\ HardBlocked(index, e)
Surcharge(mode, e) == IF mode = "penalties" THEN Penalty(index, e) ELSE 0

-----------------------------------------------------------------------------
(* The search.                                                             *)
NoSearch == [mode |-> "none", frontier |-> {}, visited |-> {}, distances |-> << >>,
             predecessors |-> << >>, found |-> FALSE, distance |-> Infinity, over |-> TRUE]

Begin(mode, s, g) ==
    LET blank == [NoSearch EXCEPT !.mode = mode] IN
    IF ~ {s, g} \subseteq DOMAIN index.nodes THEN blank
    ELSE IF s = g
    THEN [blank EXCEPT !.distances = [n \in {s} |-> 0], !.found = TRUE, !.distance = 0]
    ELSE [blank EXCEPT !.distances = [n \in {s} |-> 0], !.frontier = {<<s, 0>>},
                       !.over = FALSE]

(* Mutant: entries surface in any order.                                   *)
AnyEntry(frontier) == frontier

Nearest(frontier) == {x \in frontier : \A y \in frontier : x[2] <= y[2]}

(* HashMap::insert, of every entry of a second map.                        *)
Insert(map, entries) ==
    [n \in DOMAIN map \cup DOMAIN entries |->
        IF n \in DOMAIN entries THEN entries[n] ELSE map[n]]

(* The steps the loop may take out of a node, and what one adds.            *)
OpenSteps(mode, n) == {a \in LegalSteps(index, n) : ~Skips(mode, a.edge)}
Cost(mode, a)      == a.weight + Surcharge(mode, a.edge)

(* Relaxing the edges out of one node: each far node gets the best of the   *)
(* edges that lead to it, if that beats what it has.  (An entry for a worse *)
(* parallel edge, pushed first, would only surface to be passed over.)     *)
Relax(s, n, d) ==
    LET open  == {a \in OpenSteps(s.mode, n) : a.node \notin s.visited \cup {n}}
        via(m) == {d + Cost(s.mode, a) : a \in {b \in open : b.node = m}}
        best(m) == CHOOSE x \in via(m) : \A y \in via(m) : x <= y
        better == {m \in {a.node : a \in open} :
                    m \in DOMAIN s.distances => best(m) < s.distances[m]}
    IN  [s EXCEPT !.visited = @ \cup {n},
                  !.distances = Insert(@, [m \in better |-> best(m)]),
                  !.predecessors = Insert(@, [m \in better |-> n]),
                  !.frontier = (@ \ {<<n, d>>}) \cup {<<m, best(m)>> : m \in better}]

Searching == stage \in {"search", "unconstrained", "blocking"}

Expand ==
    /\ Searching /\ ~search.over
    /\ \E x \in Nearest(search.frontier) :
        search' = IF x[1] \in search.visited
                  THEN [search EXCEPT !.frontier = @ \ {x}]
                  ELSE IF x[1] = ends.goal
                  THEN [search EXCEPT !.visited = @ \cup {x[1]}, !.frontier = {},
                                      !.found = TRUE, !.distance = x[2], !.over = TRUE]
                  ELSE Relax(search, x[1], x[2])
    /\ UNCHANGED <<scenario, index, stage, ends, first, answer>>

Exhausted ==
    /\ Searching /\ ~search.over /\ search.frontier = {}
    /\ search' = [search EXCEPT !.over = TRUE]
    /\ UNCHANGED <<scenario, index, stage, ends, first, answer>>

-----------------------------------------------------------------------------
(* The plan.                                                               *)

(* reconstruct_route_nodes: from the goal back along the predecessors.      *)
RouteNodes(s) ==
    LET back[k \in Nat] ==
            IF k = 0 THEN <<ends.goal>>
            ELSE IF Head(back[k - 1]) = ends.start THEN back[k - 1]
            ELSE <<s.predecessors[Head(back[k - 1])]>> \o back[k - 1]
    IN  back[Cardinality(DOMAIN s.predecessors)]

(* Every way the graph may answer which edge joins consecutive nodes.       *)
EdgesAlong(nodes) ==
    { via \in [1..(Len(nodes) - 1) -> DOMAIN index.edges] :
        \A i \in DOMAIN via : via[i] \in EdgesJoining(index, nodes[i], nodes[i + 1]) }

StepCost(e) == index.edges[e].weight + IF scenario.penalized THEN Penalty(index, e) ELSE 0

RoutePlan(nodes, via) ==
    LET cumulative[i \in 0..Len(via)] ==
            IF i = 0 THEN 0 ELSE cumulative[i - 1] + StepCost(via[i])
    IN  [ start |-> ends.start, goal |-> ends.goal, nodes |-> nodes, edges |-> via,
          zones |-> UNION {ZonesOfNode(index, nodes[i]) : i \in DOMAIN nodes}
                    \cup UNION {ToSet(ZonesOfEdge(index, via[i])) : i \in DOMAIN via},
          node_zones |-> [i \in DOMAIN nodes |-> ZonesOfNode(index, nodes[i])],
          edge_zones |-> [i \in DOMAIN via |-> ToSet(ZonesOfEdge(index, via[i]))],
          steps |-> [i \in DOMAIN nodes |->
                        [node |-> nodes[i],
                         incoming |-> IF i = 1 THEN None ELSE Some(via[i - 1]),
                         cost |-> IF i = 1 THEN 0 ELSE StepCost(via[i - 1]),
                         cumulative |-> cumulative[i - 1]]],
          total |-> cumulative[Len(via)] ]

(* validate_route_plan_shape.                                              *)
WellShaped(plan) ==
    IF plan.nodes = << >> THEN plan.edges = << >> /\ plan.steps = << >>
    ELSE /\ plan.start = Head(plan.nodes)
         /\ plan.goal = Last(plan.nodes)
         /\ Len(plan.edges) + 1 = Len(plan.nodes)
         /\ Len(plan.steps) \in {0, Len(plan.nodes)}
         /\ Len(plan.node_zones) \in {0, Len(plan.nodes)}
         /\ Len(plan.edge_zones) \in {0, Len(plan.edges)}
         /\ \A i \in DOMAIN plan.steps :
              /\ plan.steps[i].node = plan.nodes[i]
              /\ plan.steps[i].incoming = IF i = 1 THEN None ELSE Some(plan.edges[i - 1])

-----------------------------------------------------------------------------
(* The diagnosis.                                                          *)
Failure(kind) ==
    [kind |-> kind, blocked_edges |-> {}, blocked_zones |-> {}, locked_edges |-> {},
     reachable |-> {}, saw_claimed |-> FALSE, saw_slow |-> FALSE]

(* Mutant: only the walls on the unconstrained route are named.            *)
PolicyFailureOnRoute ==
    LET onRoute(via) == {via[i] : i \in {j \in DOMAIN via : HardBlocked(index, via[j])}}
    IN  { [Failure("PolicyBlocked") EXCEPT
            !.reachable = DOMAIN search.distances,
            !.blocked_edges = onRoute(via),
            !.blocked_zones = UNION {BlockedZones(index, e) : e \in onRoute(via)}]
          : via \in EdgesAlong(RouteNodes(first)) }

(* What walls the reachable nodes in; should nothing do, whatever is walled *)
(* on the route the unconstrained search found.                            *)
PolicyFailure ==
    LET reachable == DOMAIN search.distances
        steps  == UNION {LegalSteps(index, n) : n \in reachable}
        walled == {a.edge : a \in {b \in steps : HardBlocked(index, b.edge)}}
        open   == {a.edge : a \in steps} \ walled
        onRoute(via) == {via[i] : i \in {j \in DOMAIN via : HardBlocked(index, via[j])}}
    IN { [Failure("PolicyBlocked") EXCEPT
            !.reachable = reachable,
            !.blocked_edges = edges,
            !.blocked_zones = UNION {BlockedZones(index, e) : e \in edges},
            !.saw_claimed = \E e \in open : LET s == EffectiveSemantics(index, e)
                                            IN Holds(s.requires_claim) \/ s.access_group # None,
            !.saw_slow = \E e \in open : \E x \in EffectiveSemantics(index, e).speed_limit :
                            x < Unit]
         : edges \in IF walled # {} THEN {walled}
                     ELSE {onRoute(via) : via \in EdgesAlong(RouteNodes(first))} }

Unreachable ==
    LET reachable == DOMAIN search.distances IN
    [Failure("Unreachable") EXCEPT
        !.reachable = reachable,
        !.locked_edges = {a.edge : a \in {b \in UNION {Neighbors(index, n) : n \in reachable} :
                                            ~AllowsTraversal(index, b.edge, b.from_source)}}]

-----------------------------------------------------------------------------
Init ==
    /\ scenario \in Scenarios
    /\ index = NoIndex /\ stage = "boot"
    /\ ends = [start |-> Nil, goal |-> Nil]
    /\ search = NoSearch /\ first = NoSearch /\ answer = NoAnswer

(* load_index: the document is indexed and served if it draws no error.     *)
Boot ==
    /\ stage = "boot"
    /\ LET idx == Rebuild(scenario.doc) IN
        /\ index' = idx
        /\ stage' = IF Bootable(idx) THEN "serving" ELSE "refused"
    /\ UNCHANGED <<scenario, ends, search, first, answer>>

PlanRoute(s, g) ==
    /\ ends' = [start |-> s, goal |-> g]
    /\ search' = Begin(IF scenario.penalized THEN "penalties" ELSE "blocking", s, g)
    /\ stage' = "search"
    /\ UNCHANGED <<scenario, index, first, answer>>

(* plan_route_request: a reference that does not resolve is turned away.    *)
Request ==
    /\ stage = "serving"
    /\ LET s == ResolveNode(index, scenario.start)
           g == ResolveNode(index, scenario.goal)
       IN  IF s # None /\ g # None
           THEN PlanRoute(Default(s, Nil), Default(g, Nil))
           ELSE /\ stage' = "answered"
                /\ answer' = [plan |-> None, failure |-> None]
                /\ UNCHANGED <<scenario, index, ends, search, first>>

(* plan_route called with ids as they are, as the library's own bindings    *)
(* call it.                                                                *)
Call ==
    /\ stage = "serving"
    /\ PlanRoute(scenario.start, scenario.goal)

Answer(result) ==
    /\ stage' = "answered"
    /\ answer' = result
    /\ UNCHANGED <<scenario, index, ends, search, first>>

Found ==
    /\ stage = "search" /\ search.over /\ search.found
    /\ \E via \in EdgesAlong(RouteNodes(search)) :
        LET plan == RoutePlan(RouteNodes(search), via) IN
        Answer(IF WellShaped(plan) THEN [plan |-> Some(plan), failure |-> None]
               ELSE [plan |-> None, failure |-> Some(Failure("Unreachable"))])

MissingEnd ==
    /\ stage = "search" /\ search.over /\ ~search.found
    /\ ~ {ends.start, ends.goal} \subseteq DOMAIN index.nodes
    /\ Answer([plan |-> None,
               failure |-> Some(Failure(IF ends.start \notin DOMAIN index.nodes
                                        THEN "MissingStartNode" ELSE "MissingGoalNode"))])

SearchAgain(mode) ==
    /\ search' = Begin(mode, ends.start, ends.goal)
    /\ stage' = mode
    /\ UNCHANGED <<scenario, index, ends, answer>>

Diagnose ==
    /\ stage = "search" /\ search.over /\ ~search.found
    /\ {ends.start, ends.goal} \subseteq DOMAIN index.nodes
    /\ SearchAgain("unconstrained") /\ UNCHANGED first

DiagnoseWalls ==
    /\ stage = "unconstrained" /\ search.over /\ search.found
    /\ SearchAgain("blocking") /\ first' = search

ReportWalls ==
    /\ stage = "blocking" /\ search.over
    /\ \E f \in PolicyFailure : Answer([plan |-> None, failure |-> Some(f)])

ReportUnreachable ==
    /\ stage = "unconstrained" /\ search.over /\ ~search.found
    /\ Answer([plan |-> None, failure |-> Some(Unreachable)])

Next ==
    \/ Boot \/ Request \/ Call
    \/ Expand \/ Exhausted
    \/ Found \/ MissingEnd \/ Diagnose \/ DiagnoseWalls
    \/ ReportWalls \/ ReportUnreachable

Spec == Init /\ [][Next]_vars

-----------------------------------------------------------------------------
(* What a search should find.  A node is reached if it is in every set of   *)
(* nodes that holds the start and that no step leaves.                     *)
Reachable(Steps(_), Skip(_)) ==
    \A C \in SUBSET DOMAIN index.nodes :
        /\ ends.start \in C
        /\ \A n \in C : \A a \in Steps(n) : Skip(a.edge) \/ a.node \in C
        => ends.goal \in C

(* What the ways to each node cost: those of no step, and, if c has those   *)
(* of some number of steps, those of one more at most.                     *)
NoSteps == [n \in DOMAIN index.nodes |-> IF n = ends.start THEN {0} ELSE {}]

OneMore(mode, c) ==
    [n \in DOMAIN index.nodes |->
        c[n] \cup UNION {{x + Cost(mode, a) : a \in {b \in OpenSteps(mode, m) : b.node = n},
                                              x \in c[m]}
                         : m \in DOMAIN index.nodes}]

(* What every way to the goal costs, of as many steps as there are nodes at *)
(* most: longer ones pass a node twice.                                    *)
WalkCosts(mode) ==
    LET costs[k \in 0..Cardinality(DOMAIN index.nodes)] ==
            IF k = 0 THEN NoSteps ELSE OneMore(mode, costs[k - 1])
    IN  costs[Cardinality(DOMAIN index.nodes)][ends.goal]

(* No two edges join the same two nodes.                                   *)
Simple == \A e \in DOMAIN index.edges : \A f \in DOMAIN index.edges \ {e} :
            {index.edges[e].source, index.edges[e].target}
                # {index.edges[f].source, index.edges[f].target}

(* What Dijkstra's search relies on and nothing in the code checks: no edge *)
(* costs less than nothing.                                                *)
PricesAreNatural ==
    \A asked \in Scenarios : LET idx == Rebuild(asked.doc) IN
        Bootable(idx) =>
            \A e \in DOMAIN idx.edges : idx.edges[e].weight \in Nat /\ Penalty(idx, e) \in Nat

Planned == stage = "answered" /\ answer.plan # None
Failed  == stage = "answered" /\ answer.failure # None

-----------------------------------------------------------------------------
(* A document that is served makes an index the claim rules can rely on: a  *)
(* forest of zones with their ancestors, memberships and capacities as they *)
(* expect them, and every number the name of at most one zone, node or edge.*)
ServedIsAWorkspace ==
    stage \notin {"boot", "refused"} =>
        /\ IsWorkspace(AsWorkspace(index))
        /\ \A entries \in {scenario.doc.zones, scenario.doc.nodes, scenario.doc.edges} :
             \A i, j \in DOMAIN entries :
                i # j => /\ entries[i].id # entries[j].id
                         /\ entries[i].numeric \cap entries[j].numeric = {}

(* `traffic.blocked' walls a zone off whatever its other keys say and in    *)
(* whatever order they are read, and the planner's wall (is_edge_hard_     *)
(* blocked) and the edge's effective semantics, which claims and adapters   *)
(* read, differ only by a zone that blocks traversal without a grant.      *)
BlockedIsBlocked ==
    stage = "serving" =>
        /\ \A z \in index.zones :
             LET props == FirstNamed(scenario.doc.zones, z).props IN
             ("blocked" \in DOMAIN props /\ Holds(ParseBool(props["blocked"]))) =>
                /\ index.policies[z].kind = "Restricted"
                /\ index.policies[z].blocks_entry_without_grant
                /\ index.policies[z].blocks_traversal_without_grant
        /\ \A e \in DOMAIN index.edges :
             HardBlocked(index, e) <=>
                \/ Holds(EffectiveSemantics(index, e).blocked)
                \/ \E z \in ToSet(ZonesOfEdge(index, e)) :
                        index.policies[z].blocks_traversal_without_grant

(* The validator and the parsers agree: in a document that is served every  *)
(* key they know has taken effect, and no capacity is zero.                *)
ServedKeysApply ==
    stage = "serving" =>
        /\ \A z \in index.zones : \A k \in DOMAIN FirstNamed(scenario.doc.zones, z).props :
            LET field == Canonical(k)  p == index.policies[z] IN
            /\ field \in CountKeys => p.capacity_is_explicit /\ p.capacity > 0
            /\ field \in ((ZoneBools \cup ZoneNumbers \cup ZoneTexts) \cap DOMAIN p)
                    \ {"blocks_entry_without_grant", "blocks_traversal_without_grant"}
                => p[field] # None
        /\ \A e \in DOMAIN index.edges : \A k \in DOMAIN index.edges[e].props :
            LET s == index.semantics[e] IN
            /\ Canonical(k) \in EdgeKeys => s[EdgeField(k)] # None
            /\ s.capacity # Some(0)

(* The search finds the cheapest legal way around the walls, and the plan   *)
(* made of it drives that way: its edges are open, taken in a direction     *)
(* they allow, and add up to the distance found.  A plan names its edges by *)
(* their ends, so the second half is only due where no two edges join the   *)
(* same nodes.                                                             *)
IsCheapestLegal(plan) ==
    /\ search.distance \in WalkCosts(search.mode)
    /\ \A cost \in WalkCosts(search.mode) : search.distance <= cost
    /\ Simple =>
        /\ plan.total = search.distance
        /\ \A i \in DOMAIN plan.edges :
             /\ ~HardBlocked(index, plan.edges[i])
             /\ \E a \in LegalSteps(index, plan.nodes[i]) :
                    a.edge = plan.edges[i] /\ a.node = plan.nodes[i + 1]

(* Every plan returned is such a plan (plan_route).                         *)
PlanIsCheapestLegal == Planned => IsCheapestLegal(Default(answer.plan, NoAnswer))

(* A failure names its cause.  Blocked by policy: there is a way but for    *)
(* the walls, and the edges named are a cut, that is, no legal way avoids   *)
(* all of them.  Unreachable: there is none, and the edges named as locked  *)
(* are all that direction alone bars.                                      *)
NamesTheCut(f) ==
    LET legal(n) == LegalSteps(index, n)
        any(n)   == Neighbors(index, n)
        none(e)  == FALSE
    IN  CASE f.kind = "PolicyBlocked" ->
                /\ Reachable(legal, none)
                /\ ~Reachable(legal, LAMBDA e : e \in f.blocked_edges)
                /\ \A e \in f.blocked_edges : HardBlocked(index, e)
          [] f.kind = "Unreachable" ->
                /\ ~Reachable(legal, none)
                /\ ~Reachable(any, LAMBDA e : e \in f.locked_edges)
          [] OTHER -> ~ {ends.start, ends.goal} \subseteq DOMAIN index.nodes

(* Every failure returned names its cause (diagnose_route_failure).         *)
DiagnosisNamesTheCut == Failed => NamesTheCut(Default(answer.failure, NoAnswer))

=============================================================================
