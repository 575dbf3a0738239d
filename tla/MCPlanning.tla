----------------------------- MODULE MCPlanning ------------------------------
(***************************************************************************)
(* Documents and questions for RouteSearch.  One map of three nodes and    *)
(* three edges, in three families: routes (its edges turned, doubled,      *)
(* walled and locked), policies (every map of up to three traffic keys, on *)
(* a zone and on an edge), and documents that are not well formed.         *)
(***************************************************************************)
EXTENDS RouteSearch, TLC

MCZones == {"site", "bay", "dock"}
MCNodes == {"a", "b", "c"}
MCEdges == {"ab", "bc", "third"}

NoProps == << >>

Zone(id, parent, props) ==
    [id |-> id, parent |-> parent, numeric |-> None, props |-> props, nodes |-> {}]
Node(id, zones) == [id |-> id, zones |-> zones, numeric |-> None]
Edge(id, from, to, weight, profile) ==
    [id |-> id, source |-> from, target |-> to, zones |-> profile.zones,
     numeric |-> None, weight |-> weight, props |-> profile.props]

Doc(zones, nodes, edges) ==
    [local |-> TRUE, datum |-> TRUE, zones |-> zones, nodes |-> nodes, edges |-> edges]

Ask(doc, start, goal, penalized) ==
    [doc |-> doc, start |-> start, goal |-> goal, penalized |-> penalized]

ThreeNodes == <<Node("a", {"site"}), Node("b", {"bay"}), Node("c", {"site"})>>
Plain_     == [zones |-> <<"site">>, props |-> NoProps]

-----------------------------------------------------------------------------
(* Routes from a to c.                                                     *)
Profiles ==
    { Plain_,
      [zones |-> <<"bay", "site">>, props |-> NoProps],
      [zones |-> << >>, props |-> [blocked |-> "yes"]],
      [zones |-> << >>, props |-> [direction |-> "forward", speedLimit |-> "0.5"]] }

BayRules ==
    { [blocked |-> "true"], [policy |-> "restricted"], [policy |-> " Slow"],
      [claimRequired |-> "1", priority |-> "2"],
      [blocks_traversal_without_grant |-> "on"] }

(* Turned, doubled and looped: where the second and third edge run.         *)
Runs == { <<2, 3, 1, 3>>, <<2, 3, 3, 1>>, <<3, 2, 1, 3>>, <<2, 3, 1, 2>>,
          <<2, 3, 2, 1>>, <<2, 3, 3, 3>>, <<3, 2, 3, 1>> }

RouteScenarios ==
    { Ask(Doc(<<Zone("site", 0, NoProps), Zone("bay", 1, rules)>>, ThreeNodes,
              <<Edge("ab", 1, 2, Unit, p[1]), Edge("bc", run[1], run[2], Unit, p[2]),
                Edge("third", run[3], run[4], 3 * Unit, p[3])>>),
          "a", "c", penalized)
      : rules \in BayRules, run \in Runs, p \in [1..3 -> Profiles], penalized \in BOOLEAN }

-----------------------------------------------------------------------------
(* Every map of up to three of these keys.                                 *)
Values ==
    [blocked |-> {"true", " "}, policy |-> {"slow", "exclusive", "2"}, capacity |-> {"2", "0"},
     maxOccupancy |-> {"1"}, claimRequired |-> {" Yes "},
     blocks_entry_without_grant |-> {"off"}, blocks_traversal_without_grant |-> {"no"},
     no_stop |-> {"1"}, stopAllowed |-> {"true"}, replan_trigger |-> {"yes"},
     speed_limit |-> {"0", "0.5"}, cost_bias |-> {"-1", "2"}, lane_type |-> {"corridor"},
     passing_allowed |-> {"no"}, access_group |-> {" "}]

PropMaps ==
    UNION { {f \in [K -> UNION {Values[k] : k \in K}] : \A k \in K : f[k] \in Values[k]}
            : K \in {S \in SUBSET DOMAIN Values : Cardinality(S) <= 3} }

WithRules(onZone, onEdge) ==
    Ask(Doc(<<Zone("site", 0, NoProps), Zone("bay", 1, onZone), Zone("dock", 2, NoProps)>>,
            ThreeNodes,
            <<Edge("ab", 1, 2, Unit, [zones |-> <<"bay", "dock">>, props |-> NoProps]),
              Edge("bc", 2, 3, Unit, [zones |-> <<"site">>, props |-> onEdge])>>),
        "b", "b", TRUE)

(* On both; and, of the smaller maps, on one of them alone.                 *)
PolicyScenarios ==
    {WithRules(props, props) : props \in PropMaps}
    \cup UNION {{WithRules(props, NoProps), WithRules(NoProps, props)} :
                props \in {p \in PropMaps : Cardinality(DOMAIN p) <= 2}}

-----------------------------------------------------------------------------
(* Documents with one or two faults, and questions that name no node.       *)
Trees ==
    { <<Zone("site", 0, NoProps), Zone("bay", 1, NoProps)>>,
      <<Zone("site", 0, NoProps), Zone("bay", 1, NoProps), Zone("bay", 1, NoProps)>>,
      <<Zone("site", 0, NoProps), Zone("bay", 1, NoProps), Zone("site", 2, NoProps)>>,
      <<Zone("site", 0, NoProps), Zone("bay", 1, NoProps), Zone("dock", 2, NoProps)>>,
      <<[Zone("site", 0, NoProps) EXCEPT !.nodes = {"a"}],
        [Zone("bay", 1, NoProps) EXCEPT !.nodes = {"c"}]>>,
      <<Zone("site", 0, NoProps), [Zone("bay", 1, NoProps) EXCEPT !.nodes = {"b", "z"}]>>,
      <<Zone(Nil, 0, NoProps), Zone("bay", 1, NoProps)>> }

NodeLists ==
    { ThreeNodes,
      <<Node("a", {"site"}), Node("b", {"bay"}), Node("a", {"site"})>>,
      <<Node("a", {"site"}), Node("b", {"nowhere"}), Node("c", {"site"})>>,
      <<[Node("a", {"site"}) EXCEPT !.numeric = Some("7")], Node("b", {"bay"}),
        [Node("c", {"site"}) EXCEPT !.numeric = Some("7")]>>,
      <<[Node("a", {"site"}) EXCEPT !.numeric = Some("7")], Node("b", {"bay"}),
        [Node("c", {"site"}) EXCEPT !.numeric = Some("8")]>>,
      <<Node("a", {"site"}), Node("b", {"bay"}), Node(Nil, {"site"})>> }

EdgeLists ==
    { <<Edge("ab", 1, 2, Unit, Plain_), Edge("bc", 2, 3, Unit, Plain_)>>,
      <<Edge("ab", 1, 2, Unit, Plain_), Edge("ab", 2, 3, Unit, Plain_)>>,
      <<Edge("ab", 1, 2, Unit, Plain_),
        Edge("bc", 2, 3, Unit, [zones |-> <<"nowhere">>, props |-> NoProps])>>,
      <<[Edge("ab", 1, 2, Unit, Plain_) EXCEPT !.numeric = Some("7")],
        [Edge("bc", 2, 3, Unit, Plain_) EXCEPT !.numeric = Some("7")]>> }

Anchors == {<<TRUE, TRUE>>, <<TRUE, FALSE>>, <<FALSE, TRUE>>}

FaultyScenarios ==
    { Ask([Doc(tree, nodes, edges) EXCEPT !.local = anchor[1], !.datum = anchor[2]],
          "a", "c", FALSE)
      : tree \in Trees, nodes \in NodeLists, edges \in EdgeLists, anchor \in Anchors }

OddQuestions ==
    { Ask(Doc(<<Zone("site", 0, NoProps), Zone("bay", 1, NoProps)>>, nodes,
              <<Edge("ab", 1, 2, Unit, Plain_)>>), q[1], q[2], TRUE)
      : nodes \in {ThreeNodes, <<[Node("a", {"site"}) EXCEPT !.numeric = Some("7")],
                                 Node("b", {"bay"}), Node("c", {"site"})>>},
        q \in {<<"a", "z">>, <<"z", "a">>, <<"7", "b">>, <<"a", "b">>, <<"a", "8">>} }

MCScenarios == RouteScenarios \cup PolicyScenarios \cup FaultyScenarios \cup OddQuestions

(* The prices the proof that plans are cheapest relies on.                 *)
ASSUME MCPrices == PricesAreNatural

=============================================================================
