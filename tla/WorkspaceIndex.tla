---------------------------- MODULE WorkspaceIndex ---------------------------
(***************************************************************************)
(* From a document to an index: WorkspaceIndex::rebuild, its validation    *)
(* and its lookups (src/src/index.rs).                                     *)
(*                                                                         *)
(* A document is a zoneout workspace, as loaded from disk or pushed:       *)
(*   local, datum : BOOLEAN                                                *)
(*   zones : entries [id, parent, numeric, props, nodes] in tree order;    *)
(*           parent is the position of another entry, 0 for the root       *)
(*   nodes : entries [id, zones, numeric]                                  *)
(*   edges : entries [id, source, target, zones, numeric, weight, props];  *)
(*           source and target are positions in nodes, zones a sequence    *)
(* numeric is an Option: the `external.numeric_id' alias.  Ids may repeat  *)
(* in a document; Nil is the nil UUID.                                     *)
(***************************************************************************)
EXTENDS Workspace, TrafficPolicy

CONSTANTS
    Nil,            \* the nil UUID
    MaxZoneDepth    \* MAX_ZONE_DEPTH

ASSUME DepthAssumption == MaxZoneDepth \in Nat \ {0}

(* What a loaded document is: lists, in which a zone comes after the zone   *)
(* around it and an edge names two of the nodes, with ids of their kinds.   *)
IsDocument(doc) ==
    /\ \A entries \in {doc.zones, doc.nodes, doc.edges} :
         Len(entries) \in Nat /\ DOMAIN entries = 1..Len(entries)
    /\ \A i \in DOMAIN doc.zones :
         doc.zones[i].id \in Zones \cup {Nil} /\ doc.zones[i].parent \in 0..(i - 1)
    /\ \A i \in DOMAIN doc.nodes : doc.nodes[i].id \in Nodes \cup {Nil}
    /\ \A i \in DOMAIN doc.edges :
         /\ doc.edges[i].id \in Edges \cup {Nil}
         /\ {doc.edges[i].source, doc.edges[i].target} \subseteq DOMAIN doc.nodes
         /\ Len(doc.edges[i].zones) \in Nat
         /\ DOMAIN doc.edges[i].zones = 1..Len(doc.edges[i].zones)

Ids(entries)       == {entries[i].id : i \in DOMAIN entries}
Named(entries, id) == {i \in DOMAIN entries : entries[i].id = id}
FirstNamed(entries, id) ==
    entries[CHOOSE i \in Named(entries, id) : \A j \in Named(entries, id) : i <= j]

-----------------------------------------------------------------------------
(* rebuild.                                                                *)

(* index_zone_tree walks with an explicit stack: a zone's children are      *)
(* pushed in order and the last of them is popped first.                   *)
Walk(doc) ==
    LET Children(i) == Keep([j \in DOMAIN doc.zones |-> j],
                            {j \in DOMAIN doc.zones : doc.zones[j].parent = i})
        step[k \in 0..Len(doc.zones)] ==
            IF k = 0 THEN [pending |-> Children(0), out |-> << >>]
            ELSE LET s == step[k - 1] IN
                 IF s.pending = << >> THEN s
                 ELSE [pending |-> Front(s.pending) \o Children(Last(s.pending)),
                       out     |-> Append(s.out, Last(s.pending))]
    IN  step[Len(doc.zones)].out

(* A zone id met twice keeps the parent it was last met under.             *)
Parents(doc) ==
    LET walk == Walk(doc)
        met  == [z \in Ids(doc.zones) |-> {k \in DOMAIN walk : /\ doc.zones[walk[k]].id = z
                                                               /\ doc.zones[walk[k]].parent # 0}]
    IN  [z \in {y \in Ids(doc.zones) : met[y] # {}} |->
            LET k == CHOOSE k \in met[z] : \A j \in met[z] : j <= k
            IN  doc.zones[doc.zones[walk[k]].parent].id]

(* Ancestors are followed until the root or, in a tree whose repeated ids   *)
(* close a cycle, until one is met again.                                  *)
AncestorsIn(parents, zones, z) ==
    LET up[k \in 0..Cardinality(zones)] ==
            IF k = 0 THEN {z} ELSE {parents[y] : y \in up[k - 1] \cap DOMAIN parents}
    IN  UNION {up[k] : k \in 1..Cardinality(zones)}

(* An alias goes to the first that bears it; another bearer is a duplicate. *)
Bearers(entries, n) == {entries[i].id : i \in {j \in DOMAIN entries : n \in entries[j].numeric}}
Aliases(entries) ==
    [n \in UNION {entries[i].numeric : i \in DOMAIN entries} |->
        entries[CHOOSE i \in DOMAIN entries :
                    /\ n \in entries[i].numeric
                    /\ \A j \in DOMAIN entries : n \in entries[j].numeric => i <= j].id]

(* The edges leaving a node.  Both directions of every edge are listed; a   *)
(* self-loop is one step out of its node, not two.                         *)
Adjacency(doc, n) ==
    LET step(e, far, fromSource) ==
            [node |-> doc.nodes[far].id, edge |-> e.id, weight |-> e.weight,
             from_source |-> fromSource]
        Leaving(e) ==
            (IF doc.nodes[e.source].id = n THEN {step(e, e.target, TRUE)} ELSE {})
            \cup (IF e.source # e.target /\ doc.nodes[e.target].id = n
                  THEN {step(e, e.source, FALSE)} ELSE {})
    IN  UNION {Leaving(doc.edges[i]) : i \in DOMAIN doc.edges}

Rebuild(doc) ==
    LET zones   == Ids(doc.zones)
        parents == Parents(doc)
    IN  [ doc       |-> doc,
          zones     |-> zones,
          parents   |-> parents,
          ancestors |-> [z \in zones |-> AncestorsIn(parents, zones, z)],
          policies  |-> [z \in zones |-> ParseZonePolicy(FirstNamed(doc.zones, z).props)],
          nodes     |-> [n \in Ids(doc.nodes) |-> FirstNamed(doc.nodes, n)],
          edges     |-> [e \in Ids(doc.edges) |-> FirstNamed(doc.edges, e)],
          semantics |-> [e \in Ids(doc.edges) |->
                            ParseEdgeSemantics(FirstNamed(doc.edges, e).props)],
          adjacency |-> [n \in Ids(doc.nodes) |-> Adjacency(doc, n)],
          zone_alias |-> Aliases(doc.zones),
          node_alias |-> Aliases(doc.nodes),
          edge_alias |-> Aliases(doc.edges) ]

-----------------------------------------------------------------------------
(* Lookups.                                                                *)
ZonesOfNode(index, n) ==
    IF n \in DOMAIN index.nodes THEN index.nodes[n].zones \cap index.zones ELSE {}

ZonesOfEdge(index, e) ==
    IF e \in DOMAIN index.edges
    THEN Keep(index.edges[e].zones, index.zones) ELSE << >>

EdgeZonePolicies(index, e) ==
    LET zs == ZonesOfEdge(index, e) IN [i \in DOMAIN zs |-> index.policies[zs[i]]]

Neighbors(index, n) == IF n \in DOMAIN index.adjacency THEN index.adjacency[n] ELSE {}

EffectiveSemantics(index, e) ==
    DeriveEffectiveSemantics(index.edges[e].props, EdgeZonePolicies(index, e))

(* ResourceRef::resolve_*: a UUID must exist, a number must be an alias.    *)
ResolveNode(index, ref) ==
    IF ref \in DOMAIN index.nodes THEN Some(ref)
    ELSE IF ref \in DOMAIN index.node_alias THEN Some(index.node_alias[ref]) ELSE None

(* The graph's own lookup by endpoints: an edge a -> b before an edge       *)
(* b -> a; which of several parallel ones it names is the graph's choice.  *)
EdgesJoining(index, a, b) ==
    LET at(i) == index.doc.nodes[i].id
        from(x, y) == {e \in DOMAIN index.edges :
                        at(index.edges[e].source) = x /\ at(index.edges[e].target) = y}
    IN  IF from(a, b) # {} THEN from(a, b) ELSE from(b, a)

-----------------------------------------------------------------------------
(* validation_issues: an issue is a category and what it is about.         *)
Repeated(entries) == {id \in Ids(entries) : Cardinality(Named(entries, id)) > 1}

RepeatedAliases(entries) ==
    {n \in UNION {entries[i].numeric : i \in DOMAIN entries} :
        Cardinality(Bearers(entries, n)) > 1}

ReferenceIssues(doc) ==
    [errors   |-> IF doc.local /\ ~doc.datum THEN {<<"invalid_reference", Nil>>} ELSE {},
     warnings |-> IF ~doc.local /\ doc.datum THEN {<<"ignored_reference", Nil>>} ELSE {}]

(* Mutant: aliases are taken to be unique because ids are.                 *)
IdErrorsByUuid(doc) ==
    ({"duplicate_id"} \X (Repeated(doc.zones)
        \cup ((Repeated(doc.nodes) \cup Repeated(doc.edges)) \ {Nil})))
    \cup ({"missing_id"} \X ({Nil} \cap
        (Ids(doc.zones) \cup Ids(doc.nodes) \cup Ids(doc.edges))))

IdErrors(doc) ==
    ({"duplicate_id"} \X (Repeated(doc.zones)
        \cup ((Repeated(doc.nodes) \cup Repeated(doc.edges)) \ {Nil})))
    \cup ({"duplicate_numeric_id"} \X (RepeatedAliases(doc.zones)
        \cup RepeatedAliases(doc.nodes) \cup RepeatedAliases(doc.edges)))
    \cup ({"missing_id"} \X ({Nil} \cap
        (Ids(doc.zones) \cup Ids(doc.nodes) \cup Ids(doc.edges))))

(* A zone's list of nodes is checked against the nodes' own lists, and the  *)
(* ids a node or an edge lists against the tree; a node that lists a zone   *)
(* which does not list it back draws no issue.                             *)
ZoneMembershipErrors(index) ==
    LET lists(z) == FirstNamed(index.doc.zones, z).nodes IN
    {<<"broken_membership", z>> : z \in {y \in index.zones :
        ~ lists(y) \subseteq DOMAIN index.nodes}}
    \cup {<<"inconsistent_membership", z>> : z \in {y \in index.zones :
        \E n \in lists(y) \cap DOMAIN index.nodes : y \notin index.nodes[n].zones}}

MembershipErrors(index) ==
    ZoneMembershipErrors(index)
    \cup {<<"broken_membership", n>> : n \in {m \in DOMAIN index.nodes :
            ~ index.nodes[m].zones \subseteq index.zones}}
    \cup {<<"broken_membership", e>> : e \in {f \in DOMAIN index.edges :
            ~ ToSet(index.edges[f].zones) \subseteq index.zones}}

(* An edge filed under a zone neither of its ends is in draws a warning.    *)
StrayEdgeWarnings(index) ==
    {<<"inconsistent_membership", e>> : e \in {f \in DOMAIN index.edges :
        \E z \in ToSet(index.edges[f].zones) \cap index.zones :
            /\ z \notin index.doc.nodes[index.edges[f].source].zones
            /\ z \notin index.doc.nodes[index.edges[f].target].zones}}

TrafficErrors(index) ==
    {<<"traffic_property", z>> : z \in {y \in index.zones :
        ZoneErrors(FirstNamed(index.doc.zones, y).props) # {}}}
    \cup {<<"traffic_property", e>> : e \in {f \in DOMAIN index.edges :
        EdgeErrors(index.edges[f].props) # {}}}

TrafficWarnings(index) ==
    {<<"traffic_property", z>> : z \in {y \in index.zones :
        ZoneWarning(FirstNamed(index.doc.zones, y).props)}}
    \cup {<<"traffic_property", e>> : e \in {f \in DOMAIN index.edges :
        EdgeWarning(index.edges[f].props)}}

ValidationErrors(index) ==
    ReferenceIssues(index.doc).errors \cup IdErrors(index.doc)
        \cup MembershipErrors(index) \cup TrafficErrors(index)

ValidationWarnings(index) ==
    ReferenceIssues(index.doc).warnings \cup StrayEdgeWarnings(index)
        \cup TrafficWarnings(index)

(* How deeply the tree nests, the root at depth 1.                         *)
MaxDepthOf(index) ==
    CHOOSE d \in 1..(Cardinality(index.zones) + 1) :
        /\ \A z \in index.zones : Cardinality(index.ancestors[z]) < d
        /\ \E z \in index.zones : Cardinality(index.ancestors[z]) + 1 = d

(* What set_workspace and load_index ask of an index before serving it      *)
(* (the second has no limit on depth).                                     *)
Pushable(index) == MaxDepthOf(index) <= MaxZoneDepth /\ ValidationErrors(index) = {}
Bootable(index) == ValidationErrors(index) = {}

-----------------------------------------------------------------------------
(* The lookup tables claims decide against, as a Workspace value.          *)
AsWorkspace(index) ==
    [ present   |-> index.zones \cup DOMAIN index.nodes \cup DOMAIN index.edges,
      parent    |-> [z \in Zones |-> IF z \in DOMAIN index.parents
                                     THEN index.parents[z] ELSE NoZone],
      ancestors |-> [z \in Zones |-> IF z \in index.zones
                                     THEN index.ancestors[z] ELSE {}],
      zonesOf   |-> [t \in Spatial |->
                        IF t \in Nodes THEN ZonesOfNode(index, t)
                        ELSE ToSet(ZonesOfEdge(index, t))],
      policy    |-> [z \in Zones |->
                        IF z \in index.zones
                        THEN [exclusive |-> index.policies[z].kind = "ExclusiveAccess",
                              explicit  |-> index.policies[z].capacity_is_explicit,
                              capacity  |-> index.policies[z].capacity]
                        ELSE UnknownZonePolicy],
      edgeCapacity |-> [e \in Edges |->
                        IF e \in DOMAIN index.edges
                        THEN Default(index.semantics[e].capacity, 0) ELSE 0] ]

=============================================================================
