-------------------------------- MODULE MCPush -------------------------------
(***************************************************************************)
(* Documents for WorkspacePush, each standing for a real workspace whose   *)
(* index (WorkspaceIndex) says whether set_workspace loads it, which zones *)
(* it has and which of them overlap.                                       *)
(***************************************************************************)
EXTENDS WorkspacePush, TLC

MCPlaces == {"bay", "dock"}

Index == INSTANCE WorkspaceIndex WITH
    Zones <- {"site", "bay", "dock"}, Nodes <- {"n"}, Edges <- {},
    NoZone <- "none", Nil <- "nil", MaxZoneDepth <- 3

Zone(id, parent) ==
    [id |-> id, parent |-> parent, numeric |-> {}, props |-> << >>, nodes |-> {}]
Site(zones) ==
    [local |-> TRUE, datum |-> TRUE, zones |-> <<Zone("site", 0)>> \o zones,
     nodes |-> <<[id |-> "n", zones |-> {"site"}, numeric |-> {}]>>, edges |-> << >>]

Flat   == <<"flat 1", "flat 2">>
Nested == <<"nested 1", "nested 2">>
Bay    == <<"bay 1", "bay 2">>
Twice  == <<"twice">>
Large  == <<"large">>

Workspaces ==
    (Flat   :> Site(<<Zone("bay", 1), Zone("dock", 1)>>)) @@
    (Nested :> Site(<<Zone("bay", 1), Zone("dock", 2)>>)) @@
    (Bay    :> Site(<<Zone("bay", 1)>>)) @@
    (Twice  :> Site(<<Zone("bay", 1), Zone("bay", 1)>>)) @@
    (Large  :> Site(<< >>))

MCDocuments == DOMAIN Workspaces
MCSlices    == UNION {{d[i] : i \in DOMAIN d} : d \in MCDocuments}
MCSize      == [s \in MCSlices |-> IF s = "large" THEN 4 ELSE 1]

MCPushes == ((MCDocuments \ {Flat}) \X {"operator"}) \cup {<<Nested, "other">>}

CONSTANTS c1, c2
MCPushBound == (c1 :> 2) @@ (c2 :> 1)

Symmetry == Permutations(Robots)

Indexes   == [d \in MCDocuments |-> Index!Rebuild(Workspaces[d])]
MCRefused == {d \in MCDocuments : ~ Index!Pushable(Indexes[d])}

MCPresent == {<<d, p>> \in MCDocuments \X MCPlaces : p \in Indexes[d].zones}
MCOverlap ==
    {<<d, p, q>> \in MCDocuments \X MCPlaces \X MCPlaces :
        Index!ZonesOverlap(Index!AsWorkspace(Indexes[d]), p, q)}

=============================================================================
