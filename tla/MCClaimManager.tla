---------------------------- MODULE MCClaimManager ----------------------------
(* Small workspaces and callers for ClaimManager.                          *)
EXTENDS ClaimManager, TLC

CONSTANTS hall, bay, dock, lane, aisle, r1, r2, r3

MCZones  == {hall, bay}
MCNodes  == {dock, lane}
MCEdges  == {aisle}
MCRobots == {r1, r2, r3}

TwoRobots == {r1, r2}

RobotSymmetry    == Permutations(MCRobots)
TwoRobotSymmetry == Permutations(TwoRobots)

NoPolicy    == [exclusive |-> FALSE, explicit |-> FALSE, capacity |-> 1]
Capacity(n) == [exclusive |-> FALSE, explicit |-> TRUE, capacity |-> n]
Exclusive   == [exclusive |-> TRUE, explicit |-> FALSE, capacity |-> 1]

(* A bay, inside the hall or beside it: dock is in the bay, lane in the     *)
(* hall, and the aisle outside both.                                       *)
Site(bayParent, hallPolicy, bayPolicy, aisleCapacity) ==
    [ present      |-> MCZones \cup MCNodes \cup MCEdges,
      parent       |-> (hall :> NoZone @@ bay :> bayParent),
      ancestors    |-> (hall :> {} @@ bay :> {bayParent} \ {NoZone}),
      zonesOf      |-> (dock :> {bay} @@ lane :> {hall} @@ aisle :> {}),
      policy       |-> (hall :> hallPolicy @@ bay :> bayPolicy),
      edgeCapacity |-> (aisle :> aisleCapacity) ]

(* A hall for two robots around a bay for one, with an aisle for two.      *)
LayeredSite == Site(hall, Capacity(2), Exclusive, 2)

AllGround   == {{hall}, {bay}, {dock}, {lane, aisle}, {aisle}}
TwoGrounds  == {{hall}, {lane, aisle}}
NestGround  == {{hall}, {dock}}
DockGround  == {{dock}}

=============================================================================
