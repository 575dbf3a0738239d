------------------------------ MODULE Workspace ------------------------------
(***************************************************************************)
(* The map the core decides against: src/src/index.rs (WorkspaceIndex) and *)
(* the part of src/src/policy.rs that coordination reads.                  *)
(*                                                                         *)
(* An index is immutable once built, so it is a value: a record `ws' whose *)
(* fields are the lookup tables of the Rust structure.  A resource id is a *)
(* UUID, unique across zones, nodes and edges, so its kind is the set it   *)
(* belongs to and a ClaimTarget is just its id.  The universes Zones,      *)
(* Nodes and Edges may be larger than one workspace: ws.present says which *)
(* of them exist in it, so that a claim made under one workspace can be    *)
(* looked at under another.                                                *)
(***************************************************************************)
EXTENDS Integers, FiniteSets

CONSTANTS
    Zones,      \* every zone id
    Nodes,      \* every node id
    Edges,      \* every edge id
    NoZone      \* the parent of a root

Spatial   == Nodes \cup Edges
Resources == Zones \cup Spatial

ASSUME KindsAssumption ==
    /\ Zones \cap Spatial = {}
    /\ Nodes \cap Edges = {}
    /\ NoZone \notin Resources

-----------------------------------------------------------------------------
(* What parse_zone_policy can produce, reduced to the fields that claims   *)
(* consult.  A capacity is explicit only when it parsed as an integer >= 1; *)
(* otherwise it stays at the 1 of ZonePolicy::empty().                      *)
ZonePolicy ==
    { p \in [exclusive : BOOLEAN, explicit : BOOLEAN, capacity : Nat \ {0}] :
        p.explicit \/ p.capacity = 1 }

(* ZonePolicy::default(), what a lookup of an unknown zone falls back to.   *)
UnknownZonePolicy == [exclusive |-> FALSE, explicit |-> FALSE, capacity |-> 0]

IsWorkspace(ws) ==
    /\ ws.present \subseteq Resources
    /\ ws.parent \in [Zones -> Zones \cup {NoZone}]
    /\ ws.ancestors \in [Zones -> SUBSET Zones]
    /\ ws.zonesOf \in [Spatial -> SUBSET (Zones \cap ws.present)]
    /\ ws.policy \in [Zones -> ZonePolicy \cup {UnknownZonePolicy}]
    /\ ws.edgeCapacity \in [Edges -> Nat]
    /\ \A z \in Zones :
        /\ z \notin ws.ancestors[z]
        /\ ws.ancestors[z] = IF ws.parent[z] = NoZone
                             THEN {}
                             ELSE {ws.parent[z]} \cup ws.ancestors[ws.parent[z]]
        /\ z \in ws.present <=> ws.policy[z] \in ZonePolicy
        /\ z \notin ws.present => ws.parent[z] = NoZone
        /\ ws.parent[z] # NoZone => ws.parent[z] \in ws.present

-----------------------------------------------------------------------------
(* index.zone_contains: the zone itself or one of its ancestors.           *)
ZoneContains(ws, a, z) == a = z \/ a \in ws.ancestors[z]

(* zones_overlap: one contains the other.                                  *)
ZonesOverlap(ws, x, y) == ZoneContains(ws, x, y) \/ ZoneContains(ws, y, x)

(* A node or edge lies inside a zone when one of the zones it is filed      *)
(* under is that zone or a descendant of it.                               *)
Inside(ws, t, z) == \E c \in ws.zonesOf[t] : ZoneContains(ws, z, c)

(* overlapping_zone_policy, of which only the capacity is read: two equal  *)
(* zones share their policy, a parent and its child go by the child's, and *)
(* anything further apart by ZonePolicy::empty(), whose capacity is 1.     *)
OverlappingCapacity(ws, x, y) ==
    CASE x \in ws.present /\ x = y            -> ws.policy[x].capacity
      [] x \in ws.present /\ ws.parent[x] = y -> ws.policy[x].capacity
      [] y \in ws.present /\ ws.parent[y] = x -> ws.policy[y].capacity
      [] OTHER                                -> 1

(* shared_constrained_zone: both resources are filed directly under one    *)
(* zone that admits a single user.                                         *)
SharedConstrainedZone(ws, t, u) ==
    \E z \in ws.zonesOf[t] \cap ws.zonesOf[u] :
        \/ ws.policy[z].exclusive
        \/ ws.policy[z].explicit /\ ws.policy[z].capacity <= 1

(* zone_occupancy_limit: None, "any number", is Unlimited here.            *)
Limited(ws, z) == ws.policy[z].exclusive \/ ws.policy[z].explicit

OccupancyLimit(ws, z) ==
    IF ws.policy[z].exclusive THEN 1 ELSE ws.policy[z].capacity

(* targets_occupy_zone: a zone target overlapping the zone in either        *)
(* direction, or a node or edge inside it.                                 *)
TargetsOccupyZone(ws, targets, z) ==
    \/ \E t \in targets \cap Zones : ZonesOverlap(ws, t, z)
    \/ \E t \in targets \cap Spatial : Inside(ws, t, z)

(* occupied_zones: the zones a request is tested against, which are those   *)
(* it names or is filed under, and their ancestors; not the descendants of  *)
(* a zone it names.                                                        *)
OccupiedZones(ws, targets) ==
    LET named == (targets \cap Zones)
                    \cup UNION {ws.zonesOf[t] : t \in targets \cap Spatial}
    IN  named \cup UNION {ws.ancestors[z] : z \in named}

=============================================================================
