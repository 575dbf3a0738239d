------------------------------ MODULE ClaimRules ------------------------------
(***************************************************************************)
(* When two claims may stand side by side, and when a request is granted:  *)
(* the decision procedure of src/src/claim/manager.rs, as pure operators.  *)
(*                                                                         *)
(* A hold is any record with the fields robot, mode, start, end, targets:  *)
(* a request or a lease.  Windows are closed intervals of ticks.  A window *)
(* with no start begins at 0 and one with no end ends at Forever, which is *)
(* what claim_windows_overlap substitutes for the missing bounds.          *)
(***************************************************************************)
EXTENDS Workspace

CONSTANT Forever      \* u64::MAX, the end of an open window

ASSUME ForeverAssumption == Forever \in Nat

Modes == {"shared", "exclusive"}

-----------------------------------------------------------------------------
(* Windows that only touch count as apart.                                  *)
WindowsProperlyOverlap(a, b) == a.start < b.end /\ b.start < a.end

(* claim_windows_overlap, inclusive at both ends.                          *)
WindowsOverlap(a, b) == a.start <= b.end /\ b.start <= a.end

BothShared(a, b) == a.mode = "shared" /\ b.mode = "shared"

(* zone_claims_compatible_with_index.                                      *)
ZoneClaimsCompatible(ws, a, b) ==
    \A x \in a.targets \cap Zones, y \in b.targets \cap Zones :
        ZonesOverlap(ws, x, y) /\ WindowsOverlap(a, b)
            => BothShared(a, b) /\ OverlappingCapacity(ws, x, y) > 1

(* The same resource refused to exclusive requesters only.                  *)
SpatialRequesterOnly(ws, a, b, kind) ==
    \A x \in a.targets \cap kind, y \in b.targets \cap kind :
        WindowsOverlap(a, b)
            => IF x = y THEN a.mode = "shared"
                        ELSE ~SharedConstrainedZone(ws, x, y)

(* spatial_claims_compatible_with_index, for one kind of resource: the same *)
(* resource is shared only between sharers, and two resources of one zone   *)
(* that admits a single user exclude each other.                           *)
SpatialClaimsCompatible(ws, a, b, kind) ==
    \A x \in a.targets \cap kind, y \in b.targets \cap kind :
        WindowsOverlap(a, b)
            => IF x = y THEN BothShared(a, b)
                        ELSE ~SharedConstrainedZone(ws, x, y)

(* zone_vs_spatial_compatible: claiming a zone reserves what is inside it.  *)
ZoneVsSpatialCompatible(ws, a, b) ==
    \A z \in a.targets \cap Zones, t \in b.targets \cap Spatial :
        Inside(ws, t, z) /\ WindowsOverlap(a, b)
            => BothShared(a, b) /\ ws.policy[z].capacity > 1

(* The bridge rule is only half of the check: a zone claim against what the *)
(* other side holds inside it, and not the other way round.                *)
BridgeOneWay(ws, a, b) == ZoneVsSpatialCompatible(ws, a, b)

(* cross_level_compatible_with_index, both directions.                     *)
CrossLevelCompatible(ws, a, b) ==
    /\ ZoneVsSpatialCompatible(ws, a, b)
    /\ ZoneVsSpatialCompatible(ws, b, a)

(* claims_compatible_for_index, with an index bound.                       *)
Compatible(ws, a, b) ==
    /\ ZoneClaimsCompatible(ws, a, b)
    /\ SpatialClaimsCompatible(ws, a, b, Nodes)
    /\ SpatialClaimsCompatible(ws, a, b, Edges)
    /\ CrossLevelCompatible(ws, a, b)

(* lease_as_request_view: the conflict check reads a lease as a claim from  *)
(* the beginning of time to its expiry.                                    *)
LeaseView(l) == [l EXCEPT !.start = 0]

-----------------------------------------------------------------------------
(* Capacity.  Occupancy counts robots, the requester included, and ignores  *)
(* holds whose window does not meet the request's.                         *)
Competing(q, holds) ==
    { h \in holds : h.robot # q.robot /\ WindowsOverlap(q, h) }

(* The edge check that forgets to count the requester.                      *)
EdgeOthersOnly(ws, q, holds) ==
    q.mode = "shared" =>
        \A e \in q.targets \cap Edges :
            ws.edgeCapacity[e] > 1 =>
                Cardinality({h.robot : h \in { g \in Competing(q, holds) :
                                g.mode = "shared" /\ e \in g.targets }})
                    <= ws.edgeCapacity[e]

(* first_edge_capacity_violation = None: only shared claims of edges whose  *)
(* explicit capacity is above one are counted.                             *)
EdgeCapacityRespected(ws, q, holds) ==
    q.mode = "shared" =>
        \A e \in q.targets \cap Edges :
            ws.edgeCapacity[e] > 1 =>
                LET others == { h \in Competing(q, holds) :
                                    h.mode = "shared" /\ e \in h.targets }
                IN  Cardinality({h.robot : h \in others} \cup {q.robot})
                        <= ws.edgeCapacity[e]

(* The occupancy check without ancestors: only the zones a request names.   *)
OccupancyNamedOnly(ws, q, holds) ==
    \A z \in q.targets \cap Zones :
        Limited(ws, z) =>
            LET others == { h \in Competing(q, holds) :
                                TargetsOccupyZone(ws, h.targets, z) }
            IN  Cardinality({h.robot : h \in others} \cup {q.robot})
                    <= OccupancyLimit(ws, z)

(* first_occupancy_violation = None.                                       *)
OccupancyRespected(ws, q, holds) ==
    \A z \in OccupiedZones(ws, q.targets) :
        Limited(ws, z) =>
            LET others == { h \in Competing(q, holds) :
                                TargetsOccupyZone(ws, h.targets, z) }
            IN  Cardinality({h.robot : h \in others} \cup {q.robot})
                    <= OccupancyLimit(ws, z)

-----------------------------------------------------------------------------
(* The decision with the skip of a robot's own claims left out.             *)
SelfCompetingDecision(ws, requests, leases, q) ==
    /\ q.targets # {}
    /\ q.targets \subseteq ws.present
    /\ \A r \in requests : r.id # q.id => Compatible(ws, q, r)
    /\ \A l \in leases : l.robot # q.robot => Compatible(ws, q, LeaseView(l))
    /\ EdgeCapacityRespected(ws, q, requests \cup leases)
    /\ OccupancyRespected(ws, q, requests \cup leases)

(* The decision that looks at requests and forgets the leases.              *)
LeaselessDecision(ws, requests, leases, q) ==
    LET others == {r \in requests : r.id # q.id}
    IN  /\ q.targets # {}
        /\ q.targets \subseteq ws.present
        /\ \A r \in others : r.robot # q.robot => Compatible(ws, q, r)
        /\ EdgeCapacityRespected(ws, q, others)
        /\ OccupancyRespected(ws, q, others)

(* evaluate_request = Grant.  A robot does not compete with itself, and a   *)
(* request is not compared with an entry that carries its own id.          *)
Granted(ws, requests, leases, q) ==
    LET others == {r \in requests : r.id # q.id}
    IN  /\ q.targets # {}
        /\ q.targets \subseteq ws.present
        /\ \A r \in others : r.robot # q.robot => Compatible(ws, q, r)
        /\ \A l \in leases : l.robot # q.robot => Compatible(ws, q, LeaseView(l))
        /\ EdgeCapacityRespected(ws, q, others \cup leases)
        /\ OccupancyRespected(ws, q, others \cup leases)

=============================================================================
