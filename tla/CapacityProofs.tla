---------------------------- MODULE CapacityProofs ----------------------------
(***************************************************************************)
(* Edges and zones never carry more robots than they admit, for every      *)
(* workspace, fleet and caller; and what follows from all the invariants   *)
(* together: the ledger is a table of locks.                               *)
(*                                                                         *)
(* Evaluation counts the robots whose windows meet a request's, once, when *)
(* it is made.  The ledger keeps a bound on every instant (Room): at an    *)
(* instant the request covers, whoever is there too has a window that      *)
(* meets it, and so was counted; at any other nothing changes.  An         *)
(* exclusive claim of an edge is not counted at all: it is compatible with *)
(* nobody else's, so it is alone (AllCompatible).                          *)
(***************************************************************************)
EXTENDS ClaimManagerProofs

(* Targets that put their holder inside a zone.                            *)
Enters(targets, z) ==
    \/ \E x \in targets \cap Zones : ZoneContains(World, z, x)
    \/ \E u \in targets \cap Spatial : Inside(World, u, z)

OnEdge(hs, e, t) == {h.robot : h \in {g \in hs : Covers(g, t) /\ e \in g.targets}}
InZone(hs, z, t) == {h.robot : h \in {g \in hs : Covers(g, t) /\ Enters(g.targets, z)}}

EdgeRoom(hs) ==
    \A e \in Edges : World.edgeCapacity[e] > 1 =>
        \A t \in Nat : Cardinality(OnEdge(hs, e, t)) <= World.edgeCapacity[e]

ZoneRoom(hs) ==
    \A z \in Zones : Limited(World, z) =>
        \A t \in Nat : Cardinality(InZone(hs, z, t)) <= OccupancyLimit(World, z)

Room(hs) == IsFiniteSet(hs) /\ EdgeRoom(hs) /\ ZoneRoom(hs)

-----------------------------------------------------------------------------
(* Counting.                                                               *)
LEMMA RobotsAreFinite ==
    ASSUME NEW hs, IsFiniteSet(hs), NEW some, some \subseteq hs
    PROVE  IsFiniteSet({h.robot : h \in some})
<1> DEFINE T == {h.robot : h \in some}
           f == [h \in some |-> h.robot]
<1>1. IsFiniteSet(some)
  BY FS_Subset
<1>2. f \in Surjection(some, T)
  BY DEF Surjection
<1> HIDE DEF f, T
<1>3. IsFiniteSet(T)
  BY <1>1, <1>2, FS_Surjection
<1> QED BY <1>3 DEF T

LEMMA FewerAreNoMore ==
    ASSUME NEW S, IsFiniteSet(S), NEW T, T \subseteq S, NEW n \in Nat, Cardinality(S) <= n
    PROVE  Cardinality(T) <= n
<1>1. Cardinality(T) \in Nat /\ Cardinality(S) \in Nat /\ Cardinality(T) <= Cardinality(S)
  BY FS_Subset, FS_CardinalityType
<1> QED BY <1>1

LEMMA LimitsAreCounts ==
    /\ \A e \in Edges : World.edgeCapacity[e] \in Nat
    /\ \A z \in Zones : Limited(World, z) =>
           OccupancyLimit(World, z) \in Nat /\ OccupancyLimit(World, z) >= 1
<1>1. IsWorkspace(World)
  BY ManagerAssumption
<1>2. \A e \in Edges : World.edgeCapacity[e] \in Nat
  BY <1>1 DEF IsWorkspace
<1>3. ASSUME NEW z \in Zones, Limited(World, z)
      PROVE  OccupancyLimit(World, z) \in Nat /\ OccupancyLimit(World, z) >= 1
  <2>1. World.policy[z] \in ZonePolicy \cup {UnknownZonePolicy}
    BY <1>1 DEF IsWorkspace
  <2>2. World.policy[z] \in ZonePolicy
    BY <1>3, <2>1 DEF Limited, UnknownZonePolicy
  <2>3. World.policy[z].capacity \in Nat \ {0}
    BY <2>2 DEF ZonePolicy
  <2> QED BY <2>3 DEF OccupancyLimit
<1> QED BY <1>2, <1>3

-----------------------------------------------------------------------------
(* Holds that are each within one that was there need no more room.        *)
Within(h, g) ==
    /\ g.robot = h.robot /\ g.targets = h.targets
    /\ \A t \in Nat : Covers(h, t) => Covers(g, t)

LEMMA WithinKeepsRoom ==
    ASSUME NEW hs, Room(hs), NEW more, IsFiniteSet(more),
           \A h \in more : \E g \in hs : Within(h, g)
    PROVE  Room(more)
<1>1. ASSUME NEW e \in Edges, World.edgeCapacity[e] > 1, NEW t \in Nat
      PROVE  Cardinality(OnEdge(more, e, t)) <= World.edgeCapacity[e]
  <2>1. OnEdge(more, e, t) \subseteq OnEdge(hs, e, t)
    BY DEF OnEdge, Within
  <2>2. IsFiniteSet(OnEdge(hs, e, t))
    BY RobotsAreFinite DEF Room, OnEdge
  <2> QED BY <1>1, <2>1, <2>2, LimitsAreCounts, FewerAreNoMore DEF Room, EdgeRoom
<1>2. ASSUME NEW z \in Zones, Limited(World, z), NEW t \in Nat
      PROVE  Cardinality(InZone(more, z, t)) <= OccupancyLimit(World, z)
  <2>1. InZone(more, z, t) \subseteq InZone(hs, z, t)
    BY DEF InZone, Within
  <2>2. IsFiniteSet(InZone(hs, z, t))
    BY RobotsAreFinite DEF Room, InZone
  <2> QED BY <1>2, <2>1, <2>2, LimitsAreCounts, FewerAreNoMore DEF Room, ZoneRoom
<1> QED BY <1>1, <1>2 DEF Room, EdgeRoom, ZoneRoom

LEMMA FewerKeepRoom ==
    ASSUME NEW hs, Room(hs), NEW more, more \subseteq hs
    PROVE  Room(more)
<1>1. IsFiniteSet(more)
  BY FS_Subset DEF Room
<1>2. \A h \in more : Within(h, h)
  BY DEF Within
<1> QED BY <1>1, <1>2, WithinKeepsRoom

LEMMA NothingHasRoom == Room({})
<1>1. IsFiniteSet({}) /\ Cardinality({}) = 0
  BY FS_EmptySet
<1>2. \A e, t : OnEdge({}, e, t) = {}
  BY DEF OnEdge
<1>3. \A z, t : InZone({}, z, t) = {}
  BY DEF InZone
<1> QED BY <1>1, <1>2, <1>3, LimitsAreCounts DEF Room, EdgeRoom, ZoneRoom

-----------------------------------------------------------------------------
(* The zones that evaluation counts are all those a request would put its   *)
(* robot in, and it counts everybody who is in them (occupied_zones,       *)
(* targets_occupy_zone).                                                   *)
LEMMA EnteredIsCounted ==
    ASSUME NEW targets, targets \subseteq Resources, NEW z \in Zones, Enters(targets, z)
    PROVE  z \in OccupiedZones(World, targets) /\ TargetsOccupyZone(World, targets, z)
<1>1. CASE \E x \in targets \cap Zones : ZoneContains(World, z, x)
  BY <1>1 DEF OccupiedZones, TargetsOccupyZone, ZonesOverlap, ZoneContains
<1>2. CASE \E u \in targets \cap Spatial : Inside(World, u, z)
  BY <1>2 DEF OccupiedZones, TargetsOccupyZone, Inside, ZoneContains
<1> QED BY <1>1, <1>2 DEF Enters

(* A granted request finds room for one robot more wherever it goes.       *)
LEMMA GrantKeepsRoom ==
    ASSUME NEW rs, rs \subseteq Request, NEW ls, ls \subseteq Lease, Room(rs \cup ls),
           NEW q \in Request, q.id \notin {r.id : r \in rs}, Granted(World, rs, ls, q),
           NEW c, c.robot = q.robot, c.mode = q.mode, c.targets = q.targets,
           c.start = q.start, c.end = q.end,
           NEW more, more \subseteq (rs \cup ls) \cup {c}
    PROVE  Room(more)
<1> DEFINE hs == rs \cup ls
<1>1. /\ IsFiniteSet(hs)
      /\ \A h \in hs : IsHold(h)
      /\ IsHold(q)
      /\ {r \in rs : r.id # q.id} \cup ls = hs
  BY RequestIsHold, LeaseIsHold DEF Room
<1>2. \A h \in hs : h.robot # q.robot => Compatible(World, q, h)
  BY GrantedIsCompatible
<1>3. EdgeCapacityRespected(World, q, hs) /\ OccupancyRespected(World, q, hs)
  BY <1>1 DEF Granted
<1>4. \A t \in Nat : Covers(c, t) => Covers(q, t)
  BY DEF Covers
<1>5. EdgeRoom(hs) /\ ZoneRoom(hs)
  BY DEF Room
<1>6. IsFiniteSet(more)
  BY <1>1, FS_AddElement, FS_Subset
<1> HIDE DEF hs
<1>7. more \subseteq hs \cup {c}
  BY DEF hs
<1>8. ASSUME NEW e \in Edges, World.edgeCapacity[e] > 1, NEW t \in Nat
      PROVE  Cardinality(OnEdge(more, e, t)) <= World.edgeCapacity[e]
  <2> DEFINE others == {h \in Competing(q, hs) : h.mode = "shared" /\ e \in h.targets}
  <2>1. World.edgeCapacity[e] \in Nat
    BY LimitsAreCounts
  <2>2. CASE ~(Covers(c, t) /\ e \in c.targets)
    <3>1. OnEdge(more, e, t) \subseteq OnEdge(hs, e, t)
      BY <1>7, <2>2 DEF OnEdge
    <3>2. IsFiniteSet(OnEdge(hs, e, t))
      BY <1>1, RobotsAreFinite DEF OnEdge
    <3> QED BY <1>5, <1>8, <2>1, <3>1, <3>2, FewerAreNoMore DEF EdgeRoom
  <2>3. ASSUME Covers(c, t), e \in c.targets,
               NEW h \in hs, Covers(h, t), e \in h.targets, h.robot # q.robot
        PROVE  h \in others /\ q.mode = "shared"
    <3>1. WindowsOverlap(q, h)
      BY <1>1, <1>4, <2>3, CoveredInstantsOverlap
    <3>2. BothShared(q, h)
      BY <1>1, <1>2, <2>3, <3>1, CompatibleExcludes
    <3> QED BY <2>3, <3>1, <3>2 DEF Competing, BothShared
  <2>4. CASE Covers(c, t) /\ e \in c.targets /\ q.mode = "shared"
    <3> DEFINE counted == {h.robot : h \in others} \cup {q.robot}
    <3>1. OnEdge(more, e, t) \subseteq counted
      BY <1>7, <2>3, <2>4 DEF OnEdge
    <3>2. Cardinality(counted) <= World.edgeCapacity[e]
      BY <1>3, <1>8, <2>4 DEF EdgeCapacityRespected
    <3>3. IsFiniteSet(counted)
      <4>1. others \subseteq hs
        BY DEF Competing
      <4>2. IsFiniteSet({h.robot : h \in others})
        BY <1>1, <4>1, RobotsAreFinite
      <4> QED BY <4>2, FS_AddElement
    <3> QED BY <2>1, <3>1, <3>2, <3>3, FewerAreNoMore
  <2>5. CASE Covers(c, t) /\ e \in c.targets /\ q.mode # "shared"
    <3>1. OnEdge(more, e, t) \subseteq {q.robot}
      BY <1>7, <2>3, <2>5 DEF OnEdge
    <3>2. IsFiniteSet({q.robot}) /\ Cardinality({q.robot}) = 1
      BY FS_Singleton
    <3>3. 1 <= World.edgeCapacity[e]
      BY <1>8, <2>1
    <3> QED BY <2>1, <3>1, <3>2, <3>3, FewerAreNoMore
  <2> QED BY <2>2, <2>4, <2>5
<1>9. ASSUME NEW z \in Zones, Limited(World, z), NEW t \in Nat
      PROVE  Cardinality(InZone(more, z, t)) <= OccupancyLimit(World, z)
  <2> DEFINE others == {h \in Competing(q, hs) : TargetsOccupyZone(World, h.targets, z)}
             counted == {h.robot : h \in others} \cup {q.robot}
  <2>1. OccupancyLimit(World, z) \in Nat
    BY <1>9, LimitsAreCounts
  <2>2. CASE ~(Covers(c, t) /\ Enters(c.targets, z))
    <3>1. InZone(more, z, t) \subseteq InZone(hs, z, t)
      BY <1>7, <2>2 DEF InZone
    <3>2. IsFiniteSet(InZone(hs, z, t))
      BY <1>1, RobotsAreFinite DEF InZone
    <3> QED BY <1>5, <1>9, <2>1, <3>1, <3>2, FewerAreNoMore DEF ZoneRoom
  <2>3. CASE Covers(c, t) /\ Enters(c.targets, z)
    <3>1. ASSUME NEW h \in hs, Covers(h, t), Enters(h.targets, z), h.robot # q.robot
          PROVE  h \in others
      <4>1. WindowsOverlap(q, h)
        BY <1>1, <1>4, <2>3, <3>1, CoveredInstantsOverlap
      <4>2. TargetsOccupyZone(World, h.targets, z)
        BY <1>1, <3>1, EnteredIsCounted DEF IsHold
      <4> QED BY <3>1, <4>1, <4>2 DEF Competing
    <3>2. InZone(more, z, t) \subseteq counted
      BY <1>7, <3>1 DEF InZone
    <3>3. z \in OccupiedZones(World, q.targets)
      BY <1>1, <2>3, EnteredIsCounted DEF IsHold
    <3>4. Cardinality(counted) <= OccupancyLimit(World, z)
      BY <1>3, <1>9, <3>3 DEF OccupancyRespected
    <3>5. IsFiniteSet(counted)
      <4>1. others \subseteq hs
        BY DEF Competing
      <4>2. IsFiniteSet({h.robot : h \in others})
        BY <1>1, <4>1, RobotsAreFinite
      <4> QED BY <4>2, FS_AddElement
    <3> QED BY <2>1, <3>2, <3>4, <3>5, FewerAreNoMore
  <2> QED BY <2>2, <2>3
<1> QED BY <1>6, <1>8, <1>9 DEF Room, EdgeRoom, ZoneRoom

-----------------------------------------------------------------------------
(* The ledger keeps room.                                                  *)
CapacityInv == IInv /\ Room(Holds)

LEMMA ClaimKeepsRoom ==
    ASSUME CapacityInv, MaxMint < IdCeiling,
           NEW robot \in Robots, NEW mode \in Modes,
           NEW targets, targets \subseteq Resources,
           NEW w, w.start \in Nat, w.end \in Nat,
           Claim(robot, mode, targets, w)
    PROVE  Room(Holds')
<1> DEFINE id == MintedId(requests, leases, nextId)
           q  == ClaimRecord(id, robot, mode, targets, w.start, w.end)
<1>1. PICK n \in Nat :
         /\ q \in Request
         /\ id \in 1..IdCeiling /\ id <= MaxMint
         /\ \/ requests' = requests
            \/ /\ Granted(World, requests, leases, q)
               /\ requests' \subseteq requests \cup {[q EXCEPT !.slot = n]}
  BY ClaimShape DEF CapacityInv, IInv
<1>2. leases' = leases
  BY DEF Claim
<1>3. q.id = id
  BY DEF ClaimRecord
<1>4. q.id \notin {r.id : r \in requests}
  BY <1>1, <1>3, FreshId DEF CapacityInv, IInv, TypeOK
<1> HIDE DEF q, id
<1>5. CASE requests' = requests
  BY <1>2, <1>5 DEF CapacityInv, Holds
<1>6. CASE /\ Granted(World, requests, leases, q)
           /\ requests' \subseteq requests \cup {[q EXCEPT !.slot = n]}
  <2> DEFINE c == [q EXCEPT !.slot = n]
  <2>1. /\ c.robot = q.robot /\ c.mode = q.mode /\ c.targets = q.targets
        /\ c.start = q.start /\ c.end = q.end
    BY <1>1, SlotIsNoGround
  <2>2. Holds' \subseteq (requests \cup leases) \cup {c}
    BY <1>2, <1>6 DEF Holds
  <2>3. requests \subseteq Request /\ leases \subseteq Lease /\ Room(requests \cup leases)
    BY DEF CapacityInv, IInv, TypeOK, Holds
  <2> HIDE DEF c
  <2> QED BY <1>1, <1>4, <1>6, <2>1, <2>2, <2>3, GrantKeepsRoom
<1> QED BY <1>1, <1>5, <1>6

LEMMA GrantLeaseKeepsRoom ==
    ASSUME CapacityInv, TypeOK', NEW r \in requests, NEW id, NEW claim, NEW end,
           GrantLease(r, id, claim, end)
    PROVE  Room(Holds')
<1> DEFINE lease == [id |-> id, claim |-> claim, robot |-> r.robot,
                     mode |-> r.mode, start |-> r.start, end |-> end,
                     targets |-> r.targets]
<1>1. /\ end <= r.end
      /\ lease \in leases'
      /\ leases' \subseteq leases \cup {lease}
      /\ requests' = requests
  BY DEF GrantLease, AddLease
<1>2. /\ lease.robot = r.robot /\ lease.targets = r.targets
      /\ lease.start = r.start /\ lease.end = end
  OBVIOUS
<1> HIDE DEF lease
<1>3. IsHold(lease) /\ IsHold(r)
  BY <1>1, LeaseIsHold, RequestIsHold DEF TypeOK, CapacityInv, IInv
<1>4. Within(lease, r)
  BY <1>1, <1>2, <1>3 DEF Within, Covers, IsHold
<1>5. Holds' \subseteq Holds \cup {lease} /\ r \in Holds
  BY <1>1 DEF Holds
<1>6. IsFiniteSet(Holds')
  BY <1>5, FS_AddElement, FS_Subset DEF CapacityInv, Room
<1>7. \A h \in Holds : Within(h, h)
  BY DEF Within
<1> QED BY <1>4, <1>5, <1>6, <1>7, WithinKeepsRoom DEF CapacityInv

LEMMA RefreshKeepsRoom ==
    ASSUME CapacityInv, TypeOK', Reevaluate, NEW l \in leases, NEW end \in Nat,
           RefreshLease(l, end)
    PROVE  Room(Holds')
<1> DEFINE lease == [l EXCEPT !.end = end]
           q == ClaimRecord(0, l.robot, l.mode, l.targets, l.start, end)
<1>1. l \in Lease /\ requests \subseteq Request /\ leases \subseteq Lease
  BY DEF CapacityInv, IInv, TypeOK
<1>2. /\ lease.robot = l.robot /\ lease.mode = l.mode
      /\ lease.targets = l.targets
      /\ lease.start = l.start /\ lease.end = end
  BY <1>1 DEF Lease
<1>3. /\ q.id = 0 /\ q.robot = l.robot /\ q.mode = l.mode
      /\ q.targets = l.targets
      /\ q.start = l.start /\ q.end = end
      /\ q \in Request
  BY <1>1 DEF ClaimRecord, Lease, Request
<1>4. /\ l.end < end => Granted(World, requests, leases, q)
      /\ leases' \subseteq leases \cup {lease}
      /\ requests' = requests
  BY DEF RefreshLease, ClaimRecord
<1> HIDE DEF lease, q
<1>5. Holds' \subseteq (requests \cup leases) \cup {lease} /\ l \in Holds
  BY <1>4 DEF Holds
<1>6. l.end \in Nat
  BY <1>1 DEF Lease
<1>7. CASE end <= l.end
  <2>1. Within(lease, l)
    BY <1>2, <1>6, <1>7 DEF Within, Covers
  <2>2. IsFiniteSet(Holds')
    BY <1>5, FS_AddElement, FS_Subset DEF CapacityInv, Room, Holds
  <2>3. \A h \in Holds : Within(h, h)
    BY DEF Within
  <2> QED BY <1>5, <2>1, <2>2, <2>3, WithinKeepsRoom DEF CapacityInv, Holds
<1>8. CASE l.end < end
  <2>1. q.id \notin {r.id : r \in requests}
    BY <1>3 DEF CapacityInv, IInv, TypeOK, LiveIds
  <2> QED BY <1>1, <1>2, <1>3, <1>4, <1>5, <1>8, <2>1, GrantKeepsRoom
          DEF CapacityInv, Holds
<1> QED BY <1>6, <1>7, <1>8

LEMMA NextCapacityInv ==
    ASSUME CapacityInv, [Next]_vars, MaxMint < IdCeiling, Reevaluate
    PROVE  CapacityInv'
<1>1. IInv' /\ TypeOK'
  BY NextIInv DEF CapacityInv, IInv
<1> SUFFICES Room(Holds')
  BY <1>1 DEF CapacityInv, Room, EdgeRoom, ZoneRoom, OnEdge, InZone, Covers, Enters
<1>2. ASSUME requests' \subseteq requests, leases' \subseteq leases
      PROVE  Room(Holds')
  BY <1>2, FewerKeepRoom DEF CapacityInv, Holds
<1>3. CASE RequestStep
  <2>1. ASSUME NEW robot \in Robots, NEW mode \in Modes, NEW targets \in GroundSets,
               NEW w \in Windows(now), Claim(robot, mode, targets, w)
        PROVE  Room(Holds')
    BY <2>1, CallsAreWellFormed, ClaimKeepsRoom DEF CapacityInv, IInv
  <2>2. ASSUME NEW robot \in Robots, NEW resource \in Resources, Release(robot, resource)
        PROVE  Room(Holds')
    BY <1>2, <2>2 DEF Release
  <2>3. ASSUME NEW r \in requests, RemoveRequest(r)
        PROVE  Room(Holds')
    BY <1>2, <2>3 DEF RemoveRequest
  <2> QED BY <1>3, <2>1, <2>2, <2>3 DEF RequestStep
<1>4. CASE LeaseStep
  <2>1. \A length \in Lengths : now + length \in Nat
    BY ManagerAssumption DEF CapacityInv, IInv, TypeOK
  <2>2. ASSUME NEW r \in requests, NEW id, NEW claim, NEW end,
               GrantLease(r, id, claim, end)
        PROVE  Room(Holds')
    BY <1>1, <2>2, GrantLeaseKeepsRoom
  <2>3. ASSUME NEW l \in leases, NEW length \in Lengths, RefreshLease(l, now + length)
        PROVE  Room(Holds')
    BY <1>1, <2>1, <2>3, RefreshKeepsRoom
  <2>4. ASSUME NEW l \in leases, NEW reason, EndLease(l, reason)
        PROVE  Room(Holds')
    BY <1>2, <2>4 DEF EndLease
  <2>5. ASSUME NEW l \in leases, RemoveLease(l)
        PROVE  Room(Holds')
    BY <1>2, <2>5 DEF RemoveLease
  <2> QED BY <1>4, <2>2, <2>3, <2>4, <2>5 DEF LeaseStep
<1>5. ASSUME NEW robot \in Robots, RemoveRobot(robot)
      PROVE  Room(Holds')
  BY <1>2, <1>5 DEF RemoveRobot, WithoutRobot
<1>6. CASE ExpireClaims
  BY <1>2, <1>6 DEF ExpireClaims, Unexpired
<1>7. CASE Clear
  BY <1>2, <1>7 DEF Clear
<1>8. CASE Tick \/ UNCHANGED vars
  BY <1>2, <1>8 DEF Tick, vars, ledger
<1> QED BY <1>3, <1>4, <1>5, <1>6, <1>7, <1>8 DEF Next

LEMMA CapacityInvariance ==
    ASSUME MaxMint < IdCeiling, Reevaluate
    PROVE  Spec => []CapacityInv
<1>1. Init => CapacityInv
  <2> SUFFICES ASSUME Init PROVE CapacityInv
    OBVIOUS
  <2>1. IInv /\ Holds = {}
    BY InitTypeOK DEF Init, IInv, AllCompatible, Holds
  <2> QED BY <2>1, NothingHasRoom DEF CapacityInv
<1>2. CapacityInv /\ [Next]_vars => CapacityInv'
  BY NextCapacityInv
<1> QED BY <1>1, <1>2, PTL DEF Spec

LEMMA RoomRespectsLimits ==
    ASSUME TypeOK, Room(Holds)
    PROVE  EdgeCapacity /\ ZoneCapacity
<1>1. Instants \subseteq Nat
  BY InstantsAreTicks
<1>2. \A z, t : Present(z, t) = InZone(Holds, z, t)
  BY DEF Present, InZone, Enters
<1> QED BY <1>1, <1>2 DEF Room, EdgeRoom, ZoneRoom, OnEdge, EdgeCapacity, ZoneCapacity

(* An edge with a capacity of its own never carries more robots than that   *)
(* at one instant, for every workspace, fleet, window and order of calls    *)
(* (first_edge_capacity_violation), as long as the id counter is not used   *)
(* up and callers have a lease's extension evaluated.                      *)
THEOREM EdgeCapacityHolds ==
    ASSUME MaxMint < IdCeiling, Reevaluate
    PROVE  Spec => []EdgeCapacity
<1>1. CapacityInv => EdgeCapacity
  BY RoomRespectsLimits DEF CapacityInv, IInv
<1> QED BY <1>1, CapacityInvariance, PTL

(* A zone never admits more robots at one instant than its policy says,     *)
(* counting those on anything below it, from the same assumptions           *)
(* (first_occupancy_violation, occupied_zones).                            *)
THEOREM ZoneCapacityHolds ==
    ASSUME MaxMint < IdCeiling, Reevaluate
    PROVE  Spec => []ZoneCapacity
<1>1. CapacityInv => ZoneCapacity
  BY RoomRespectsLimits DEF CapacityInv, IInv
<1> QED BY <1>1, CapacityInvariance, PTL

-----------------------------------------------------------------------------
(* The ledger is a table of locks.                                         *)
LEMMA ARight ==
    ASSUME NEW hs, NEW p \in Rights(hs)
    PROVE  \E h \in hs :
              /\ p.on \in h.targets /\ p.robot = h.robot /\ p.mode = h.mode
              /\ p.start = h.start /\ p.end = h.end
<1>1. PICK h \in hs : p \in RightsOf(h)
  BY DEF Rights
<1>2. PICK x \in h.targets :
         p = [robot |-> h.robot, on |-> x, mode |-> h.mode,
              start |-> h.start, end |-> h.end]
  BY <1>1 DEF RightsOf
<1> QED BY <1>2

(* The two modules count alike.                                            *)
LEMMA CountsAlike == \A S : Locks!Cardinality(S) = Cardinality(S)
BY DEF Cardinality, Locks!Cardinality

LEMMA LimitsAreRoom ==
    ASSUME NEW hs, \A h \in hs : IsHold(h), Room(hs), NEW x \in LimitedResources, NEW t \in Nat
    PROVE  Cardinality(Locks!Users(Rights(hs), x, t)) <= Limit[x]
<1> DEFINE users == Locks!Users(Rights(hs), x, t)
<1>1. ASSUME NEW n \in users
      PROVE  \E h \in hs : Covers(h, t) /\ h.robot = n /\ h.targets \cap Counted[x] # {}
  <2>1. PICK p \in Rights(hs) :
          p.start <= t /\ t <= p.end /\ p.on \in Counted[x] /\ p.robot = n
    BY <1>1 DEF Locks!Users
  <2>2. PICK h \in hs :
          /\ p.on \in h.targets /\ p.robot = h.robot
          /\ p.start = h.start /\ p.end = h.end
    BY ARight
  <2> QED BY <2>1, <2>2 DEF Covers
<1>2. CASE x \in Zones
  <2>1. Limited(World, x) /\ Limit[x] = OccupancyLimit(World, x)
    BY <1>2, KindsAssumption DEF LimitedResources, Limit, Spatial
  <2>2. ASSUME NEW h, h.targets \cap Counted[x] # {}
        PROVE  Enters(h.targets, x)
    BY <1>2, <2>2 DEF Counted, Enters
  <2>3. users \subseteq InZone(hs, x, t)
    BY <1>1, <2>2 DEF InZone
  <2>4. IsFiniteSet(InZone(hs, x, t))
    BY RobotsAreFinite DEF Room, InZone
  <2>5. /\ Cardinality(InZone(hs, x, t)) <= OccupancyLimit(World, x)
        /\ OccupancyLimit(World, x) \in Nat
    BY <1>2, <2>1, LimitsAreCounts DEF Room, ZoneRoom
  <2> HIDE DEF users
  <2>6. Cardinality(users) <= OccupancyLimit(World, x)
    BY <2>3, <2>4, <2>5, FewerAreNoMore
  <2> QED BY <2>1, <2>6 DEF users
<1>3. CASE x \notin Zones
  <2>1. x \in Edges /\ World.edgeCapacity[x] > 1 /\ Limit[x] = World.edgeCapacity[x]
    BY <1>3 DEF LimitedResources, Limit
  <2>2. Counted[x] = {x}
    BY <1>3 DEF Counted
  <2>3. users \subseteq OnEdge(hs, x, t)
    BY <1>1, <2>2 DEF OnEdge
  <2>4. IsFiniteSet(OnEdge(hs, x, t))
    BY RobotsAreFinite DEF Room, OnEdge
  <2>5. /\ Cardinality(OnEdge(hs, x, t)) <= World.edgeCapacity[x]
        /\ World.edgeCapacity[x] \in Nat
    BY <2>1, LimitsAreCounts DEF Room, EdgeRoom
  <2> HIDE DEF users
  <2>6. Cardinality(users) <= World.edgeCapacity[x]
    BY <2>3, <2>4, <2>5, FewerAreNoMore
  <2> QED BY <2>1, <2>6 DEF users
<1> QED BY <1>2, <1>3

LEMMA HoldsFit ==
    ASSUME NEW hs, \A h \in hs : IsHold(h), AllCompatible(hs), Room(hs)
    PROVE  Locks!Fits(Rights(hs))
<1>1. ASSUME NEW p \in Rights(hs), NEW q \in Rights(hs), Locks!Bars(p, q)
      PROVE  FALSE
  <2>1. PICK a \in hs :
          /\ p.on \in a.targets /\ p.robot = a.robot /\ p.mode = a.mode
          /\ p.start = a.start /\ p.end = a.end
    BY ARight
  <2>2. PICK b \in hs :
          /\ q.on \in b.targets /\ q.robot = b.robot /\ q.mode = b.mode
          /\ q.start = b.start /\ q.end = b.end
    BY ARight
  <2>3. /\ a.robot # b.robot /\ a.mode = "exclusive" /\ WindowsOverlap(a, b)
        /\ <<p.on, q.on>> \in Reserved
    BY <1>1, <2>1, <2>2 DEF Locks!Bars, WindowsOverlap
  <2>4. Compatible(World, a, b)
    BY <2>3 DEF AllCompatible
  <2>5. CASE p.on = q.on
    <3>1. BothShared(a, b)
      BY <2>1, <2>2, <2>3, <2>4, <2>5, CompatibleExcludes
    <3> QED BY <2>3, <3>1 DEF BothShared
  <2>6. CASE p.on \in Zones /\ TargetsOccupyZone(World, {q.on}, p.on)
    <3>1. TargetsOccupyZone(World, b.targets, p.on)
      BY <2>2, <2>6 DEF TargetsOccupyZone
    <3>2. BothShared(a, b)
      BY <2>1, <2>3, <2>4, <2>6, <3>1, CompatibleReserves
    <3> QED BY <2>3, <3>2 DEF BothShared
  <2> QED BY <2>3, <2>5, <2>6 DEF Reserved
<1>2. \A p \in Rights(hs) : p.start \in Nat
  BY ARight DEF IsHold
<1>3. DOMAIN Limit = LimitedResources
  BY DEF Limit
<1>4. ASSUME NEW x \in DOMAIN Limit, NEW t \in {p.start : p \in Rights(hs)}
      PROVE  Cardinality(Locks!Users(Rights(hs), x, t)) <= Limit[x]
  <2>1. t \in Nat /\ x \in LimitedResources
    BY <1>2, <1>3, <1>4
  <2> QED BY <2>1, LimitsAreRoom
<1> QED BY <1>1, <1>4, CountsAlike, Zenon DEF Locks!Fits

LEMMA OthersKeepTheirRights ==
    ASSUME NEW hs, NEW more, NEW robot,
           \A h \in (hs \ more) \cup (more \ hs) : h.robot = robot
    PROVE  Locks!OfOthers(Rights(more), robot) = Locks!OfOthers(Rights(hs), robot)
<1>1. ASSUME NEW f, NEW g, \A h \in f \ g : h.robot = robot,
             NEW p \in Rights(f), p.robot # robot
      PROVE  p \in Rights(g)
  <2>1. PICK h \in f : p \in RightsOf(h)
    BY <1>1 DEF Rights
  <2>2. p.robot = h.robot
    BY <2>1 DEF RightsOf
  <2>3. h \in g
    BY <1>1, <2>1, <2>2
  <2> QED BY <2>1, <2>3 DEF Rights
<1> QED BY <1>1 DEF Locks!OfOthers

LEMMA LapsedRights ==
    ASSUME NEW hs, NEW t
    PROVE  Rights(Unexpired(hs, t)) = { p \in Rights(hs) : t < p.end }
<1>1. \A h : \A p \in RightsOf(h) : p.end = h.end
  BY DEF RightsOf
<1> QED BY <1>1 DEF Rights, Unexpired

LEMMA NoHoldsNoRights == Rights({}) = {}
BY DEF Rights

(* Requests and leases are a table of locks: each call changes what one     *)
(* robot may use, to something that fits beside the rights of all others    *)
(* and within the limits of edges and zones, and takes nothing from anybody *)
(* else before its time is over (evaluate_request,                         *)
(* upsert_request_for_robot, upsert_lease, refresh_lease, expire_claims).   *)
THEOREM KeepsTheLocksHolds ==
    ASSUME MaxMint < IdCeiling, Reevaluate
    PROVE  Spec => KeepsTheLocks
<1>1. Init => Locks!Init
  BY NoHoldsNoRights DEF Init, Holds, Locks!Init
<1>2. CapacityInv /\ CapacityInv' /\ [Next]_vars => [Locks!Next]_(Locks!avars)
  <2> SUFFICES ASSUME CapacityInv, CapacityInv', [Next]_vars
               PROVE  [Locks!Next]_(Locks!avars)
    OBVIOUS
  <2>1. CASE UNCHANGED vars
    BY <2>1 DEF vars, ledger, Holds, Locks!avars
  <2>2. ASSUME NEW robot \in Robots, ChangesOnly(robot), now' = now
        PROVE  Locks!Change(robot)
    <3>1. Locks!OfOthers(Rights(Holds'), robot) = Locks!OfOthers(Rights(Holds), robot)
      BY <2>2, OthersKeepTheirRights DEF ChangesOnly
    <3>2. \A h \in Holds' : IsHold(h)
      BY RequestIsHold, LeaseIsHold DEF CapacityInv, IInv, TypeOK, Holds
    <3>3. AllCompatible(Holds') /\ Room(Holds')
      BY DEF CapacityInv, IInv, AllCompatible, Room
    <3>4. Locks!Fits(Rights(Holds'))
      BY <3>2, <3>3, HoldsFit
    <3> QED BY <2>2, <3>1, <3>4 DEF Locks!Change
  <2>3. ASSUME ExpireClaims PROVE Locks!Lapse
    <3>1. Holds' = Unexpired(Holds, now) /\ now' = now
      BY <2>3 DEF ExpireClaims, Unexpired, Holds
    <3> QED BY <3>1, LapsedRights DEF Locks!Lapse
  <2>4. ASSUME Clear PROVE Locks!Reset
    BY <2>4, NoHoldsNoRights DEF Clear, Holds, Locks!Reset
  <2>5. ASSUME Tick PROVE Locks!Tick
    BY <2>5 DEF Tick, ledger, Holds, Locks!Tick
  <2>6. CASE Next
    BY <2>2, <2>3, <2>4, <2>5, <2>6, NextChangesOne DEF CapacityInv, IInv, Locks!Next
  <2> QED BY <2>1, <2>6
<1> QED BY <1>1, <1>2, CapacityInvariance, PTL DEF Spec, KeepsTheLocks, Locks!Spec

=============================================================================
