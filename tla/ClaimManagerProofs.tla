-------------------------- MODULE ClaimManagerProofs --------------------------
(***************************************************************************)
(* The ledger keeps its promises for every workspace, fleet and caller:    *)
(* its types, the exclusion between robots, one entry per ground, releases *)
(* that let go, and one robot's ground per call.                           *)
(*                                                                         *)
(* Exclusion by itself is not inductive: the ledger could hold two claims  *)
(* that exclude each other at no instant yet and be extended by a third.   *)
(* What every step keeps is that any two holds of different robots are     *)
(* Compatible, the very relation evaluate_request tests (IInv).            *)
(***************************************************************************)
EXTENDS ClaimManager, TLAPS, WellFoundedInduction, FiniteSetTheorems

-----------------------------------------------------------------------------
(* What the rules of ClaimRules guarantee for every workspace: being       *)
(* compatible is symmetric and survives narrowing a window, and two        *)
(* compatible holds that meet in time share no ground against either's     *)
(* will.                                                                   *)

(* What a hold has to be for the rules to make sense of it.                *)
IsHold(h) ==
    /\ h.start \in Nat
    /\ h.end \in Nat
    /\ h.mode \in Modes
    /\ h.targets \subseteq Resources

-----------------------------------------------------------------------------
(* A zone is no ancestor of its own parent (index.rs builds a forest).     *)
LEMMA ParentsAreNotMutual ==
    ASSUME NEW ws, IsWorkspace(ws), NEW x \in Zones, NEW y \in Zones,
           ws.parent[x] = y
    PROVE  x # y /\ ws.parent[y] # x
<1>1. NoZone \notin Zones
  BY KindsAssumption DEF Resources
<1>2. /\ \A z \in Zones : z \notin ws.ancestors[z]
      /\ \A z \in Zones : ws.parent[z] # NoZone =>
             ws.ancestors[z] = {ws.parent[z]} \cup ws.ancestors[ws.parent[z]]
  BY DEF IsWorkspace
<1>3. ws.ancestors[x] = {y} \cup ws.ancestors[y]
  BY <1>1, <1>2
<1>4. ASSUME ws.parent[y] = x PROVE FALSE
  <2>1. ws.ancestors[y] = {x} \cup ws.ancestors[x]
    BY <1>1, <1>2, <1>4
  <2> QED BY <1>2, <1>3, <2>1
<1> QED BY <1>2, <1>3, <1>4

(* The capacity two overlapping zones go by is the same from either side    *)
(* (overlapping_zone_policy).                                              *)
LEMMA OverlappingCapacitySymmetric ==
    ASSUME NEW ws, IsWorkspace(ws), NEW x \in Zones, NEW y \in Zones
    PROVE  OverlappingCapacity(ws, x, y) = OverlappingCapacity(ws, y, x)
<1>1. CASE x = y
  BY <1>1
<1>2. CASE x # y /\ ws.parent[x] = y
  <2>1. ws.parent[y] # x
    BY <1>2, ParentsAreNotMutual
  <2> QED BY <1>2, <2>1 DEF OverlappingCapacity
<1>3. CASE x # y /\ ws.parent[y] = x
  <2>1. ws.parent[x] # y
    BY <1>3, ParentsAreNotMutual
  <2> QED BY <1>3, <2>1 DEF OverlappingCapacity
<1>4. CASE x # y /\ ws.parent[x] # y /\ ws.parent[y] # x
  BY <1>4 DEF OverlappingCapacity
<1> QED BY <1>1, <1>2, <1>3, <1>4

(* Which of two holds was there first does not matter                       *)
(* (claims_compatible_for_index).                                          *)
LEMMA CompatibleSymmetric ==
    ASSUME NEW ws, IsWorkspace(ws), NEW a, NEW b, Compatible(ws, a, b)
    PROVE  Compatible(ws, b, a)
<1>1. WindowsOverlap(b, a) <=> WindowsOverlap(a, b)
  BY DEF WindowsOverlap
<1>2. BothShared(b, a) <=> BothShared(a, b)
  BY DEF BothShared
<1>3. ZoneClaimsCompatible(ws, b, a)
  <2> SUFFICES ASSUME NEW x \in b.targets \cap Zones, NEW y \in a.targets \cap Zones,
                      ZonesOverlap(ws, x, y), WindowsOverlap(b, a)
               PROVE  BothShared(b, a) /\ OverlappingCapacity(ws, x, y) > 1
    BY DEF ZoneClaimsCompatible
  <2>1. ZonesOverlap(ws, y, x)
    BY DEF ZonesOverlap
  <2>2. BothShared(a, b) /\ OverlappingCapacity(ws, y, x) > 1
    BY <1>1, <2>1 DEF Compatible, ZoneClaimsCompatible
  <2> QED BY <1>2, <2>2, OverlappingCapacitySymmetric
<1>4. ASSUME NEW kind, SpatialClaimsCompatible(ws, a, b, kind)
      PROVE  SpatialClaimsCompatible(ws, b, a, kind)
  <2> SUFFICES ASSUME NEW x \in b.targets \cap kind, NEW y \in a.targets \cap kind,
                      WindowsOverlap(b, a)
               PROVE  IF x = y THEN BothShared(b, a)
                               ELSE ~SharedConstrainedZone(ws, x, y)
    BY DEF SpatialClaimsCompatible
  <2>1. IF y = x THEN BothShared(a, b) ELSE ~SharedConstrainedZone(ws, y, x)
    BY <1>1, <1>4 DEF SpatialClaimsCompatible
  <2>2. SharedConstrainedZone(ws, x, y) <=> SharedConstrainedZone(ws, y, x)
    BY DEF SharedConstrainedZone
  <2> QED BY <1>2, <2>1, <2>2
<1>5. CrossLevelCompatible(ws, b, a)
  BY DEF Compatible, CrossLevelCompatible
<1> QED BY <1>3, <1>4, <1>5 DEF Compatible

(* A hold that is compatible stays so when its window narrows.             *)
LEMMA CompatibleWhenNarrowed ==
    ASSUME NEW ws, NEW a, NEW b, NEW c,
           IsHold(a), IsHold(b), IsHold(c),
           c.mode = b.mode, c.targets = b.targets,
           b.start <= c.start, c.end <= b.end,
           Compatible(ws, a, b)
    PROVE  Compatible(ws, a, c)
<1>1. WindowsOverlap(a, c) => WindowsOverlap(a, b)
  BY DEF WindowsOverlap, IsHold
<1>2. WindowsOverlap(c, a) => WindowsOverlap(b, a)
  BY DEF WindowsOverlap, IsHold
<1>3. /\ BothShared(a, c) <=> BothShared(a, b)
      /\ BothShared(c, a) <=> BothShared(b, a)
  BY DEF BothShared
<1>4. ZoneClaimsCompatible(ws, a, c)
  BY <1>1, <1>3 DEF Compatible, ZoneClaimsCompatible
<1>5. ASSUME NEW kind, SpatialClaimsCompatible(ws, a, b, kind)
      PROVE  SpatialClaimsCompatible(ws, a, c, kind)
  BY <1>1, <1>3, <1>5 DEF SpatialClaimsCompatible
<1>6. ZoneVsSpatialCompatible(ws, a, c)
  BY <1>1, <1>3 DEF Compatible, CrossLevelCompatible, ZoneVsSpatialCompatible
<1>7. ZoneVsSpatialCompatible(ws, c, a)
  BY <1>2, <1>3 DEF Compatible, CrossLevelCompatible, ZoneVsSpatialCompatible
<1> QED BY <1>4, <1>5, <1>6, <1>7 DEF Compatible, CrossLevelCompatible

(* Holds that meet in time hold a common resource only as sharers.         *)
LEMMA CompatibleExcludes ==
    ASSUME NEW ws, NEW a, NEW b, IsHold(a), IsHold(b),
           Compatible(ws, a, b), WindowsOverlap(a, b),
           a.targets \cap b.targets # {}
    PROVE  BothShared(a, b)
<1>1. PICK x \in a.targets \cap b.targets : x \in Resources
  BY DEF IsHold
<1>2. CASE x \in Zones
  BY <1>1, <1>2 DEF Compatible, ZoneClaimsCompatible, ZonesOverlap, ZoneContains
<1>3. CASE x \in Nodes
  BY <1>1, <1>3 DEF Compatible, SpatialClaimsCompatible
<1>4. CASE x \in Edges
  BY <1>1, <1>4 DEF Compatible, SpatialClaimsCompatible
<1> QED BY <1>1, <1>2, <1>3, <1>4 DEF Resources, Spatial

(* A hold on a zone and a hold on anything above, below or inside it meet   *)
(* in time only as sharers, at any depth.                                  *)
LEMMA CompatibleReserves ==
    ASSUME NEW ws, NEW a, NEW b, Compatible(ws, a, b), WindowsOverlap(a, b),
           NEW z \in a.targets \cap Zones, TargetsOccupyZone(ws, b.targets, z)
    PROVE  BothShared(a, b)
<1>1. CASE \E t \in b.targets \cap Zones : ZonesOverlap(ws, t, z)
  BY <1>1 DEF Compatible, ZoneClaimsCompatible, ZonesOverlap
<1>2. CASE \E t \in b.targets \cap Spatial : Inside(ws, t, z)
  BY <1>2 DEF Compatible, CrossLevelCompatible, ZoneVsSpatialCompatible
<1> QED BY <1>1, <1>2 DEF TargetsOccupyZone

-----------------------------------------------------------------------------

(* Any two holds of different robots may stand side by side.               *)
AllCompatible(holds) ==
    \A a, b \in holds : a.robot # b.robot => Compatible(World, a, b)

IInv == TypeOK /\ AllCompatible(Holds)

-----------------------------------------------------------------------------
(* Every non-empty set of naturals has a least element.                    *)
LEMMA LeastNat ==
    ASSUME NEW S, S \subseteq Nat, S # {}
    PROVE  \E n \in S : \A m \in S : n <= m
<1> DEFINE Less == { p \in Nat \X Nat : p[1] < p[2] }
<1>1. IsWellFoundedOn(Less, Nat)
  BY NatLessThanWellFounded, Zenon DEF OpToRel
<1> HIDE DEF Less
<1>2. PICK x \in S : \A y \in S : <<y, x>> \notin Less
  BY <1>1, WFMin, Zenon
<1>3. \A y \in S : ~(y < x)
  BY <1>2 DEF Less
<1> QED BY <1>3

(* next_request_id stays between the counter and the ceiling, and below the *)
(* ceiling it is above every live id.                                      *)
LEMMA MintedIdBounds ==
    ASSUME NEW rs, NEW ls, NEW counter \in 1..IdCeiling
    PROVE  /\ MintedId(rs, ls, counter) \in 1..IdCeiling
           /\ MintedId(rs, ls, counter) < IdCeiling =>
                  \A i \in LiveIds(rs, ls) : i < MintedId(rs, ls, counter)
<1> DEFINE free == { n \in counter..IdCeiling : \A i \in LiveIds(rs, ls) : i < n }
<1>0. IdCeiling \in Nat
  BY ManagerAssumption
<1>1. CASE free = {}
  BY <1>0, <1>1 DEF MintedId
<1>2. CASE free # {}
  <2>1. free \subseteq Nat
    BY <1>0
  <2>2. \E n \in free : \A m \in free : n <= m
    BY <1>2, <2>1, LeastNat
  <2>3. MintedId(rs, ls, counter) \in free
    BY <1>2, <2>2 DEF MintedId
  <2> QED BY <1>0, <2>3
<1> QED BY <1>1, <1>2

(* So an id below the ceiling is no live request's.                        *)
LEMMA FreshId ==
    ASSUME NEW rs, NEW ls, NEW counter \in 1..IdCeiling,
           MintedId(rs, ls, counter) <= MaxMint, MaxMint < IdCeiling
    PROVE  MintedId(rs, ls, counter) \notin {r.id : r \in rs}
<1>1. MintedId(rs, ls, counter) < IdCeiling
  BY MintedIdBounds, ManagerAssumption
<1>2. \A r \in rs : r.id < MintedId(rs, ls, counter)
  BY <1>1, MintedIdBounds DEF LiveIds
<1>3. MintedId(rs, ls, counter) \in Nat
  BY MintedIdBounds, ManagerAssumption
<1> QED BY <1>2, <1>3

(* What counting on from a minted id leaves the counter at.                *)
LEMMA SaturatingBounds ==
    ASSUME NEW n \in 1..IdCeiling
    PROVE  Saturating(n + 1) \in 1..IdCeiling
BY ManagerAssumption DEF Saturating

(* Recording a claim adds that claim, at some place, and nothing else       *)
(* (upsert_request_for_robot).                                             *)
LEMMA UpsertedShape ==
    ASSUME NEW rs, rs \subseteq Request, NEW q \in Request
    PROVE  \E n \in Nat : Upserted(rs, q) \subseteq rs \cup {[q EXCEPT !.slot = n]}
<1> DEFINE old == Firsts(SameClaim(rs, q))
<1>1. CASE old = {}
  <2>1. q.id \in Nat
    BY DEF Request
  <2> QED BY <1>1, <2>1 DEF Upserted
<1>2. CASE old # {}
  <2> DEFINE first == CHOOSE r \in old : TRUE
  <2>1. first \in rs
    BY <1>2 DEF Firsts, SameClaim
  <2>2. first.slot \in Nat
    BY <2>1 DEF Request
  <2>3. Upserted(rs, q) = (rs \ {first}) \cup {[q EXCEPT !.slot = first.slot]}
    BY <1>2 DEF Upserted
  <2> QED BY <2>2, <2>3
<1> QED BY <1>1, <1>2

(* Requests and leases are holds.                                          *)
LEMMA RequestIsHold == ASSUME NEW r \in Request PROVE IsHold(r)
BY DEF Request, IsHold

LEMMA LeaseIsHold == ASSUME NEW l \in Lease PROVE IsHold(l)
BY DEF Lease, IsHold

(* The windows a caller asks for are intervals of ticks, and its ground is  *)
(* made of resources.                                                      *)
LEMMA WindowsAreTicks ==
    ASSUME NEW t \in Nat, NEW w \in Windows(t)
    PROVE  w.start \in Nat /\ w.end \in Nat
BY ForeverAssumption, ManagerAssumption DEF Windows, OpenWindow

LEMMA CallsAreWellFormed ==
    ASSUME TypeOK, NEW targets \in GroundSets, NEW w \in Windows(now)
    PROVE  targets \subseteq Resources /\ w.start \in Nat /\ w.end \in Nat
BY WindowsAreTicks, ManagerAssumption DEF TypeOK

-----------------------------------------------------------------------------
(* A granted request is compatible with every hold of another robot: the    *)
(* decision looks at all of them, and reads a lease as no shorter than it   *)
(* is (evaluate_request, lease_as_request_view).                           *)
LEMMA GrantedIsCompatible ==
    ASSUME NEW rs, rs \subseteq Request, NEW ls, ls \subseteq Lease,
           NEW q \in Request, q.id \notin {r.id : r \in rs},
           Granted(World, rs, ls, q),
           NEW h \in rs \cup ls, h.robot # q.robot
    PROVE  Compatible(World, q, h)
<1>1. CASE h \in rs
  BY <1>1 DEF Granted
<1>2. CASE h \in ls
  <2>1. Compatible(World, q, LeaseView(h))
    BY <1>2 DEF Granted
  <2>2. /\ LeaseView(h).mode = h.mode
        /\ LeaseView(h).targets = h.targets
        /\ LeaseView(h).start = 0
        /\ LeaseView(h).end = h.end
    BY <1>2 DEF LeaseView, Lease
  <2>3. IsHold(q) /\ IsHold(h)
    BY <1>2, RequestIsHold, LeaseIsHold
  <2>4. IsHold(LeaseView(h)) /\ LeaseView(h).start <= h.start
        /\ h.end <= LeaseView(h).end
    BY <2>2, <2>3 DEF IsHold
  <2> QED BY <2>1, <2>2, <2>3, <2>4, CompatibleWhenNarrowed
<1> QED BY <1>1, <1>2

(* Adding one hold that is compatible with the others' keeps all compatible. *)
LEMMA OneMoreHold ==
    ASSUME NEW holds, AllCompatible(holds), NEW n, NEW more,
           more \subseteq holds \cup {n},
           \A h \in holds : h.robot # n.robot => Compatible(World, n, h)
    PROVE  AllCompatible(more)
<1>1. IsWorkspace(World)
  BY ManagerAssumption
<1> QED BY <1>1, CompatibleSymmetric DEF AllCompatible

(* The compatibility of one hold passes to a narrower one of the same robot *)
(* on the same ground.                                                     *)
LEMMA NarrowerHold ==
    ASSUME NEW holds, AllCompatible(holds), \A h \in holds : IsHold(h),
           NEW b \in holds, NEW c, IsHold(c),
           c.robot = b.robot, c.mode = b.mode, c.targets = b.targets,
           b.start <= c.start, c.end <= b.end
    PROVE  \A h \in holds : h.robot # c.robot => Compatible(World, c, h)
<1> SUFFICES ASSUME NEW h \in holds, h.robot # c.robot
             PROVE  Compatible(World, c, h)
  OBVIOUS
<1>1. Compatible(World, h, b)
  BY DEF AllCompatible
<1>2. Compatible(World, h, c)
  BY <1>1, CompatibleWhenNarrowed
<1>3. IsWorkspace(World)
  BY ManagerAssumption
<1> QED BY <1>2, <1>3, CompatibleSymmetric

-----------------------------------------------------------------------------
(* The record Claim evaluates, and the one RefreshLease does.              *)
ClaimRecord(id, robot, mode, targets, start, end) ==
    [id |-> id, slot |-> id, robot |-> robot, mode |-> mode,
     start |-> start, end |-> end, targets |-> targets]

LEMMA ClaimRecordType ==
    ASSUME NEW id \in Nat, NEW robot \in Robots, NEW mode \in Modes,
           NEW targets, targets \subseteq Resources,
           NEW start \in Nat, NEW end \in Nat
    PROVE  ClaimRecord(id, robot, mode, targets, start, end) \in Request
BY DEF ClaimRecord, Request

(* What Claim leaves, whatever ground and window it is asked for: the       *)
(* ledger, and at most the claim it evaluated.                             *)
LEMMA ClaimShape ==
    ASSUME TypeOK, NEW robot \in Robots, NEW mode \in Modes,
           NEW targets, targets \subseteq Resources,
           NEW w, w.start \in Nat, w.end \in Nat,
           Claim(robot, mode, targets, w)
    PROVE  \E n \in Nat :
             LET id == MintedId(requests, leases, nextId)
                 q  == ClaimRecord(id, robot, mode, targets, w.start, w.end)
             IN  /\ q \in Request
                 /\ id \in 1..IdCeiling /\ id <= MaxMint
                 /\ \/ requests' = requests
                    \/ /\ Granted(World, requests, leases, q)
                       /\ requests' \subseteq requests \cup {[q EXCEPT !.slot = n]}
<1> DEFINE id == MintedId(requests, leases, nextId)
           q  == ClaimRecord(id, robot, mode, targets, w.start, w.end)
<1>1. id \in 1..IdCeiling
  BY MintedIdBounds DEF TypeOK
<1>2. id \in Nat
  BY <1>1, ManagerAssumption
<1>3. q \in Request
  BY <1>2, ClaimRecordType
<1>4. /\ id <= MaxMint
      /\ requests' = IF Granted(World, requests, leases, q)
                     THEN Upserted(requests, q) ELSE requests
  BY DEF Claim, ClaimRecord
<1>5. PICK n \in Nat : Upserted(requests, q) \subseteq requests \cup {[q EXCEPT !.slot = n]}
  BY <1>3, UpsertedShape DEF TypeOK
<1> HIDE DEF q, id
<1>6. \/ requests' = requests
      \/ /\ Granted(World, requests, leases, q)
         /\ requests' \subseteq requests \cup {[q EXCEPT !.slot = n]}
  BY <1>4, <1>5
<1> QED BY <1>1, <1>3, <1>4, <1>6 DEF q, id

(* Moving a record to another place changes nothing the rules look at.     *)
LEMMA SlotIsNoGround ==
    ASSUME NEW q \in Request, NEW n \in Nat
    PROVE  LET moved == [q EXCEPT !.slot = n]
           IN  /\ moved \in Request
               /\ moved.id = q.id /\ moved.robot = q.robot
               /\ moved.mode = q.mode /\ moved.targets = q.targets
               /\ moved.start = q.start /\ moved.end = q.end
BY DEF Request

(* Live ids of a ledger whose requests and leases all carry ids in range.  *)
LEMMA LiveIdsInRange ==
    ASSUME NEW rs, NEW ls,
           \A r \in rs : 1 <= r.id /\ r.id <= IdCeiling,
           \A l \in ls : 1 <= l.claim /\ l.claim <= IdCeiling
    PROVE  \A i \in LiveIds(rs, ls) : 1 <= i /\ i <= IdCeiling
BY DEF LiveIds

LEMMA InitTypeOK == Init => TypeOK
BY ManagerAssumption DEF Init, TypeOK, LiveIds

-----------------------------------------------------------------------------
(* Every operation keeps the types.                                        *)
LEMMA ArchivingType ==
    ASSUME NEW ls, ls \subseteq Lease,
           NEW reason \in {"released", "revoked", "expired"}
    PROVE  Archiving(ls, reason) \subseteq Archived
BY DEF Archiving, Archived, Lease

LEMMA ClaimTypeOK ==
    ASSUME TypeOK, NEW robot \in Robots, NEW mode \in Modes,
           NEW targets, targets \subseteq Resources,
           NEW w, w.start \in Nat, w.end \in Nat,
           Claim(robot, mode, targets, w)
    PROVE  TypeOK'
<1> USE DEF TypeOK
<1> DEFINE id == MintedId(requests, leases, nextId)
           q  == ClaimRecord(id, robot, mode, targets, w.start, w.end)
<1>1. PICK n \in Nat :
         /\ q \in Request
         /\ id \in 1..IdCeiling
         /\ \/ requests' = requests
            \/ requests' \subseteq requests \cup {[q EXCEPT !.slot = n]}
  BY ClaimShape
<1>2. /\ nextId' = Saturating(id + 1)
      /\ leases' = leases /\ archive' = archive /\ now' = now
  BY DEF Claim
<1>3. nextId' \in 1..IdCeiling
  BY <1>1, <1>2, SaturatingBounds
<1>4. q.id = id
  BY DEF ClaimRecord
<1> DEFINE moved == [q EXCEPT !.slot = n]
<1>5. moved \in Request /\ moved.id = id
  BY <1>1, <1>4, SlotIsNoGround
<1> HIDE DEF moved, q, id
<1>6. requests' \subseteq Request
  BY <1>1, <1>5 DEF moved
<1>7. /\ \A r \in requests' : r \in requests \/ r.id = id
      /\ \A l \in leases' : l \in leases
  BY <1>1, <1>2, <1>5 DEF moved
<1>8. \A i \in LiveIds(requests', leases') : 1 <= i /\ i <= IdCeiling
  <2>1. \A r \in requests' : 1 <= r.id /\ r.id <= IdCeiling
    BY <1>1, <1>7, ManagerAssumption DEF LiveIds
  <2>2. \A l \in leases' : 1 <= l.claim /\ l.claim <= IdCeiling
    BY <1>7 DEF LiveIds
  <2> QED BY <2>1, <2>2, LiveIdsInRange
<1> QED BY <1>2, <1>3, <1>6, <1>8

LEMMA GrantLeaseTypeOK ==
    ASSUME TypeOK, NEW r \in requests, NEW id \in LeaseIds,
           NEW claim \in {r.id} \cup ForeignClaims, NEW end \in Nat,
           GrantLease(r, id, claim, end)
    PROVE  TypeOK'
<1> USE DEF TypeOK
<1>1. /\ r \in Request
      /\ claim \in Nat /\ 1 <= claim /\ claim <= IdCeiling
  <2>1. r \in Request /\ r.id \in Nat /\ r.id \in LiveIds(requests, leases)
    BY DEF LiveIds, Request
  <2>2. CASE claim = r.id
    BY <2>1, <2>2
  <2>3. CASE claim \in ForeignClaims
    <3>1. ForeignClaims \subseteq 1..IdCeiling /\ IdCeiling \in Nat
      BY ManagerAssumption
    <3> QED BY <2>1, <2>3, <3>1
  <2> QED BY <2>2, <2>3
<1> DEFINE lease == [id |-> id, claim |-> claim, robot |-> r.robot,
                     mode |-> r.mode, start |-> r.start, end |-> end,
                     targets |-> r.targets]
<1>2. lease \in Lease /\ lease.claim = claim
  BY <1>1 DEF Lease, Request
<1>3. /\ leases' \subseteq leases \cup {lease}
      /\ requests' = requests
      /\ UNCHANGED <<archive, nextId, now>>
  BY DEF GrantLease, AddLease
<1> HIDE DEF lease
<1>4. \A i \in LiveIds(requests', leases') : 1 <= i /\ i <= IdCeiling
  BY <1>1, <1>2, <1>3 DEF LiveIds
<1> QED BY <1>2, <1>3, <1>4

(* Letting go of claims and leases keeps the types.                        *)
LEMMA FewerHoldsTypeOK ==
    ASSUME TypeOK, requests' \subseteq requests, leases' \subseteq leases,
           archive' \subseteq archive \cup
                        UNION {Archiving(leases, why) :
                                   why \in {"released", "revoked", "expired"}},
           nextId' = nextId, now' \in Nat
    PROVE  TypeOK'
<1>1. archive' \subseteq Archived
  BY ArchivingType DEF TypeOK
<1> QED BY <1>1 DEF TypeOK, LiveIds

LEMMA NextTypeOK ==
    ASSUME TypeOK, [Next]_vars
    PROVE  TypeOK'
<1> USE DEF TypeOK
<1>1. ASSUME NEW robot \in Robots, NEW mode \in Modes, NEW targets \in GroundSets,
             NEW w \in Windows(now), Claim(robot, mode, targets, w)
      PROVE  TypeOK'
  BY <1>1, CallsAreWellFormed, ClaimTypeOK
<1>2. ASSUME requests' \subseteq requests, leases' \subseteq leases,
             archive' \subseteq Archived, UNCHANGED <<nextId, now>>
      PROVE  TypeOK'
  BY <1>2 DEF LiveIds
<1>3. ASSUME NEW robot \in Robots, NEW resource \in Resources, Release(robot, resource)
      PROVE  TypeOK'
  BY <1>2, <1>3 DEF Release
<1>4. ASSUME NEW r \in requests, RemoveRequest(r)
      PROVE  TypeOK'
  BY <1>2, <1>4 DEF RemoveRequest
<1>5. ASSUME NEW r \in requests, NEW id \in LeaseIds,
             NEW claim \in {r.id} \cup ForeignClaims,
             NEW end \in {r.end} \cup {now + length : length \in Lengths},
             GrantLease(r, id, claim, end)
      PROVE  TypeOK'
  <2>1. end \in Nat
    BY ManagerAssumption DEF Request
  <2> QED BY <1>5, <2>1, GrantLeaseTypeOK
<1>6. ASSUME NEW l \in leases, NEW reason \in {"released", "revoked"},
             EndLease(l, reason)
      PROVE  TypeOK'
  <2>1. Archiving({l}, reason) \subseteq Archived
    BY ArchivingType
  <2> QED BY <1>2, <1>6, <2>1 DEF EndLease
<1>7. ASSUME NEW l \in leases, RemoveLease(l)
      PROVE  TypeOK'
  BY <1>2, <1>7 DEF RemoveLease
<1>8. ASSUME NEW l \in leases, NEW length \in Lengths, RefreshLease(l, now + length)
      PROVE  TypeOK'
  <2> DEFINE lease == [l EXCEPT !.end = now + length]
  <2>1. now + length \in Nat
    BY ManagerAssumption
  <2>2. lease \in Lease /\ lease.claim = l.claim
    BY <2>1 DEF Lease
  <2>3. /\ leases' \subseteq leases \cup {lease}
        /\ requests' = requests
        /\ UNCHANGED <<archive, nextId, now>>
    BY <1>8 DEF RefreshLease
  <2> HIDE DEF lease
  <2>4. \A i \in LiveIds(requests', leases') : 1 <= i /\ i <= IdCeiling
    BY <2>2, <2>3 DEF LiveIds
  <2> QED BY <2>2, <2>3, <2>4
<1>9. ASSUME NEW robot \in Robots, RemoveRobot(robot)
      PROVE  TypeOK'
  <2>1. /\ requests' \subseteq requests /\ leases' \subseteq leases
        /\ archive' = archive \cup Archiving(leases \ leases', "released")
        /\ UNCHANGED <<nextId, now>>
    BY <1>9 DEF RemoveRobot, WithoutRobot
  <2>2. Archiving(leases \ leases', "released") \subseteq Archived
    BY ArchivingType
  <2> QED BY <1>2, <2>1, <2>2
<1>10. ASSUME ExpireClaims
       PROVE  TypeOK'
  <2>1. /\ requests' \subseteq requests /\ leases' \subseteq leases
        /\ archive' = archive \cup Archiving(leases \ leases', "expired")
        /\ UNCHANGED <<nextId, now>>
    BY <1>10 DEF ExpireClaims, Unexpired
  <2>2. Archiving(leases \ leases', "expired") \subseteq Archived
    BY ArchivingType
  <2> QED BY <1>2, <2>1, <2>2
<1>11. ASSUME Clear
       PROVE  TypeOK'
  BY <1>2, <1>11 DEF Clear
<1>12. ASSUME Tick
       PROVE  TypeOK'
  BY <1>12 DEF Tick, ledger
<1>13. ASSUME UNCHANGED vars
       PROVE  TypeOK'
  BY <1>13 DEF vars, ledger
<1> QED
  BY <1>1, <1>3, <1>4, <1>5, <1>6, <1>7, <1>8, <1>9, <1>10, <1>11, <1>12, <1>13
     DEF Next, RequestStep, LeaseStep

(* The ledger only ever holds well-formed claims and leases, its archive    *)
(* and its counter keep their types, and no live id is 0 or above the       *)
(* ceiling, for any workspace, fleet and bounds.                           *)
THEOREM TypeCorrect == Spec => []TypeOK
<1>1. Init => TypeOK
  BY InitTypeOK
<1>2. TypeOK /\ [Next]_vars => TypeOK'
  BY NextTypeOK
<1> QED BY <1>1, <1>2, PTL DEF Spec

-----------------------------------------------------------------------------
(* Every operation keeps all holds of different robots compatible, as long  *)
(* as ids are not used up and an extension is evaluated first.             *)
LEMMA HoldsAreHolds == ASSUME TypeOK PROVE \A h \in Holds : IsHold(h)
BY RequestIsHold, LeaseIsHold DEF TypeOK, Holds

(* Recording a granted claim, wherever it lands, keeps all compatible.      *)
LEMMA RecordingKeepsCompatible ==
    ASSUME NEW rs, rs \subseteq Request, NEW ls, ls \subseteq Lease,
           AllCompatible(rs \cup ls),
           NEW q \in Request, q.id \notin {r.id : r \in rs},
           Granted(World, rs, ls, q), NEW n \in Nat,
           NEW more, more \subseteq rs \cup {[q EXCEPT !.slot = n]}
    PROVE  AllCompatible(more \cup ls)
<1> DEFINE moved == [q EXCEPT !.slot = n]
<1>1. /\ moved \in Request
      /\ moved.robot = q.robot /\ moved.mode = q.mode
      /\ moved.targets = q.targets
      /\ moved.start = q.start /\ moved.end = q.end
  BY SlotIsNoGround
<1>2. IsHold(q) /\ IsHold(moved) /\ IsWorkspace(World)
  BY <1>1, RequestIsHold, ManagerAssumption
<1>3. more \cup ls \subseteq (rs \cup ls) \cup {moved}
  OBVIOUS
<1> HIDE DEF moved
<1>4. ASSUME NEW h \in rs \cup ls, h.robot # moved.robot
      PROVE  Compatible(World, moved, h)
  <2>1. Compatible(World, q, h)
    BY <1>1, <1>4, GrantedIsCompatible
  <2>2. IsHold(h)
    BY RequestIsHold, LeaseIsHold
  <2>3. Compatible(World, h, q)
    BY <1>2, <2>1, CompatibleSymmetric
  <2>4. q.start <= moved.start /\ moved.end <= q.end
    BY <1>1, <1>2 DEF IsHold
  <2>5. Compatible(World, h, moved)
    BY <1>1, <1>2, <2>2, <2>3, <2>4, CompatibleWhenNarrowed
  <2> QED BY <1>2, <2>5, CompatibleSymmetric
<1> QED BY <1>3, <1>4, OneMoreHold

(* A claim's evaluation covers every other hold in the ledger.             *)
LEMMA ClaimKeepsCompatible ==
    ASSUME IInv, MaxMint < IdCeiling,
           NEW robot \in Robots, NEW mode \in Modes,
           NEW targets, targets \subseteq Resources,
           NEW w, w.start \in Nat, w.end \in Nat,
           Claim(robot, mode, targets, w)
    PROVE  AllCompatible(Holds')
<1> DEFINE id == MintedId(requests, leases, nextId)
           q  == ClaimRecord(id, robot, mode, targets, w.start, w.end)
<1>1. PICK n \in Nat :
         /\ q \in Request
         /\ id \in 1..IdCeiling /\ id <= MaxMint
         /\ \/ requests' = requests
            \/ /\ Granted(World, requests, leases, q)
               /\ requests' \subseteq requests \cup {[q EXCEPT !.slot = n]}
  BY ClaimShape DEF IInv
<1>2. leases' = leases
  BY DEF Claim
<1>3. q.id = id
  BY DEF ClaimRecord
<1>4. q.id \notin {r.id : r \in requests}
  BY <1>1, <1>3, FreshId DEF IInv, TypeOK
<1> HIDE DEF q, id
<1>5. CASE requests' = requests
  BY <1>2, <1>5 DEF IInv, Holds
<1>6. CASE /\ Granted(World, requests, leases, q)
           /\ requests' \subseteq requests \cup {[q EXCEPT !.slot = n]}
  BY <1>1, <1>2, <1>4, <1>6, RecordingKeepsCompatible DEF IInv, TypeOK, Holds
<1> QED BY <1>1, <1>5, <1>6

(* A lease no longer than its claim brings nothing the claim did not.      *)
LEMMA GrantLeaseKeepsCompatible ==
    ASSUME IInv, TypeOK', NEW r \in requests, NEW id, NEW claim, NEW end,
           GrantLease(r, id, claim, end)
    PROVE  AllCompatible(Holds')
<1> DEFINE lease == [id |-> id, claim |-> claim, robot |-> r.robot,
                     mode |-> r.mode, start |-> r.start, end |-> end,
                     targets |-> r.targets]
<1>1. /\ end <= r.end
      /\ lease \in leases'
      /\ leases' \subseteq leases \cup {lease}
      /\ requests' = requests
  BY DEF GrantLease, AddLease
<1>2. /\ lease.robot = r.robot /\ lease.mode = r.mode
      /\ lease.targets = r.targets
      /\ lease.start = r.start /\ lease.end = end
  OBVIOUS
<1> HIDE DEF lease
<1>3. IsHold(lease)
  BY <1>1, LeaseIsHold DEF TypeOK
<1>4. r \in Holds /\ \A h \in Holds : IsHold(h)
  BY HoldsAreHolds DEF IInv, Holds
<1>5. r.start <= lease.start /\ lease.end <= r.end
  BY <1>1, <1>2, <1>4 DEF IsHold
<1>6. \A h \in Holds : h.robot # lease.robot => Compatible(World, lease, h)
  BY <1>2, <1>3, <1>4, <1>5, NarrowerHold DEF IInv
<1>7. Holds' \subseteq Holds \cup {lease}
  BY <1>1 DEF Holds
<1> QED BY <1>6, <1>7, OneMoreHold DEF IInv

(* A refreshed lease is narrower than it was, or was evaluated as it is.   *)
LEMMA RefreshKeepsCompatible ==
    ASSUME IInv, TypeOK', Reevaluate, NEW l \in leases, NEW end \in Nat,
           RefreshLease(l, end)
    PROVE  AllCompatible(Holds')
<1> DEFINE lease == [l EXCEPT !.end = end]
           q == ClaimRecord(0, l.robot, l.mode, l.targets, l.start, end)
<1>1. l \in Lease
  BY DEF IInv, TypeOK
<1>2. /\ lease.robot = l.robot /\ lease.mode = l.mode
      /\ lease.targets = l.targets
      /\ lease.start = l.start /\ lease.end = end
      /\ lease \in Lease
  BY <1>1 DEF Lease
<1>3. /\ q.id = 0 /\ q.robot = l.robot /\ q.mode = l.mode
      /\ q.targets = l.targets
      /\ q.start = l.start /\ q.end = end
      /\ q \in Request
  BY <1>1 DEF ClaimRecord, Lease, Request
<1>4. /\ l.end < end => Granted(World, requests, leases, q)
      /\ leases' \subseteq leases \cup {lease}
      /\ requests' = requests
  BY DEF RefreshLease, ClaimRecord
<1> HIDE DEF lease, q
<1>5. /\ IsHold(lease) /\ IsHold(q) /\ IsHold(l)
      /\ \A h \in Holds : IsHold(h)
      /\ l \in Holds
      /\ IsWorkspace(World)
  BY <1>1, <1>2, <1>3, LeaseIsHold, RequestIsHold, HoldsAreHolds,
     ManagerAssumption DEF IInv, Holds
<1>6. CASE end <= l.end
  <2>1. l.start <= lease.start /\ lease.end <= l.end
    BY <1>2, <1>5, <1>6 DEF IsHold
  <2> QED BY <1>2, <1>4, <1>5, <2>1, NarrowerHold, OneMoreHold DEF IInv, Holds
<1>7. CASE l.end < end
  <2>1. q.id \notin {r.id : r \in requests}
    BY <1>3 DEF IInv, TypeOK, LiveIds
  <2>2. ASSUME NEW h \in Holds, h.robot # lease.robot
        PROVE  Compatible(World, lease, h)
    <3>1. Compatible(World, q, h)
      BY <1>2, <1>3, <1>4, <1>7, <2>1, <2>2, GrantedIsCompatible
         DEF IInv, TypeOK, Holds
    <3>2. Compatible(World, h, q)
      BY <1>5, <3>1, CompatibleSymmetric
    <3>3. q.start <= lease.start /\ lease.end <= q.end
      BY <1>2, <1>3, <1>5 DEF IsHold
    <3>4. Compatible(World, h, lease)
      BY <1>2, <1>3, <1>5, <3>2, <3>3, CompatibleWhenNarrowed
    <3> QED BY <1>5, <3>4, CompatibleSymmetric
  <2>3. Holds' \subseteq Holds \cup {lease}
    BY <1>4 DEF Holds
  <2> QED BY <2>2, <2>3, OneMoreHold DEF IInv
<1>8. end <= l.end \/ l.end < end
  BY <1>5 DEF IsHold
<1> QED BY <1>6, <1>7, <1>8

LEMMA NextIInv ==
    ASSUME IInv, [Next]_vars, MaxMint < IdCeiling, Reevaluate
    PROVE  IInv'
<1>1. TypeOK'
  BY NextTypeOK DEF IInv
<1>2. AllCompatible(Holds) /\ (AllCompatible(Holds') => AllCompatible(Holds)')
  BY DEF IInv, AllCompatible
<1>3. ASSUME NEW robot \in Robots, NEW mode \in Modes, NEW targets \in GroundSets,
             NEW w \in Windows(now), Claim(robot, mode, targets, w)
      PROVE  AllCompatible(Holds')
  BY <1>1, <1>3, CallsAreWellFormed, ClaimKeepsCompatible DEF IInv
<1>4. ASSUME requests' \subseteq requests, leases' \subseteq leases
      PROVE  AllCompatible(Holds')
  BY <1>2, <1>4 DEF AllCompatible, Holds
<1>5. ASSUME NEW robot \in Robots, NEW resource \in Resources, Release(robot, resource)
      PROVE  AllCompatible(Holds')
  BY <1>4, <1>5 DEF Release
<1>6. ASSUME NEW r \in requests, RemoveRequest(r)
      PROVE  AllCompatible(Holds')
  BY <1>4, <1>6 DEF RemoveRequest
<1>7. ASSUME NEW r \in requests, NEW id, NEW claim, NEW end,
             GrantLease(r, id, claim, end)
      PROVE  AllCompatible(Holds')
  BY <1>1, <1>7, GrantLeaseKeepsCompatible
<1>8. ASSUME NEW l \in leases, NEW reason, EndLease(l, reason)
      PROVE  AllCompatible(Holds')
  BY <1>4, <1>8 DEF EndLease
<1>9. ASSUME NEW l \in leases, RemoveLease(l)
      PROVE  AllCompatible(Holds')
  BY <1>4, <1>9 DEF RemoveLease
<1>10. ASSUME NEW l \in leases, NEW length \in Lengths, RefreshLease(l, now + length)
       PROVE  AllCompatible(Holds')
  <2>1. now + length \in Nat
    BY ManagerAssumption DEF IInv, TypeOK
  <2> QED BY <1>1, <1>10, <2>1, RefreshKeepsCompatible
<1>11. ASSUME NEW robot \in Robots, RemoveRobot(robot)
       PROVE  AllCompatible(Holds')
  BY <1>4, <1>11 DEF RemoveRobot, WithoutRobot
<1>12. ASSUME ExpireClaims
       PROVE  AllCompatible(Holds')
  BY <1>4, <1>12 DEF ExpireClaims, Unexpired
<1>13. ASSUME Clear
       PROVE  AllCompatible(Holds')
  BY <1>4, <1>13 DEF Clear
<1>14. ASSUME Tick \/ UNCHANGED vars
       PROVE  AllCompatible(Holds')
  BY <1>4, <1>14 DEF Tick, vars, ledger
<1>15. AllCompatible(Holds')
  BY <1>3, <1>5, <1>6, <1>7, <1>8, <1>9, <1>10, <1>11, <1>12, <1>13, <1>14
     DEF Next, RequestStep, LeaseStep
<1> QED BY <1>1, <1>2, <1>15 DEF IInv

LEMMA Invariance ==
    ASSUME MaxMint < IdCeiling, Reevaluate
    PROVE  Spec => []IInv
<1>1. Init => IInv
  BY InitTypeOK DEF Init, IInv, AllCompatible, Holds
<1>2. IInv /\ [Next]_vars => IInv'
  BY NextIInv
<1> QED BY <1>1, <1>2, PTL DEF Spec

-----------------------------------------------------------------------------
(* What compatibility means at an instant.                                 *)
LEMMA CoveredInstantsOverlap ==
    ASSUME NEW a, NEW b, IsHold(a), IsHold(b), NEW t \in Nat,
           Covers(a, t), Covers(b, t)
    PROVE  WindowsOverlap(a, b)
BY DEF IsHold, Covers, WindowsOverlap

LEMMA InstantsAreTicks == ASSUME TypeOK PROVE Instants \subseteq Nat
BY HoldsAreHolds DEF IsHold, Instants

LEMMA IInvExcludes == IInv => ExclusiveSafety
<1> SUFFICES ASSUME IInv, NEW a \in Holds, NEW b \in Holds, NEW t \in Instants,
                    a.robot # b.robot, Covers(a, t), Covers(b, t),
                    a.targets \cap b.targets # {}
             PROVE  BothShared(a, b)
  BY DEF ExclusiveSafety
<1>1. IsHold(a) /\ IsHold(b) /\ t \in Nat
  BY HoldsAreHolds, InstantsAreTicks DEF IInv
<1>2. WindowsOverlap(a, b)
  BY <1>1, CoveredInstantsOverlap
<1>3. Compatible(World, a, b)
  BY DEF IInv, AllCompatible
<1> QED BY <1>1, <1>2, <1>3, CompatibleExcludes

LEMMA IInvReserves == IInv => ZoneReservation
<1> SUFFICES ASSUME IInv, NEW a \in Holds, NEW b \in Holds, NEW t \in Instants,
                    a.robot # b.robot, a.mode = "exclusive",
                    Covers(a, t), Covers(b, t),
                    NEW z \in a.targets \cap Zones,
                    TargetsOccupyZone(World, b.targets, z)
             PROVE  FALSE
  BY DEF ZoneReservation
<1>1. IsHold(a) /\ IsHold(b) /\ t \in Nat
  BY HoldsAreHolds, InstantsAreTicks DEF IInv
<1>2. WindowsOverlap(a, b)
  BY <1>1, CoveredInstantsOverlap
<1>3. Compatible(World, a, b)
  BY DEF IInv, AllCompatible
<1>4. BothShared(a, b)
  BY <1>2, <1>3, CompatibleReserves
<1> QED BY <1>4 DEF BothShared

(* No two robots ever hold one resource at one instant when either holds it *)
(* exclusively, for every workspace, fleet, window and order of calls: as   *)
(* long as the id counter is not used up, and callers have a lease's       *)
(* extension evaluated (evaluate_request, upsert_request_for_robot).       *)
THEOREM ExclusiveSafetyHolds ==
    ASSUME MaxMint < IdCeiling, Reevaluate
    PROVE  Spec => []ExclusiveSafety
<1>1. Spec => []IInv
  BY Invariance
<1> QED BY <1>1, IInvExcludes, PTL

(* A zone held exclusively is held whole, at any depth of nesting: nobody   *)
(* else ever holds a zone around it, within it, or anything inside it       *)
(* (cross_level_compatible_with_index, zone_claims_compatible_with_index). *)
THEOREM ZoneReservationHolds ==
    ASSUME MaxMint < IdCeiling, Reevaluate
    PROVE  Spec => []ZoneReservation
<1>1. Spec => []IInv
  BY Invariance
<1> QED BY <1>1, IInvReserves, PTL

-----------------------------------------------------------------------------
(* The ledger has one entry per robot and ground.                          *)
OneEntryEach(rs) ==
    \A q, r \in rs : q.robot = r.robot /\ q.targets = r.targets => q = r

LEMMA FirstsExist ==
    ASSUME NEW rs, rs \subseteq Request, rs # {}
    PROVE  Firsts(rs) # {}
<1> DEFINE slots == {r.slot : r \in rs}
<1>1. slots \subseteq Nat /\ slots # {}
  BY DEF Request
<1>2. PICK n \in slots : \A m \in slots : n <= m
  BY <1>1, LeastNat
<1>3. PICK r \in rs : r.slot = n
  BY <1>2
<1> QED BY <1>2, <1>3 DEF Firsts

(* Claiming the same ground again replaces, and claiming other ground adds. *)
LEMMA UpsertedOneEntryEach ==
    ASSUME NEW rs, rs \subseteq Request, OneEntryEach(rs), NEW q \in Request
    PROVE  OneEntryEach(Upserted(rs, q))
<1> DEFINE old == Firsts(SameClaim(rs, q))
<1>1. SameClaim(rs, q) \subseteq rs
  BY DEF SameClaim
<1>2. CASE old = {}
  <2>1. \A r \in rs : ~(r.robot = q.robot /\ r.targets = q.targets)
    BY <1>1, <1>2, FirstsExist DEF SameClaim
  <2>2. Upserted(rs, q) = rs \cup {[q EXCEPT !.slot = q.id]}
    BY <1>2 DEF Upserted
  <2>3. /\ [q EXCEPT !.slot = q.id].robot = q.robot
        /\ [q EXCEPT !.slot = q.id].targets = q.targets
    BY DEF Request
  <2> QED BY <2>1, <2>2, <2>3 DEF OneEntryEach
<1>3. CASE old # {}
  <2> DEFINE first == CHOOSE r \in old : TRUE
             moved == [q EXCEPT !.slot = first.slot]
  <2>1. first \in rs /\ first.robot = q.robot /\ first.targets = q.targets
    BY <1>3 DEF Firsts, SameClaim
  <2>2. Upserted(rs, q) = (rs \ {first}) \cup {moved}
    BY <1>3 DEF Upserted
  <2>3. moved.robot = q.robot /\ moved.targets = q.targets
    BY DEF Request
  <2> HIDE DEF first, moved
  <2>4. \A r \in rs \ {first} : ~(r.robot = q.robot /\ r.targets = q.targets)
    BY <2>1 DEF OneEntryEach
  <2> QED BY <2>2, <2>3, <2>4 DEF OneEntryEach
<1> QED BY <1>2, <1>3

LEMMA NextOneEntry ==
    ASSUME TypeOK, OneEntryPerGround, [Next]_vars
    PROVE  OneEntryPerGround'
<1>1. OneEntryEach(requests)
  BY DEF OneEntryPerGround, OneEntryEach
<1>2. ASSUME requests' \subseteq requests
      PROVE  OneEntryPerGround'
  BY <1>2 DEF OneEntryPerGround
<1>3. ASSUME NEW robot \in Robots, NEW mode \in Modes, NEW targets \in GroundSets,
             NEW w \in Windows(now), Claim(robot, mode, targets, w)
      PROVE  OneEntryPerGround'
  <2> DEFINE id == MintedId(requests, leases, nextId)
             q  == ClaimRecord(id, robot, mode, targets, w.start, w.end)
  <2>1. q \in Request
    BY <1>3, CallsAreWellFormed, ClaimShape
  <2>2. requests' = requests \/ requests' = Upserted(requests, q)
    BY <1>3 DEF Claim, ClaimRecord
  <2> HIDE DEF q
  <2>3. OneEntryEach(Upserted(requests, q))
    BY <1>1, <2>1, UpsertedOneEntryEach DEF TypeOK
  <2> QED BY <1>1, <2>2, <2>3 DEF OneEntryPerGround, OneEntryEach
<1>4. CASE RequestStep
  BY <1>2, <1>3, <1>4 DEF RequestStep, Release, RemoveRequest
<1>5. CASE LeaseStep
  BY <1>2, <1>5
     DEF LeaseStep, GrantLease, AddLease, EndLease, RemoveLease, RefreshLease
<1>6. ASSUME NEW robot \in Robots, RemoveRobot(robot)
      PROVE  OneEntryPerGround'
  BY <1>2, <1>6 DEF RemoveRobot, WithoutRobot
<1>7. CASE ExpireClaims \/ Clear \/ Tick \/ UNCHANGED vars
  BY <1>2, <1>7 DEF ExpireClaims, Unexpired, Clear, Tick, vars, ledger
<1> QED BY <1>4, <1>5, <1>6, <1>7 DEF Next

(* However often a robot claims the same ground again, the ledger holds one *)
(* entry for it (upsert_request_for_robot).                                *)
THEOREM OneEntryPerGroundHolds == Spec => []OneEntryPerGround
<1>1. Init => OneEntryPerGround
  BY DEF Init, OneEntryPerGround
<1>2. TypeOK /\ OneEntryPerGround /\ [Next]_vars => OneEntryPerGround'
  BY NextOneEntry
<1> QED BY <1>1, <1>2, TypeCorrect, PTL DEF Spec

-----------------------------------------------------------------------------
(* Whose ground a step changes.                                            *)
ChangesOnly(robot) ==
    \A h \in (Holds \ Holds') \cup (Holds' \ Holds) : h.robot = robot

LEMMA OneRobotAtMost ==
    ASSUME NEW robot, \A h \in ChangedHolds : h.robot = robot
    PROVE  Cardinality({h.robot : h \in ChangedHolds}) <= 1
<1> DEFINE S == {h.robot : h \in ChangedHolds}
<1>1. S \subseteq {robot}
  OBVIOUS
<1> HIDE DEF S
<1>2. S = {} \/ S = {robot}
  BY <1>1
<1>3. Cardinality(S) = 0 \/ Cardinality(S) = 1
  <2>1. Cardinality({}) = 0 /\ Cardinality({robot}) = 1
    BY FS_EmptySet, FS_Singleton
  <2> QED BY <1>2, <2>1
<1>4. Cardinality(S) <= 1
  BY <1>3
<1> QED BY <1>4 DEF S

LEMMA ClaimChangesOne ==
    ASSUME TypeOK, NEW robot \in Robots, NEW mode \in Modes,
           NEW targets, targets \subseteq Resources,
           NEW w, w.start \in Nat, w.end \in Nat,
           Claim(robot, mode, targets, w)
    PROVE  ChangesOnly(robot)
<1> DEFINE id == MintedId(requests, leases, nextId)
           q  == ClaimRecord(id, robot, mode, targets, w.start, w.end)
           old == Firsts(SameClaim(requests, q))
           one == CHOOSE x \in old : TRUE
           moved(n) == [q EXCEPT !.slot = n]
<1>1. /\ leases' = leases
      /\ requests' = requests \/ requests' = Upserted(requests, q)
  BY DEF Claim, ClaimRecord
<1>2. q \in Request /\ q.robot = robot
  BY ClaimShape DEF ClaimRecord
<1> HIDE DEF q
<1>3. \A n : moved(n).robot = robot
  BY <1>2 DEF Request
<1>4. CASE requests' = requests
  BY <1>1, <1>4 DEF ChangesOnly, Holds
<1>5. CASE requests' = Upserted(requests, q) /\ old = {}
  <2>1. requests' = requests \cup {moved(q.id)}
    BY <1>5 DEF Upserted
  <2> HIDE DEF moved
  <2> QED BY <1>1, <1>3, <2>1 DEF ChangesOnly, Holds
<1>6. CASE requests' = Upserted(requests, q) /\ old # {}
  <2>1. requests' = (requests \ {one}) \cup {moved(one.slot)}
    BY <1>6 DEF Upserted
  <2>2. one.robot = robot
    BY <1>2, <1>6 DEF Firsts, SameClaim
  <2> HIDE DEF moved, one
  <2> QED BY <1>1, <1>3, <2>1, <2>2 DEF ChangesOnly, Holds
<1> QED BY <1>1, <1>4, <1>5, <1>6

LEMMA NextChangesOne ==
    ASSUME TypeOK, Next
    PROVE  \/ \E robot \in Robots : ChangesOnly(robot) /\ now' = now
           \/ ExpireClaims
           \/ Clear
           \/ Tick
<1>1. ASSUME NEW robot \in Robots, NEW mode \in Modes, NEW targets \in GroundSets,
             NEW w \in Windows(now), Claim(robot, mode, targets, w)
      PROVE  ChangesOnly(robot)
  BY <1>1, CallsAreWellFormed, ClaimChangesOne
<1>2. ASSUME NEW robot \in Robots, NEW resource \in Resources, Release(robot, resource)
      PROVE  ChangesOnly(robot)
  BY <1>2 DEF Release, Firsts, HeldOn, ChangesOnly, Holds
<1>3. ASSUME NEW r \in requests, RemoveRequest(r)
      PROVE  ChangesOnly(r.robot)
  BY <1>3 DEF RemoveRequest, ChangesOnly, Holds
<1>4. ASSUME NEW r \in requests, NEW id, NEW claim, NEW end, GrantLease(r, id, claim, end)
      PROVE  ChangesOnly(r.robot)
  <2> DEFINE lease == [id |-> id, claim |-> claim, robot |-> r.robot,
                       mode |-> r.mode, start |-> r.start, end |-> end,
                       targets |-> r.targets]
  <2>1. /\ leases' = {l \in leases : l.id # lease.id} \cup {lease}
        /\ requests' = requests
        /\ \A l \in leases : l.id = id => l.robot = r.robot
    BY <1>4 DEF GrantLease, AddLease
  <2>2. lease.robot = r.robot /\ lease.id = id
    OBVIOUS
  <2> HIDE DEF lease
  <2> QED BY <2>1, <2>2 DEF ChangesOnly, Holds
<1>5. ASSUME NEW l \in leases, leases' = leases \ {l}, requests' = requests
      PROVE  ChangesOnly(l.robot)
  BY <1>5 DEF ChangesOnly, Holds
<1>6. ASSUME NEW l \in leases, NEW end, RefreshLease(l, end)
      PROVE  ChangesOnly(l.robot)
  <2> DEFINE lease == [l EXCEPT !.end = end]
  <2>1. leases' = (leases \ {l}) \cup {lease} /\ requests' = requests
    BY <1>6 DEF RefreshLease
  <2>2. lease.robot = l.robot
    BY DEF TypeOK, Lease
  <2> HIDE DEF lease
  <2> QED BY <2>1, <2>2 DEF ChangesOnly, Holds
<1>7. ASSUME RequestStep PROVE \E robot \in Robots : ChangesOnly(robot) /\ now' = now
  <2>1. \A r \in requests : r.robot \in Robots
    BY DEF TypeOK, Request
  <2>2. now' = now
    BY <1>7 DEF RequestStep, Claim, Release, RemoveRequest
  <2> QED BY <1>1, <1>2, <1>3, <1>7, <2>1, <2>2 DEF RequestStep
<1>8. ASSUME LeaseStep PROVE \E robot \in Robots : ChangesOnly(robot) /\ now' = now
  <2>1. /\ \A r \in requests : r.robot \in Robots
        /\ \A l \in leases : l.robot \in Robots
    BY DEF TypeOK, Request, Lease
  <2>2. now' = now
    BY <1>8 DEF LeaseStep, GrantLease, AddLease, EndLease, RemoveLease, RefreshLease
  <2> QED BY <1>4, <1>5, <1>6, <1>8, <2>1, <2>2 DEF LeaseStep, EndLease, RemoveLease
<1>9. ASSUME NEW robot \in Robots, RemoveRobot(robot)
      PROVE  ChangesOnly(robot) /\ now' = now
  BY <1>9 DEF RemoveRobot, WithoutRobot, ChangesOnly, Holds
<1> QED BY <1>7, <1>8, <1>9 DEF Next

(* One call changes the ground of one robot, unless it clears the ledger:   *)
(* whatever else lapses was over (upsert_request_for_robot, upsert_lease,   *)
(* remove_requests_for_robot, expire_requests, expire_leases).             *)
THEOREM OneRobotPerStepHolds == Spec => OneRobotPerStep
<1>1. TypeOK /\ [Next]_vars
        => [ \/ Cardinality({h.robot : h \in ChangedHolds}) <= 1
             \/ Holds' = {} ]_vars
  <2> SUFFICES ASSUME TypeOK, Next
               PROVE  Cardinality({h.robot : h \in ChangedHolds}) <= 1 \/ Holds' = {}
    OBVIOUS
  <2>1. ASSUME NEW robot, ChangesOnly(robot)
        PROVE  Cardinality({h.robot : h \in ChangedHolds}) <= 1
    BY <2>1, OneRobotAtMost DEF ChangesOnly, ChangedHolds
  <2>2. CASE ExpireClaims \/ Tick
    <3>1. ChangedHolds = {}
      BY <2>2 DEF ExpireClaims, Unexpired, Tick, ledger, ChangedHolds, Holds
    <3> QED BY <3>1, OneRobotAtMost
  <2>3. CASE Clear
    BY <2>3 DEF Clear, Holds
  <2> QED BY <2>1, <2>2, <2>3, NextChangesOne
<1> QED BY <1>1, TypeCorrect, PTL DEF Spec, OneRobotPerStep

(* However often a robot renewed a claim and whoever shares the ground, one *)
(* release of it lets go of the claim and of nothing else                  *)
(* (release_request_for_robot_target).                                     *)
THEOREM ReleaseLetsGoHolds == Spec => ReleaseLetsGo
<1>1. ASSUME OneEntryPerGround, NEW robot, NEW resource, NEW own,
             own = { r \in requests : r.robot = robot /\ resource \in r.targets },
             Release(robot, resource), \A q, r \in own : q.targets = r.targets
      PROVE  requests' = requests \ own
  <2>1. PICK r \in own : requests' = requests \ {r}
    BY <1>1 DEF Release, Firsts, HeldOn
  <2>2. \A q \in own : q = r
    BY <1>1 DEF OneEntryPerGround
  <2> QED BY <2>1, <2>2
<1>2. OneEntryPerGround /\ [Next]_vars
        => [ \A robot \in Robots, resource \in Resources :
               LET own == { r \in requests : r.robot = robot /\ resource \in r.targets }
               IN  /\ Release(robot, resource)
                   /\ \A q, r \in own : q.targets = r.targets
                   => requests' = requests \ own ]_vars
  BY <1>1
<1> QED BY <1>2, OneEntryPerGroundHolds, PTL DEF Spec, ReleaseLetsGo

=============================================================================
