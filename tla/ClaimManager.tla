----------------------------- MODULE ClaimManager -----------------------------
(***************************************************************************)
(* The ledger of src/src/claim/manager.rs: who holds what, until when, and *)
(* every operation that changes it.                                        *)
(*                                                                         *)
(* Each operation takes &mut self, and the server calls it under the       *)
(* coordinator's write lock, so one call is one step.  The caller is a     *)
(* library user, the FFI or the Python binding: it asks for an evaluation  *)
(* and records the claim when the answer is Grant, then may turn the claim *)
(* into leases.  CoreServer composes the same operations into the handlers *)
(* of the wire.                                                            *)
(*                                                                         *)
(* active_requests is a Vec that only grows at its end and whose elements  *)
(* are replaced in place, and its order matters only to `the first match'. *)
(* It is a set here, with the position of an element kept as the id of the *)
(* claim that opened it (slot).  released_leases is only ever appended to  *)
(* and reported, so it is the set of what was archived and why.            *)
(***************************************************************************)
EXTENDS ClaimRules

CONSTANTS
    Robots,         \* robot ids
    World,          \* the workspace the manager is bound to
    GroundSets,     \* the target lists callers ask for, as sets
    LeaseIds,       \* lease ids callers choose
    ForeignClaims,  \* claim ids callers put in a lease without a request of that id
    Leads,          \* how far ahead of now a timed claim may start
    Lengths,        \* how long a timed claim may last
    Reevaluate,     \* whether callers have an extension evaluated first
    IdCeiling,      \* u64::MAX, where the id counter saturates
    MaxMint,        \* bound: no id above it is minted
    MaxTick         \* bound: the clock stops there

ASSUME ManagerAssumption ==
    /\ IsWorkspace(World)
    /\ GroundSets \subseteq (SUBSET Resources)
    /\ ForeignClaims \subseteq 1..IdCeiling
    /\ Leads \subseteq Nat
    /\ Lengths \subseteq Nat \ {0}
    /\ Reevaluate \in BOOLEAN
    /\ IdCeiling \in Nat \ {0}
    /\ MaxMint \in Nat
    /\ MaxTick \in Nat

VARIABLES
    requests,       \* active_requests
    leases,         \* active_leases
    archive,        \* released_leases
    nextId,         \* next_id
    now             \* the tick callers pass in

ledger == <<requests, leases, archive, nextId>>
vars   == <<ledger, now>>

Request == [id : Nat, slot : Nat, robot : Robots, mode : Modes,
            start : Nat, end : Nat, targets : SUBSET Resources]

Lease == [id : LeaseIds, claim : Nat, robot : Robots, mode : Modes,
          start : Nat, end : Nat, targets : SUBSET Resources]

Archived == [id : LeaseIds, why : {"released", "revoked", "expired"}]

(* The windows a caller may ask for: an open one, which is what an absent   *)
(* lease time gives, or a bounded one at or ahead of the clock.            *)
OpenWindow == [start |-> 0, end |-> Forever]

Windows(t) ==
    {OpenWindow} \cup { [start |-> t + lead, end |-> t + lead + length] :
                            lead \in Leads, length \in Lengths }

-----------------------------------------------------------------------------
(* The pieces the operations are made of, as functions of the ledger.      *)

LiveIds(rs, ls) == {r.id : r \in rs} \cup {l.claim : l \in ls}

(* next_request_id: the counter, or one past the largest live id, whichever *)
(* is larger, and never past the ceiling.                                  *)
MintedId(rs, ls, counter) ==
    LET free == { n \in counter..IdCeiling : \A i \in LiveIds(rs, ls) : i < n }
    IN  IF free = {} THEN IdCeiling
                     ELSE CHOOSE n \in free : \A m \in free : n <= m

Saturating(n) == IF n < IdCeiling THEN n ELSE IdCeiling

(* The first of a set of ledger entries, in Vec order.  Only entries opened *)
(* at the saturated id can tie.                                            *)
Firsts(rs) == { r \in rs : \A other \in rs : r.slot <= other.slot }

(* same_target_set alone: whose entry it is does not matter.                *)
SameGroundOnly(rs, q) == { r \in rs : r.targets = q.targets }

(* The entries upsert_request_for_robot would take for a re-claim.         *)
SameClaim(rs, q) == { r \in rs : r.robot = q.robot /\ r.targets = q.targets }

(* upsert_request_for_robot that always appends.                           *)
Appended(rs, q) == rs \cup {[q EXCEPT !.slot = q.id]}

(* upsert_request_for_robot: replace the first match in place, or append.  *)
Upserted(rs, q) ==
    LET old == Firsts(SameClaim(rs, q))
    IN  IF old = {}
        THEN rs \cup {[q EXCEPT !.slot = q.id]}
        ELSE LET first == CHOOSE r \in old : TRUE
             IN  (rs \ {first}) \cup {[q EXCEPT !.slot = first.slot]}

(* expire_requests and expire_leases keep what ends after the tick.        *)
Unexpired(holds, t) == { h \in holds : t < h.end }

(* remove_requests_for_robot and release_leases_for_robot keep the rest.   *)
WithoutRobot(holds, r) == { h \in holds : h.robot # r }

(* release_request_for_robot_target that forgets whose claim it is.         *)
AnyHolderOf(rs, robot, resource) == { r \in rs : resource \in r.targets }

(* The entries release_request_for_robot_target may take.                  *)
HeldOn(rs, robot, resource) ==
    { r \in rs : r.robot = robot /\ resource \in r.targets }

Archiving(ls, reason) == { [id |-> l.id, why |-> reason] : l \in ls }

-----------------------------------------------------------------------------
(* A counter that starts at the id reserved for `none'.                     *)
InitAtZero ==
    /\ requests = {}
    /\ leases = {}
    /\ archive = {}
    /\ nextId = 0
    /\ now = 0

Init ==
    /\ requests = {}
    /\ leases = {}
    /\ archive = {}
    /\ nextId = 1
    /\ now = 0

(* evaluate_request and, on Grant, upsert_request_for_robot, under an id    *)
(* from next_request_id.  A refusal still uses the id up.                   *)
Claim(robot, mode, targets, window) ==
    LET id == MintedId(requests, leases, nextId)
        q  == [id |-> id, slot |-> id, robot |-> robot, mode |-> mode,
               start |-> window.start, end |-> window.end, targets |-> targets]
    IN  /\ id <= MaxMint
        /\ nextId' = Saturating(id + 1)
        /\ requests' = IF Granted(World, requests, leases, q)
                       THEN Upserted(requests, q)
                       ELSE requests
        /\ UNCHANGED <<leases, archive, now>>

(* release_request_for_robot_target: the whole claim goes, whatever else it *)
(* covers, and any other claim of the robot on the resource stays.         *)
Release(robot, resource) ==
    /\ \E r \in Firsts(HeldOn(requests, robot, resource)) :
           requests' = requests \ {r}
    /\ UNCHANGED <<leases, archive, nextId, now>>

(* remove_request.                                                         *)
RemoveRequest(r) ==
    /\ requests' = requests \ {r}
    /\ UNCHANGED <<leases, archive, nextId, now>>

(* remove_requests_for_robot with release_leases_for_robot, the pair that  *)
(* unregistering a robot and sweeping it both call.                        *)
RemoveRobot(robot) ==
    /\ requests' = WithoutRobot(requests, robot)
    /\ leases' = WithoutRobot(leases, robot)
    /\ archive' = archive \cup Archiving(leases \ leases', "released")
    /\ UNCHANGED <<nextId, now>>

(* expire_claims: expire_requests, then expire_leases.                     *)
ExpireClaims ==
    /\ requests' = Unexpired(requests, now)
    /\ leases' = Unexpired(leases, now)
    /\ archive' = archive \cup Archiving(leases \ leases', "expired")
    /\ UNCHANGED <<nextId, now>>

-----------------------------------------------------------------------------
(* upsert_lease.                                                           *)
AddLease(lease) ==
    /\ leases' = { l \in leases : l.id # lease.id } \cup {lease}
    /\ UNCHANGED <<requests, archive, nextId, now>>

(* A caller turns a claim it was granted into a lease over the same ground, *)
(* ending no later than the claim.  It renews a lease id only for the same  *)
(* robot, and files the lease under its claim's id or one of its own.       *)
GrantLease(r, id, claim, end) ==
    /\ r.start <= end /\ end <= r.end
    /\ \A l \in leases : l.id = id => l.robot = r.robot
    /\ AddLease([id |-> id, claim |-> claim, robot |-> r.robot, mode |-> r.mode,
                 start |-> r.start, end |-> end, targets |-> r.targets])

(* release_lease and revoke_lease archive the lease, remove_lease does not. *)
EndLease(l, reason) ==
    /\ leases' = leases \ {l}
    /\ archive' = archive \cup Archiving({l}, reason)
    /\ UNCHANGED <<requests, nextId, now>>

RemoveLease(l) ==
    /\ leases' = leases \ {l}
    /\ UNCHANGED <<requests, archive, nextId, now>>

(* refresh_lease: any active lease takes the new expiry, lapsed or not, and *)
(* nothing is evaluated again.  Reevaluate is a discipline of the caller:   *)
(* it asks evaluate_request about a later expiry (under claim id 0, which   *)
(* no live claim has) before it refreshes.                                 *)
RefreshLease(l, end) ==
    /\ Reevaluate /\ l.end < end =>
           Granted(World, requests, leases,
                   [id |-> 0, slot |-> 0, robot |-> l.robot, mode |-> l.mode,
                    start |-> l.start, end |-> end, targets |-> l.targets])
    /\ leases' = (leases \ {l}) \cup {[l EXCEPT !.end = end]}
    /\ UNCHANGED <<requests, archive, nextId, now>>

(* clear keeps the id counter.                                             *)
Clear ==
    /\ requests' = {}
    /\ leases' = {}
    /\ archive' = {}
    /\ UNCHANGED <<nextId, now>>

Tick ==
    /\ now < MaxTick
    /\ now' = now + 1
    /\ UNCHANGED ledger

RequestStep ==
    \/ \E robot \in Robots, mode \in Modes, targets \in GroundSets,
          window \in Windows(now) : Claim(robot, mode, targets, window)
    \/ \E robot \in Robots, resource \in Resources : Release(robot, resource)
    \/ \E r \in requests : RemoveRequest(r)

LeaseStep ==
    \/ \E r \in requests, id \in LeaseIds :
          \E claim \in {r.id} \cup ForeignClaims :
             \E end \in {r.end} \cup {now + length : length \in Lengths} :
                GrantLease(r, id, claim, end)
    \/ \E l \in leases, reason \in {"released", "revoked"} : EndLease(l, reason)
    \/ \E l \in leases : RemoveLease(l)
    \/ \E l \in leases, length \in Lengths : RefreshLease(l, now + length)

Next ==
    \/ RequestStep
    \/ LeaseStep
    \/ \E robot \in Robots : RemoveRobot(robot)
    \/ ExpireClaims
    \/ Clear
    \/ Tick

Spec == Init /\ [][Next]_vars

-----------------------------------------------------------------------------
(* Properties.                                                             *)

Holds == requests \cup leases

Covers(h, t) == h.start <= t /\ t <= h.end

(* The most crowded instant of a set of windows is where one of them opens. *)
Instants == {h.start : h \in Holds}

(* The ledger holds what the Rust types say, with ids that were minted from *)
(* 1 up (the id 0 of an unset ClaimId never enters it).                    *)
TypeOK ==
    /\ requests \subseteq Request
    /\ leases \subseteq Lease
    /\ archive \subseteq Archived
    /\ nextId \in 1..IdCeiling
    /\ now \in Nat
    /\ \A i \in LiveIds(requests, leases) : 1 <= i /\ i <= IdCeiling

(* Two robots never hold one resource at one instant when either holds it   *)
(* exclusively, however the two holds were obtained: by a claim, a re-claim *)
(* in place, a lease, or a refreshed lease (check_exclusive_safety of       *)
(* tests/claim_properties.rs, extended to leases and windows).             *)
ExclusiveSafety ==
    \A a, b \in Holds : \A t \in Instants :
        /\ a.robot # b.robot
        /\ Covers(a, t) /\ Covers(b, t)
        /\ a.targets \cap b.targets # {}
        => BothShared(a, b)

(* A zone held exclusively is held whole: while it is, no other robot holds *)
(* a zone above or below it, at any depth, or a node or edge inside it      *)
(* (the bridge rule of cross_level_compatible_with_index and of            *)
(* zone_claims_compatible_with_index, whichever side claimed first).       *)
ZoneReservation ==
    \A a, b \in Holds : \A t \in Instants :
        /\ a.robot # b.robot
        /\ a.mode = "exclusive"
        /\ Covers(a, t) /\ Covers(b, t)
        => \A z \in a.targets \cap Zones :
               ~TargetsOccupyZone(World, b.targets, z)

(* The robots that some hold puts inside a zone at an instant: they hold    *)
(* the zone, a zone within it, or a node or edge within it.                *)
Present(z, t) ==
    {h.robot : h \in { g \in Holds :
        /\ Covers(g, t)
        /\ \/ \E x \in g.targets \cap Zones : ZoneContains(World, z, x)
           \/ \E u \in g.targets \cap Spatial : Inside(World, u, z) }}

(* A zone never admits more robots at one instant than its policy says,     *)
(* counting those inside a zone, node or edge below it, though evaluation   *)
(* looks only at the windows and the zones of the claim being decided       *)
(* (first_occupancy_violation).                                            *)
ZoneCapacity ==
    \A z \in Zones : Limited(World, z) =>
        \A t \in Instants :
            Cardinality(Present(z, t)) <= OccupancyLimit(World, z)

(* An edge with an explicit capacity above one never carries more sharers   *)
(* than that at one instant (first_edge_capacity_violation).               *)
EdgeCapacity ==
    \A e \in Edges : World.edgeCapacity[e] > 1 =>
        \A t \in Instants :
            Cardinality({h.robot : h \in { g \in Holds :
                            Covers(g, t) /\ e \in g.targets }})
                <= World.edgeCapacity[e]

(* Claiming the same ground again never adds a second entry for it, so the  *)
(* ledger cannot grow by repetition (upsert_request_for_robot).            *)
OneEntryPerGround ==
    \A q, r \in requests :
        q.robot = r.robot /\ q.targets = r.targets => q = r

(* The id the next claim would get belongs to no live claim or lease, also  *)
(* when callers' leases carry ids near the top of u64, as the comment of    *)
(* next_id says (manager.rs:24-26).  evaluate_request skips entries by id,  *)
(* so a repeated id would hide a conflict.                                 *)
MintedIdIsFresh ==
    MintedId(requests, leases, nextId) \notin LiveIds(requests, leases)

(* One call changes the ground of one robot: the holds that appear, and     *)
(* those that leave or change before they end, are all of the same robot,  *)
(* unless the whole ledger is cleared (upsert_request_for_robot,           *)
(* remove_requests_for_robot, expire_requests, expire_leases).             *)
ChangedHolds == { h \in Holds \ Holds' : now < h.end } \cup (Holds' \ Holds)

OneRobotPerStep ==
    [][ \/ Cardinality({h.robot : h \in ChangedHolds}) <= 1
        \/ Holds' = {} ]_vars

(* One release is enough: where all claims of a robot on a resource ask for *)
(* the same ground, giving the resource back ends them, however often the   *)
(* robot renewed them and whoever shares the resource, and takes nothing    *)
(* else (release_request_for_robot_target removes the first match only).    *)
ReleaseLetsGo ==
    [][ \A robot \in Robots, resource \in Resources :
            LET own == { r \in requests : r.robot = robot /\ resource \in r.targets }
            IN  /\ Release(robot, resource)
                /\ \A q, r \in own : q.targets = r.targets
                => requests' = requests \ own ]_vars

(* A robot that asks again for exactly what it holds is granted it          *)
(* (a_robot_can_always_reclaim_what_it_holds of tests/claim_properties.rs). *)
CanReclaim ==
    \A r \in requests :
        Granted(World, requests, leases, [r EXCEPT !.id = 0])

-----------------------------------------------------------------------------
(* The ledger as a table of locks.                                         *)

RightsOf(h) ==
    { [robot |-> h.robot, on |-> x, mode |-> h.mode, start |-> h.start, end |-> h.end] :
        x \in h.targets }

Rights(holds) == UNION {RightsOf(h) : h \in holds}

(* A zone held exclusively takes with it what lies above, below and in it.  *)
Reserved ==
    { p \in Resources \X Resources :
        p[1] = p[2] \/ (p[1] \in Zones /\ TargetsOccupyZone(World, {p[2]}, p[1])) }

LimitedResources ==
    {z \in Zones : Limited(World, z)} \cup {e \in Edges : World.edgeCapacity[e] > 1}

Limit ==
    [x \in LimitedResources |->
        IF x \in Zones THEN OccupancyLimit(World, x) ELSE World.edgeCapacity[x]]

Counted ==
    [x \in LimitedResources |->
        IF x \in Zones
        THEN { y \in Resources :
                 \/ y \in Zones /\ ZoneContains(World, x, y)
                 \/ y \in Spatial /\ Inside(World, y, x) }
        ELSE {x}]

Locks == INSTANCE LockTable WITH rights <- Rights(Holds)

(* Whatever calls are made in whatever order, requests and leases together  *)
(* are a table of locks: each call changes what one robot may use, to       *)
(* something that fits beside the rights of all others, whichever way it    *)
(* came by it, and takes nothing from anybody else before its time is over  *)
(* (evaluate_request, upsert_request_for_robot, upsert_lease,               *)
(* refresh_lease, expire_claims).                                          *)
KeepsTheLocks == Locks!Spec

=============================================================================
