------------------------------ MODULE Scheduling ------------------------------
(***************************************************************************)
(* Plans, progress and reservations: the RobotState of src/src/robot.rs    *)
(* and the Coordinator operations of src/src/coordinator.rs that move it,  *)
(* over the claim ledger.                                                  *)
(*                                                                         *)
(* The program that owns the coordinator (a library user, the Python       *)
(* binding, or flat_heartbeat for the reports) calls one operation after   *)
(* another; the robots drive meanwhile, and where a robot really is        *)
(* (place) is known to the coordinator only from its reports (node).       *)
(*                                                                         *)
(* A plan is the sequence of its nodes, of the edges between them and of   *)
(* the cumulative costs of its steps, in halves of a cost unit.  Positions *)
(* in it count from 1.                                                     *)
(***************************************************************************)
EXTENDS ClaimManager, Arbitration, Sequences

CONSTANTS
    Steered,        \* robots that drive by plans; the others only hold ground
    AskedModes,     \* the access modes callers ask for
    Plans,          \* the route plans callers assign
    NoPlan,         \* route_plan = None
    Unknown,        \* current_node_id = None
    None,           \* scheduled_start_tick = None
    NoWaiting,      \* zones and edges where nobody may wait
    Horizon,        \* steps a rolling claim looks ahead
    TicksPerCost,   \* ticks_per_cost_unit, as callers that schedule give it
    Graces,         \* grace ticks callers allow for a slot
    Extensions,     \* how far callers extend leases
    MaxEnd          \* bound: no lease is extended beyond it

ASSUME ScheduleAssumption ==
    /\ Steered \subseteq Robots
    /\ AskedModes \subseteq Modes
    /\ NoPlan \notin Plans
    /\ Unknown \notin Nodes
    /\ None \notin Nat
    /\ NoWaiting \subseteq (Zones \cup Edges)
    /\ Horizon \in Nat \ {0}
    /\ TicksPerCost \in Nat
    /\ Graces \subseteq Nat
    /\ Extensions \subseteq Nat
    /\ MaxEnd \in Nat
    /\ \A p \in Plans :
        /\ p.nodes \in Seq(Nodes)
        /\ p.edges \in Seq(Edges)
        /\ p.cost \in Seq(Nat)
        /\ Len(p.nodes) > 0
        /\ Len(p.edges) + 1 = Len(p.nodes)
        /\ Len(p.cost) = Len(p.nodes)
        /\ p.cost[1] = 0
        /\ \A i \in 1..Len(p.edges) : p.cost[i] <= p.cost[i + 1]

VARIABLES
    fleet,          \* robots with a RobotState
    state,          \* their RobotStates
    place           \* the step of its plan a robot is really at, 0 when off it

schedVars == <<vars, fleet, state, place>>

RobotState ==
    [plan : Plans \cup {NoPlan}, node : Nodes \cup {Unknown}, next : Nat \ {0},
     progress : Progress, needsReplan : BOOLEAN, scheduled : Nat \cup {None},
     wait : Nat, updated : Nat, leaseIds : SUBSET LeaseIds]

(* RobotState::default(), which both ways of registering start from.       *)
Default == [plan |-> NoPlan, node |-> Unknown, next |-> 1, progress |-> "idle",
            needsReplan |-> FALSE, scheduled |-> None, wait |-> 0,
            updated |-> 0, leaseIds |-> {}]

-----------------------------------------------------------------------------
(* Positions on a plan.                                                    *)

OnPlan(p, n) == \E i \in DOMAIN p.nodes : p.nodes[i] = n

(* The step after the one found.                                            *)
OnePast(p, n) ==
    1 + CHOOSE i \in DOMAIN p.nodes :
        p.nodes[i] = n /\ \A j \in 1..(i - 1) : p.nodes[j] # n

(* iter().position: the first of possibly several passages.                *)
FirstAt(p, n) ==
    CHOOSE i \in DOMAIN p.nodes :
        p.nodes[i] = n /\ \A j \in 1..(i - 1) : p.nodes[j] # n

(* route_progress_index: where the robot was last seen on its plan, or the *)
(* step it was last told to take.                                          *)
ProgressIndex(s) == IF OnPlan(s.plan, s.node) THEN FirstAt(s.plan, s.node)
                                              ELSE s.next

(* What a plan still needs from a step on: nodes, edges and their zones.    *)
Filed(ts) == ts \cup UNION {World.zonesOf[t] : t \in ts}

NodesFrom(p, i) == {p.nodes[k] : k \in i..Len(p.nodes)}
EdgesFrom(p, i) == {p.edges[k] : k \in i..Len(p.edges)}

(* The ground from the next step on: the step the robot is at is forgotten. *)
RemainingAfter(p, i) == Filed(NodesFrom(p, i + 1) \cup EdgesFrom(p, i + 1))

Remaining(p, i) == Filed(NodesFrom(p, i) \cup EdgesFrom(p, i))

-----------------------------------------------------------------------------
(* Costs and ticks.                                                        *)

(* ceil() of a cost in halves.                                              *)
Ceiling(halves) == (halves + 1) \div 2

(* tick_at_step: how long a robot is taken to be under way for a cost.      *)
Ticks(cost) == Ceiling(cost * TicksPerCost)

-----------------------------------------------------------------------------
(* The rolling claim.                                                      *)

Least(a, b) == IF a < b THEN a ELSE b

(* A horizon that counts the node the robot stands on.                      *)
ShortHorizonTargets(s) ==
    LET i == ProgressIndex(s)
        p == s.plan
    IN  {p.nodes[k] : k \in i..Least(i + Horizon - 1, Len(p.nodes))}
            \cup {p.edges[k] : k \in i..Least(i + Horizon - 1, Len(p.edges))}

(* rolling_horizon_claim_request: the next Horizon edges and the nodes they *)
(* join; the zones on the way are not claimed.                             *)
HorizonTargets(s) ==
    LET i == ProgressIndex(s)
        p == s.plan
    IN  {p.nodes[k] : k \in i..Least(i + Horizon, Len(p.nodes))}
            \cup {p.edges[k] : k \in i..Least(i + Horizon - 1, Len(p.edges))}

(* Its window opens at the last report and lasts as many ticks as the rest  *)
(* of the plan costs: no ticks_per_cost_unit is asked for here, so it may  *)
(* be over before the schedule has the robot arrive.                       *)
HorizonWindow(s) ==
    LET p    == s.plan
        i    == ProgressIndex(s)
        rest == p.cost[Len(p.cost)] - (IF i = 1 THEN 0 ELSE p.cost[i])
    IN  [start |-> s.updated, end |-> s.updated + Ceiling(rest)]

-----------------------------------------------------------------------------
(* Scheduling a whole plan.                                                *)

(* scheduled_target_windows_from_route: at each step a node, the edge that *)
(* leaves it and the zones of both, from the tick the step is scheduled    *)
(* for until the next one's.                                               *)
StepGround(p, i) ==
    Filed({p.nodes[i]} \cup {p.edges[k] : k \in {i} \cap DOMAIN p.edges})

StepWindow(p, i, t) ==
    [start |-> t + Ticks(p.cost[i]),
     end   |-> t + Ticks(p.cost[Least(i + 1, Len(p.nodes))])]

(* The part of claim_target_windows_overlap that looks at the targets:      *)
(* resources of different kinds never meet.                                *)
TargetsMeet(x, y) == x = y \/ (x \in Zones /\ y \in Zones /\ ZonesOverlap(World, x, y))

(* A meeting of a step with a hold: where, with which, until when the step.  *)
Meetings(p, t, holds) ==
    UNION { { [at |-> x, hold |-> h, step |-> StepWindow(p, i, t)] :
                x \in StepGround(p, i), h \in holds } : i \in DOMAIN p.nodes }

(* A comparison that leaves the ground out.                                 *)
ConflictsAnywhere(p, t, skip) ==
    { c \in Meetings(p, t, {r \in requests : r.id # skip} \cup leases) :
        WindowsOverlap(c.step, c.hold) }

(* The conflicts schedule_route_request collects: whatever is held on the  *)
(* ground of a step during it, by whoever, in whatever mode, except the    *)
(* request of the claim it schedules.                                      *)
Conflicts(p, t, skip) ==
    { c \in Meetings(p, t, {r \in requests : r.id # skip} \cup leases) :
        /\ WindowsOverlap(c.step, c.hold)
        /\ \E y \in c.hold.targets : TargetsMeet(c.at, y) }

(* claim_target_semantics: a node is barred when a zone it is filed under   *)
(* is.                                                                     *)
WaitingBarred(x) ==
    \/ x \in NoWaiting
    \/ x \in Nodes /\ World.zonesOf[x] \cap NoWaiting # {}

(* Until when a conflict blocks: an open hold is taken to end with the step *)
(* it meets.                                                               *)
Until(c) == IF c.hold.end = Forever THEN c.step.end ELSE c.hold.end

(* schedule_route_request: go, wait until everything met has ended, or plan *)
(* again when something met lies where waiting is barred.                  *)
Decision(p, t, skip) ==
    LET met  == Conflicts(p, t, skip)
        ends == {t} \cup {Until(c) : c \in met}
    IN  IF met = {} THEN [kind |-> "proceed", start |-> t]
        ELSE IF \E c \in met : WaitingBarred(c.at)
             THEN [kind |-> "replan", start |-> t]
             ELSE [kind  |-> "queue",
                   start |-> 1 + CHOOSE e \in ends : \A o \in ends : o <= e]

(* apply_schedule_decision for a robot with a plan.                        *)
Scheduled(s, d) ==
    [s EXCEPT !.updated = now,
              !.scheduled = d.start,
              !.wait = d.start - now,
              !.needsReplan = d.kind = "replan",
              !.progress = CASE d.kind = "proceed" -> "following"
                             [] d.kind = "queue"   -> "queued"
                             [] d.kind = "replan"  -> "replanning"]

(* robot_missed_schedule_slot.                                             *)
MissedSlot(s, grace) ==
    /\ s.scheduled # None
    /\ now > s.scheduled + grace
    /\ s.progress \notin {"following", "idle"}

(* update_robot_progress: the effect of a report of a node, an edge or      *)
(* neither.                                                                *)
Reported(s, n, edge) ==
    LET seen == [s EXCEPT !.node = n, !.updated = now]
    IN  IF s.plan # NoPlan /\ n # Unknown
        THEN IF OnPlan(s.plan, n)
             THEN LET i == FirstAt(s.plan, n)
                  IN  [seen EXCEPT !.next = i,
                                   !.progress = IF i = Len(s.plan.nodes)
                                                THEN "idle" ELSE "following",
                                   !.needsReplan = FALSE,
                                   !.wait = 0]
             ELSE [seen EXCEPT !.progress = "replanning", !.needsReplan = TRUE]
        ELSE IF edge
             THEN [seen EXCEPT !.progress = "following",
                               !.needsReplan = FALSE,
                               !.wait = 0]
             ELSE [seen EXCEPT !.progress = "waiting"]

-----------------------------------------------------------------------------
SchedInit ==
    /\ Init
    /\ fleet = {}
    /\ state = [r \in Robots |-> Default]
    /\ place = [r \in Robots |-> 0]

Becomes(r, s) == state' = [state EXCEPT ![r] = s]

(* register_robot of a robot the coordinator does not have.                *)
Enrol(r) ==
    /\ r \notin fleet
    /\ fleet' = fleet \cup {r}
    /\ UNCHANGED <<vars, state, place>>

(* unregister_robot: its claims and leases go with it.                     *)
Unenrol(r) ==
    /\ r \in fleet
    /\ RemoveRobot(r)
    /\ fleet' = fleet \ {r}
    /\ Becomes(r, Default)
    /\ place' = [place EXCEPT ![r] = 0]

(* assign_route_plan.  The node last reported and the leases stay.          *)
AssignRoutePlan(r, p) ==
    /\ r \in fleet
    /\ Becomes(r, [state[r] EXCEPT !.plan = p, !.next = 1, !.scheduled = now,
                                   !.wait = 0, !.needsReplan = FALSE,
                                   !.progress = "following", !.updated = now])
    /\ place' = [place EXCEPT ![r] = 1]
    /\ UNCHANGED <<vars, fleet>>

(* The robot passes an edge of its plan; whether it says so is another step. *)
Drive(r) ==
    /\ place[r] # 0
    /\ place[r] < Len(state[r].plan.nodes)
    /\ place' = [place EXCEPT ![r] = @ + 1]
    /\ UNCHANGED <<vars, fleet, state>>

(* update_robot_progress, called by flat_heartbeat and by library users.   *)
Report(r, n, edge) ==
    /\ r \in fleet
    /\ Becomes(r, Reported(state[r], n, edge))
    /\ UNCHANGED <<vars, fleet>>

(* A robot reports truthfully: where it is on its plan, or nothing, or,     *)
(* having left the plan for good, a node that is not on it.                *)
ReportOnPlan(r) ==
    /\ place[r] # 0
    /\ Report(r, state[r].plan.nodes[place[r]], FALSE)
    /\ UNCHANGED place

ReportNoNode(r, edge) == Report(r, Unknown, edge) /\ UNCHANGED place

ReportElsewhere(r, n, edge) ==
    /\ state[r].plan # NoPlan => ~OnPlan(state[r].plan, n)
    /\ Report(r, n, edge)
    /\ place' = [place EXCEPT ![r] = 0]

(* claim_request_for_robot, evaluate_request and, on Grant, the record, as *)
(* a caller of the rolling horizon strings them together.                  *)
ClaimAhead(r, mode) ==
    /\ r \in fleet
    /\ state[r].plan # NoPlan
    /\ Claim(r, mode, HorizonTargets(state[r]), HorizonWindow(state[r]))
    /\ UNCHANGED <<fleet, state, place>>

(* A deliberate claim of other ground, such as a zone.                     *)
ClaimGround(r, mode, targets) ==
    /\ r \in fleet \ Steered
    /\ \E length \in Lengths :
           Claim(r, mode, targets, [start |-> now, end |-> now + length])
    /\ UNCHANGED <<fleet, state, place>>

(* A caller turns a granted claim into a lease and tells the robot's state *)
(* of it (upsert_lease, update_robot_claim_state), under a lease id that   *)
(* names no lease of another robot, live or remembered.                    *)
TakeLease(r, q, id) ==
    /\ r \in fleet
    /\ q.robot = r
    /\ \A o \in Robots \ {r} : id \notin state[o].leaseIds
    /\ GrantLease(q, id, q.id, q.end)
    /\ Becomes(r, [state[r] EXCEPT !.leaseIds = @ \cup {id}])
    /\ UNCHANGED <<fleet, place>>

(* remove_requests_for_robot: the caller lets go of the robot's claims.    *)
DropClaims(r) ==
    /\ requests' = WithoutRobot(requests, r)
    /\ UNCHANGED <<leases, archive, nextId, now, fleet, state, place>>

Listed(r) == {l \in leases : l.id \in state[r].leaseIds}

(* The leases a robot has left behind: none of their ground is ahead.      *)
Behind(r) ==
    { l \in Listed(r) :
        l.targets \cap Remaining(state[r].plan,
                                 FirstAt(state[r].plan, state[r].node)) = {} }

(* A release that empties the robot's list.                                 *)
ReleaseForgetting(r) ==
    /\ state[r].plan # NoPlan
    /\ OnPlan(state[r].plan, state[r].node)
    /\ leases' = leases \ Behind(r)
    /\ archive' = archive \cup Archiving(Behind(r), "released")
    /\ Becomes(r, [state[r] EXCEPT !.leaseIds = {}])
    /\ UNCHANGED <<requests, nextId, now, fleet, place>>

(* release_behind_progress: they are released, and the list keeps the ids   *)
(* of the others that still exist.                                         *)
ReleaseBehind(r) ==
    /\ state[r].plan # NoPlan
    /\ OnPlan(state[r].plan, state[r].node)
    /\ leases' = leases \ Behind(r)
    /\ archive' = archive \cup Archiving(Behind(r), "released")
    /\ Becomes(r, [state[r] EXCEPT !.leaseIds = {l.id : l \in Listed(r) \ Behind(r)}])
    /\ UNCHANGED <<requests, nextId, now, fleet, place>>

(* refresh_robot_leases: each listed lease that ends, ends later.           *)
RefreshLeases(r, extension) ==
    LET ending == {l \in Listed(r) : l.end # Forever}
    IN  /\ ending # {}
        /\ \A l \in ending : l.end + extension <= MaxEnd
        /\ leases' = (leases \ ending)
                        \cup {[l EXCEPT !.end = @ + extension] : l \in ending}
        /\ UNCHANGED <<requests, archive, nextId, now, fleet, state, place>>

(* revoke_robot_leases.                                                    *)
RevokeLeases(r) ==
    /\ r \in fleet
    /\ leases' = leases \ Listed(r)
    /\ archive' = archive \cup Archiving(Listed(r), "revoked")
    /\ Becomes(r, [state[r] EXCEPT !.leaseIds = {}, !.updated = now,
                                   !.progress = "replanning",
                                   !.needsReplan = Listed(r) # {}])
    /\ UNCHANGED <<requests, nextId, now, fleet, place>>

(* schedule_robot_route from the present tick, for the claim id `skip'; a   *)
(* robot without a plan is told to plan again and its state left alone.    *)
Schedule(r, skip) ==
    /\ state[r].plan # NoPlan
    /\ Becomes(r, Scheduled(state[r], Decision(state[r].plan, now, skip)))
    /\ UNCHANGED <<vars, fleet, place>>

(* handle_missed_schedule_slot.                                            *)
HandleMissedSlot(r, grace) ==
    /\ r \in fleet
    /\ MissedSlot(state[r], grace)
    /\ Becomes(r, [state[r] EXCEPT !.progress = "replanning",
                                   !.needsReplan = TRUE, !.updated = now])
    /\ UNCHANGED <<vars, fleet, place>>

-----------------------------------------------------------------------------
(* A caller plans from where the robot is and was last seen, if it was.     *)
PlansFromHere(r) ==
    { p \in Plans :
        /\ state[r].node \in {Unknown, p.nodes[1]}
        /\ place[r] # 0 => state[r].plan.nodes[place[r]] = p.nodes[1] }

PlanStep(r) ==
    \/ \E p \in PlansFromHere(r) : AssignRoutePlan(r, p)
    \/ \E skip \in {0} \cup {q.id : q \in {h \in requests : h.robot = r}} :
           Schedule(r, skip)
    \/ \E grace \in Graces : HandleMissedSlot(r, grace)

ReportStep(r) ==
    \/ Drive(r)
    \/ ReportOnPlan(r)
    \/ \E edge \in BOOLEAN : ReportNoNode(r, edge)
    \/ \E n \in Nodes, edge \in BOOLEAN : ReportElsewhere(r, n, edge)

GroundStep(r) ==
    \/ \E mode \in AskedModes : ClaimAhead(r, mode)
    \/ \E mode \in AskedModes, targets \in GroundSets : ClaimGround(r, mode, targets)
    \/ \E q \in requests, id \in LeaseIds : TakeLease(r, q, id)
    \/ DropClaims(r)
    \/ ReleaseBehind(r)
    \/ \E extension \in Extensions : RefreshLeases(r, extension)
    \/ RevokeLeases(r)

SchedNext ==
    \/ \E r \in Robots : Enrol(r) \/ Unenrol(r) \/ GroundStep(r)
    \/ \E r \in Steered : PlanStep(r) \/ ReportStep(r)
    \/ (ExpireClaims \/ Tick) /\ UNCHANGED <<fleet, state, place>>

SchedSpec == SchedInit /\ [][SchedNext]_schedVars

-----------------------------------------------------------------------------
(* Properties.                                                             *)

(* States are what the Rust types say, and a step index always lies on the  *)
(* plan it is an index into (assign_route_plan, update_robot_progress).    *)
SchedTypeOK ==
    /\ TypeOK
    /\ fleet \subseteq Robots
    /\ state \in [Robots -> RobotState]
    /\ place \in [Robots -> Nat]
    /\ \A r \in Robots :
        /\ r \notin fleet => state[r] = Default
        /\ state[r].plan # NoPlan => state[r].next <= Len(state[r].plan.nodes)
        /\ place[r] # 0 => /\ state[r].plan # NoPlan
                           /\ place[r] <= Len(state[r].plan.nodes)

(* A live lease is on the list of its robot and on no other, so no lease    *)
(* can be forgotten, and none refreshed or revoked in another's name: the  *)
(* lists go stale as leases expire, and are trimmed while others change    *)
(* (release_targets_behind_progress, refresh and revoke_robot_leases).     *)
LeasesAreListed ==
    \A l \in leases, r \in Robots : l.id \in state[r].leaseIds <=> l.robot = r

(* What a robot on its plan still has to cover.                            *)
Ahead(r) ==
    LET p == state[r].plan
    IN  {p.nodes[i] : i \in place[r]..Len(p.nodes)}
            \cup {p.edges[i] : i \in place[r]..Len(p.edges)}

(* Releasing what is behind never gives up ground the robot stands on or   *)
(* has yet to cover, also when its last report is old or the plan passes a *)
(* node twice (release_targets_behind_progress).                           *)
NothingAheadReleased ==
    [][ \A r \in Robots :
            leases' # leases /\ place[r] # 0 /\ ReleaseBehind(r) =>
                \A l \in leases \ leases' : l.targets \cap Ahead(r) = {} ]_schedVars

(* A robot whose rolling claim is granted holds from now on where it really *)
(* is, the edge it takes next and the node that leads to, though its last  *)
(* report may be old or name a node it passes twice: it is enough that the *)
(* step the coordinator takes it to be at lies less than the horizon       *)
(* behind.  The claim never sets in beyond the robot                       *)
(* (rolling_horizon_claim_request, update_robot_progress).                 *)
HorizonHoldsNextStep ==
    [][ requests' # requests =>
            \A r \in Robots, mode \in Modes :
                LET p == state[r].plan
                    i == place[r]
                IN  /\ i # 0 /\ i < Len(p.nodes)
                    /\ i < ProgressIndex(state[r]) + Horizon
                    /\ ClaimAhead(r, mode)
                    => \E q \in requests' :
                        /\ q.robot = r
                        /\ {p.nodes[i], p.edges[i], p.nodes[i + 1]} \subseteq q.targets
                        /\ q.start <= now ]_schedVars

(* What a caller tells the arbiter of a robot; that one is blocked only the *)
(* caller knows, emergencies and priorities are left equal.                *)
Contends(r, blocked) ==
    [emergency |-> FALSE, priority |-> 0,
     holdsLease |-> state[r].leaseIds # {},
     state |-> IF blocked THEN "blocked" ELSE state[r].progress,
     wait |-> state[r].wait,
     remaining |-> IF state[r].plan = NoPlan
                   THEN 0
                   ELSE Len(state[r].plan.nodes) - ProgressIndex(state[r])]

(* Two robots in conflict get matching answers: when one is told to go the  *)
(* other yields, and they plan again only together; never do both go, nor  *)
(* both yield (arbitrate_right_of_way, asked once for each).               *)
RightOfWayAgrees ==
    \A a, b \in fleet : a # b =>
        \A g, h \in BOOLEAN :
            LET x == Contends(a, g)
                y == Contends(b, h)
            IN  RightOfWay(x, y) = Counterpart(RightOfWay(y, x))

(* claim_request_from_route, asking for the whole plan exclusively.        *)
RouteRequest(r) ==
    LET p == state[r].plan
    IN  [id |-> 0, slot |-> 0, robot |-> r, mode |-> "exclusive",
         start |-> now, end |-> now + Ticks(p.cost[Len(p.cost)]),
         targets |-> NodesFrom(p, 1) \cup EdgesFrom(p, 1)]

(* Zones within the zones a plan passes.                                   *)
ZonesBelow(p) ==
    { z \in Zones : World.ancestors[z] \cap Remaining(p, 1) # {} }

(* The two ways of deciding agree as far as they can: a plan that could be *)
(* claimed whole, exclusively and at once is not told to wait or to be     *)
(* planned anew (schedule_route_request against evaluate_request).  Left    *)
(* out are the two conflicts only the scheduler sees: the robot's own      *)
(* holds, and a claim of a zone inside one that the plan merely passes.    *)
ClaimableIsNotDelayed ==
    \A r \in fleet :
        /\ state[r].plan # NoPlan
        /\ \A h \in Holds : h.robot # r /\ h.targets \cap ZonesBelow(state[r].plan) = {}
        /\ Granted(World, requests, leases, RouteRequest(r))
        => Decision(state[r].plan, now, 0).kind = "proceed"

(* A robot that has left its plan is not taken for one on track again       *)
(* before it is given a plan or is scheduled (the comment in               *)
(* update_robot_progress, coordinator.rs:1570).                            *)
StrayedStaysReported ==
    [][ \A r \in Robots :
            /\ state[r].plan # NoPlan
            /\ place[r] = 0 /\ place'[r] = 0
            /\ state[r].needsReplan
            /\ state'[r].progress = "following"
            => Schedule(r, 0) \/ \E q \in requests : Schedule(r, q.id) ]_schedVars

=============================================================================
