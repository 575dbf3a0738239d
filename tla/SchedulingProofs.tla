--------------------------- MODULE SchedulingProofs ---------------------------
(***************************************************************************)
(* What holds of arbitration between any two robots, and of scheduling     *)
(* for every workspace, fleet and set of plans: leases are on the lists of *)
(* their robots (ListInv), a report of a node is of the step the robot is  *)
(* at or of an earlier one (TrackInv), states are well typed (SchedInv)    *)
(* and never dated later than now (DateInv), from which follow what the    *)
(* rolling claim reaches, that right of way is answered alike, and that    *)
(* schedule and ledger agree.                                              *)
(***************************************************************************)
EXTENDS Scheduling, ClaimManagerProofs

(* Whatever two robots are, asking for one and asking for the other give    *)
(* answers that fit (arbitrate_right_of_way).                              *)
THEOREM RightOfWayMatches ==
    ASSUME NEW x \in Contender, NEW y \in Contender
    PROVE  RightOfWay(x, y) = Counterpart(RightOfWay(y, x))
<1>1. ~(ByEmergency(x, y) /\ ByEmergency(y, x))
  BY DEF ByEmergency
<1>2. ~(ByLease(x, y) /\ ByLease(y, x))
  BY DEF ByLease
<1>3. ~(ByPriority(x, y) /\ ByPriority(y, x))
  <2>1. x.priority \in Int /\ y.priority \in Int
    BY DEF Contender
  <2> QED BY <2>1 DEF ByPriority
<1>4. ~(ByBlocked(x, y) /\ ByBlocked(y, x))
  BY DEF ByBlocked
<1>5. ~(ByMotion(x, y) /\ ByMotion(y, x))
  BY DEF ByMotion
<1>6. ~(ByWait(x, y) /\ ByWait(y, x))
  <2>1. x.wait \in Nat /\ y.wait \in Nat
    BY DEF Contender
  <2> QED BY <2>1 DEF ByWait
<1>7. ~(ByRemaining(x, y) /\ ByRemaining(y, x))
  <2>1. x.remaining \in Nat /\ y.remaining \in Nat
    BY DEF Contender
  <2> QED BY <2>1 DEF ByRemaining
<1>8. /\ Counterpart("proceed") = "yield"
      /\ Counterpart("yield") = "proceed"
      /\ Counterpart("replan") = "replan"
  BY DEF Counterpart
<1>9. \/ RightOfWay(x, y) = "proceed" /\ RightOfWay(y, x) = "yield"
      \/ RightOfWay(x, y) = "yield" /\ RightOfWay(y, x) = "proceed"
      \/ RightOfWay(x, y) = "replan" /\ RightOfWay(y, x) = "replan"
  BY <1>1, <1>2, <1>3, <1>4, <1>5, <1>6, <1>7 DEF RightOfWay
<1> QED
  BY <1>8, <1>9

-----------------------------------------------------------------------------
(* The shape of a RobotState, which is all that the proofs need of it.      *)
IsState(s) ==
    s = [plan |-> s.plan, node |-> s.node, next |-> s.next,
         progress |-> s.progress, needsReplan |-> s.needsReplan,
         scheduled |-> s.scheduled, wait |-> s.wait, updated |-> s.updated,
         leaseIds |-> s.leaseIds]

Shaped ==
    /\ state = [r \in Robots |-> state[r]]
    /\ \A r \in Robots : IsState(state[r])

LEMMA DefaultIsState == IsState(Default)
BY DEF IsState, Default

LEMMA BecomesShaped ==
    ASSUME Shaped, NEW r \in Robots, NEW s, IsState(s), Becomes(r, s)
    PROVE  /\ Shaped'
           /\ state'[r] = s
           /\ \A o \in Robots \ {r} : state'[o] = state[o]
<1>1. state'[r] = s /\ \A o \in Robots \ {r} : state'[o] = state[o]
  BY DEF Becomes, Shaped
<1>2. state' = [o \in Robots |-> state'[o]]
  BY DEF Becomes, Shaped
<1>3. \A o \in Robots : IsState(state'[o])
  BY <1>1 DEF Shaped
<1> QED
  BY <1>1, <1>2, <1>3 DEF Shaped

-----------------------------------------------------------------------------
(* A lease is the record GrantLease builds.                                *)
IsLease(l) ==
    l = [id |-> l.id, claim |-> l.claim, robot |-> l.robot, mode |-> l.mode,
         start |-> l.start, end |-> l.end, targets |-> l.targets]

ListInv ==
    /\ Shaped
    /\ \A l \in leases : IsLease(l)
    /\ LeasesAreListed

(* Lists that stay as they are fit the leases that are left.                *)
LEMMA FewerLeasesListed ==
    ASSUME ListInv, Shaped', leases' \subseteq leases,
           \A r \in Robots : state'[r].leaseIds = state[r].leaseIds
    PROVE  ListInv'
BY DEF ListInv, LeasesAreListed

(* A change of one RobotState that is not about leases.                    *)
LEMMA OtherFieldsListed ==
    ASSUME ListInv, leases' = leases, NEW r \in Robots, NEW s,
           IsState(s), s.leaseIds = state[r].leaseIds, Becomes(r, s)
    PROVE  ListInv'
<1>1. Shaped' /\ state'[r] = s /\ \A o \in Robots \ {r} : state'[o] = state[o]
  BY BecomesShaped DEF ListInv
<1> QED BY <1>1, FewerLeasesListed

(* A call that leaves every RobotState alone.                              *)
LEMMA NoStateListed ==
    ASSUME ListInv, leases' \subseteq leases, state' = state
    PROVE  ListInv'
<1>1. Shaped'
  BY DEF ListInv, Shaped
<1> QED BY <1>1, FewerLeasesListed

-----------------------------------------------------------------------------
(* What each operation on plans and progress does to a RobotState: whatever *)
(* it reports or decides, the leases and the plan stay.                    *)
LEMMA ReportedShape ==
    ASSUME NEW s, IsState(s), NEW n, NEW edge
    PROVE  /\ IsState(Reported(s, n, edge))
           /\ Reported(s, n, edge).leaseIds = s.leaseIds
           /\ Reported(s, n, edge).plan = s.plan
           /\ Reported(s, n, edge).node = n
           /\ Reported(s, n, edge).updated = now
           /\ \/ Reported(s, n, edge).next = s.next
              \/ /\ OnPlan(s.plan, n)
                 /\ Reported(s, n, edge).next = FirstAt(s.plan, n)
BY DEF IsState, Reported

LEMMA ScheduledShape ==
    ASSUME NEW s, IsState(s), NEW d
    PROVE  /\ IsState(Scheduled(s, d))
           /\ Scheduled(s, d).leaseIds = s.leaseIds
           /\ Scheduled(s, d).plan = s.plan
           /\ Scheduled(s, d).node = s.node
           /\ Scheduled(s, d).next = s.next
           /\ Scheduled(s, d).updated = now
<1> DEFINE told == CASE d.kind = "proceed" -> "following"
                     [] d.kind = "queue"   -> "queued"
                     [] d.kind = "replan"  -> "replanning"
<1>1. Scheduled(s, d) = [s EXCEPT !.updated = now,
                                  !.scheduled = d.start,
                                  !.wait = d.start - now,
                                  !.needsReplan = d.kind = "replan",
                                  !.progress = told]
  BY DEF Scheduled
<1> HIDE DEF told
<1> QED BY <1>1 DEF IsState

(* The same for the updates that operations write in place.                *)
LEMMA RelistedShape ==
    ASSUME NEW s, IsState(s), NEW ids, NEW new, new = [s EXCEPT !.leaseIds = ids]
    PROVE  /\ IsState(new) /\ new.leaseIds = ids
           /\ new.plan = s.plan /\ new.node = s.node
           /\ new.next = s.next /\ new.updated = s.updated
BY DEF IsState

LEMMA MissedShape ==
    ASSUME NEW r \in Robots, IsState(state[r]), NEW grace, HandleMissedSlot(r, grace)
    PROVE  \E s : /\ IsState(s) /\ Becomes(r, s)
                  /\ s.leaseIds = state[r].leaseIds
                  /\ s.plan = state[r].plan /\ s.node = state[r].node
                  /\ s.next = state[r].next /\ s.updated = now
<1>1. PICK x : x = state[r]
  OBVIOUS
<1>2. PICK s : s = [x EXCEPT !.progress = "replanning", !.needsReplan = TRUE,
                             !.updated = now]
  OBVIOUS
<1>3. Becomes(r, s)
  BY <1>1, <1>2 DEF HandleMissedSlot
<1>4. IsState(x)
  BY <1>1
<1>5. /\ IsState(s) /\ s.leaseIds = x.leaseIds /\ s.plan = x.plan /\ s.node = x.node
      /\ s.next = x.next /\ s.updated = now
  BY <1>2, <1>4 DEF IsState
<1> QED BY <1>1, <1>3, <1>5

LEMMA RevokedShape ==
    ASSUME NEW r \in Robots, IsState(state[r]), RevokeLeases(r)
    PROVE  \E s : /\ IsState(s) /\ Becomes(r, s) /\ s.leaseIds = {}
                  /\ s.plan = state[r].plan /\ s.node = state[r].node
                  /\ s.next = state[r].next /\ s.updated = now
<1>1. PICK x : x = state[r]
  OBVIOUS
<1>2. PICK s : s = [x EXCEPT !.leaseIds = {}, !.updated = now,
                             !.progress = "replanning",
                             !.needsReplan = Listed(r) # {}]
  OBVIOUS
<1>3. Becomes(r, s)
  BY <1>1, <1>2 DEF RevokeLeases
<1>4. IsState(x)
  BY <1>1
<1>5. /\ IsState(s) /\ s.leaseIds = {} /\ s.plan = x.plan /\ s.node = x.node
      /\ s.next = x.next /\ s.updated = now
  BY <1>2, <1>4 DEF IsState
<1> QED BY <1>1, <1>3, <1>5

LEMMA AssignedShape ==
    ASSUME NEW r \in Robots, IsState(state[r]), NEW p, AssignRoutePlan(r, p)
    PROVE  \E s : /\ IsState(s) /\ Becomes(r, s)
                  /\ s.leaseIds = state[r].leaseIds
                  /\ s.plan = p /\ s.node = state[r].node
                  /\ s.next = 1 /\ s.updated = now
<1>1. PICK x : x = state[r]
  OBVIOUS
<1>2. PICK s : s = [x EXCEPT !.plan = p, !.next = 1, !.scheduled = now,
                             !.wait = 0, !.needsReplan = FALSE,
                             !.progress = "following", !.updated = now]
  OBVIOUS
<1>3. Becomes(r, s)
  BY <1>1, <1>2 DEF AssignRoutePlan
<1>4. IsState(x)
  BY <1>1
<1>5. /\ IsState(s) /\ s.leaseIds = x.leaseIds /\ s.plan = p /\ s.node = x.node
      /\ s.next = 1 /\ s.updated = now
  BY <1>2, <1>4 DEF IsState
<1> QED BY <1>1, <1>3, <1>5

-----------------------------------------------------------------------------
(* Operations on plans and progress leave the leases listed.               *)
LEMMA PlanStepListed ==
    ASSUME ListInv, NEW r \in Robots, PlanStep(r)
    PROVE  ListInv'
<1>0. IsState(state[r])
  BY DEF ListInv, Shaped
<1>1. ASSUME NEW p \in Plans, AssignRoutePlan(r, p)
      PROVE  ListInv'
  <2>1. leases' = leases
    BY <1>1 DEF AssignRoutePlan, vars, ledger
  <2> QED BY <1>0, <1>1, <2>1, AssignedShape, OtherFieldsListed
<1>2. ASSUME NEW skip, Schedule(r, skip)
      PROVE  ListInv'
  <2> DEFINE d == Decision(state[r].plan, now, skip)
  <2>1. Becomes(r, Scheduled(state[r], d)) /\ leases' = leases
    BY <1>2 DEF Schedule, vars, ledger
  <2> HIDE DEF d
  <2> QED BY <1>0, <2>1, ScheduledShape, OtherFieldsListed
<1>3. ASSUME NEW grace \in Graces, HandleMissedSlot(r, grace)
      PROVE  ListInv'
  <2>1. leases' = leases
    BY <1>3 DEF HandleMissedSlot, vars, ledger
  <2> QED BY <1>0, <1>3, <2>1, MissedShape, OtherFieldsListed
<1>4. \A p \in PlansFromHere(r) : p \in Plans
  BY DEF PlansFromHere
<1> QED BY <1>1, <1>2, <1>3, <1>4 DEF PlanStep

LEMMA ReportListed ==
    ASSUME ListInv, NEW r \in Robots, NEW n, NEW edge, Report(r, n, edge)
    PROVE  ListInv'
<1>1. IsState(state[r])
  BY DEF ListInv, Shaped
<1>2. Becomes(r, Reported(state[r], n, edge)) /\ leases' = leases
  BY DEF Report, vars, ledger
<1> QED BY <1>1, <1>2, ReportedShape, OtherFieldsListed

LEMMA ReportStepListed ==
    ASSUME ListInv, NEW r \in Robots, ReportStep(r)
    PROVE  ListInv'
<1>1. CASE Drive(r)
  <2>1. state' = state /\ leases' = leases
    BY <1>1 DEF Drive, vars, ledger
  <2> QED BY <2>1, NoStateListed
<1>2. CASE ReportOnPlan(r)
  BY <1>2, ReportListed DEF ReportOnPlan
<1>3. ASSUME NEW edge \in BOOLEAN, ReportNoNode(r, edge)
      PROVE  ListInv'
  BY <1>3, ReportListed DEF ReportNoNode
<1>4. ASSUME NEW n \in Nodes, NEW edge \in BOOLEAN, ReportElsewhere(r, n, edge)
      PROVE  ListInv'
  BY <1>4, ReportListed DEF ReportElsewhere
<1> QED BY <1>1, <1>2, <1>3, <1>4 DEF ReportStep

-----------------------------------------------------------------------------
(* A lease is filed under an id no other robot lists.                      *)
LEMMA TakeLeaseListed ==
    ASSUME ListInv, NEW r \in Robots, NEW q \in requests, NEW id \in LeaseIds,
           TakeLease(r, q, id)
    PROVE  ListInv'
<1> DEFINE lease == [id |-> id, claim |-> q.id, robot |-> q.robot,
                     mode |-> q.mode, start |-> q.start, end |-> q.end,
                     targets |-> q.targets]
           s == [state[r] EXCEPT !.leaseIds = @ \cup {id}]
<1>1. /\ leases' = {l \in leases : l.id # id} \cup {lease}
      /\ q.robot = r
      /\ \A o \in Robots \ {r} : id \notin state[o].leaseIds
  BY DEF TakeLease, GrantLease, AddLease
<1>2. IsLease(lease) /\ lease.id = id /\ lease.robot = r
  BY <1>1 DEF IsLease
<1>3. IsState(s) /\ s.leaseIds = state[r].leaseIds \cup {id}
  BY RelistedShape DEF ListInv, Shaped
<1>4. Becomes(r, s)
  BY DEF TakeLease
<1> HIDE DEF lease, s
<1>5. Shaped' /\ state'[r] = s /\ \A o \in Robots \ {r} : state'[o] = state[o]
  BY <1>3, <1>4, BecomesShaped DEF ListInv
<1>6. \A l \in leases' : IsLease(l)
  BY <1>1, <1>2 DEF ListInv
<1>7. LeasesAreListed'
  <2> SUFFICES ASSUME NEW l \in leases', NEW o \in Robots
               PROVE  l.id \in state'[o].leaseIds <=> l.robot = o
    BY DEF LeasesAreListed
  <2>1. CASE l = lease
    BY <1>1, <1>2, <1>3, <1>5, <2>1
  <2>2. CASE l \in leases /\ l.id # id
    <3>1. l.id \in state[o].leaseIds <=> l.robot = o
      BY <2>2 DEF ListInv, LeasesAreListed
    <3> QED BY <1>3, <1>5, <2>2, <3>1
  <2> QED BY <1>1, <2>1, <2>2
<1> QED BY <1>5, <1>6, <1>7 DEF ListInv

(* The list keeps exactly the leases that are not released: a lease of      *)
(* another robot cannot be on it.                                          *)
LEMMA ReleaseBehindListed ==
    ASSUME ListInv, NEW r \in Robots, ReleaseBehind(r)
    PROVE  ListInv'
<1> DEFINE kept == {l.id : l \in Listed(r) \ Behind(r)}
           s == [state[r] EXCEPT !.leaseIds = kept]
<1>1. leases' = leases \ Behind(r) /\ Becomes(r, s)
  BY DEF ReleaseBehind
<1>2. IsState(s) /\ s.leaseIds = kept
  BY RelistedShape DEF ListInv, Shaped
<1>3. Behind(r) \subseteq Listed(r)
  BY DEF Behind
<1> HIDE DEF s
<1>4. Shaped' /\ state'[r] = s /\ \A o \in Robots \ {r} : state'[o] = state[o]
  BY <1>1, <1>2, BecomesShaped DEF ListInv
<1>5. ASSUME NEW l \in leases'
      PROVE  l.id \in kept <=> l.robot = r
  <2>1. l \in leases /\ l \notin Behind(r)
    BY <1>1, <1>5
  <2>2. l.id \in state[r].leaseIds <=> l.robot = r
    BY <2>1 DEF ListInv, LeasesAreListed
  <2>3. l.robot = r => l \in Listed(r)
    BY <2>1, <2>2 DEF Listed
  <2>4. l.id \in kept => l.id \in state[r].leaseIds
    BY DEF Listed
  <2> QED BY <2>1, <2>2, <2>3, <2>4
<1> HIDE DEF kept
<1>6. LeasesAreListed'
  <2> SUFFICES ASSUME NEW l \in leases', NEW o \in Robots
               PROVE  l.id \in state'[o].leaseIds <=> l.robot = o
    BY DEF LeasesAreListed
  <2>1. CASE o = r
    BY <1>2, <1>4, <1>5, <2>1
  <2>2. CASE o # r
    BY <1>1, <1>4, <2>2 DEF ListInv, LeasesAreListed
  <2> QED BY <2>1, <2>2
<1> QED BY <1>1, <1>4, <1>6 DEF ListInv

(* Refreshing changes the end of a lease, not its id nor its robot.        *)
LEMMA RefreshLeasesListed ==
    ASSUME ListInv, NEW r \in Robots, NEW extension, RefreshLeases(r, extension)
    PROVE  ListInv'
<1> DEFINE ending == {l \in Listed(r) : l.end # Forever}
<1>1. /\ leases' = (leases \ ending)
                        \cup {[l EXCEPT !.end = @ + extension] : l \in ending}
      /\ state' = state
  BY DEF RefreshLeases
<1>2. ending \subseteq leases
  BY DEF Listed
<1> HIDE DEF ending
<1>3. ASSUME NEW n \in leases'
      PROVE  IsLease(n) /\ \E l \in leases : n.id = l.id /\ n.robot = l.robot
  <2>1. CASE n \in leases
    BY <2>1 DEF ListInv
  <2>2. ASSUME NEW l \in ending, n = [l EXCEPT !.end = @ + extension]
        PROVE  /\ IsLease(n)
               /\ \E k \in leases : n.id = k.id /\ n.robot = k.robot
    <3>1. l \in leases /\ IsLease(l)
      BY <1>2 DEF ListInv
    <3>2. IsLease(n) /\ n.id = l.id /\ n.robot = l.robot
      BY <2>2, <3>1 DEF IsLease
    <3> QED BY <3>1, <3>2
  <2> QED BY <1>1, <1>3, <2>1, <2>2
<1>4. Shaped' /\ LeasesAreListed'
  BY <1>1, <1>3 DEF ListInv, Shaped, LeasesAreListed
<1> QED BY <1>3, <1>4 DEF ListInv

(* When a list is emptied, the leases of its robot are gone.               *)
LEMMA RevokeLeasesListed ==
    ASSUME ListInv, NEW r \in Robots, RevokeLeases(r)
    PROVE  ListInv'
<1>1. leases' = leases \ Listed(r)
  BY DEF RevokeLeases
<1>2. PICK s : IsState(s) /\ Becomes(r, s) /\ s.leaseIds = {}
  BY RevokedShape DEF ListInv, Shaped
<1>3. Shaped' /\ state'[r] = s /\ \A o \in Robots \ {r} : state'[o] = state[o]
  BY <1>1, <1>2, BecomesShaped DEF ListInv
<1>4. \A l \in leases' : l.robot # r
  BY <1>1 DEF ListInv, LeasesAreListed, Listed
<1>5. LeasesAreListed'
  BY <1>1, <1>2, <1>3, <1>4 DEF ListInv, LeasesAreListed
<1> QED BY <1>1, <1>3, <1>5 DEF ListInv

LEMMA UnenrolListed ==
    ASSUME ListInv, NEW r \in Robots, Unenrol(r)
    PROVE  ListInv'
<1>1. leases' = {l \in leases : l.robot # r} /\ Becomes(r, Default)
  BY DEF Unenrol, RemoveRobot, WithoutRobot
<1>2. IsState(Default) /\ Default.leaseIds = {}
  BY DefaultIsState DEF Default
<1>3. Shaped' /\ state'[r] = Default
      /\ \A o \in Robots \ {r} : state'[o] = state[o]
  BY <1>1, <1>2, BecomesShaped DEF ListInv
<1>4. LeasesAreListed'
  BY <1>1, <1>2, <1>3 DEF ListInv, LeasesAreListed
<1> QED BY <1>1, <1>3, <1>4 DEF ListInv

LEMMA GroundStepListed ==
    ASSUME ListInv, NEW r \in Robots, GroundStep(r)
    PROVE  ListInv'
<1>1. ASSUME NEW mode, ClaimAhead(r, mode)
      PROVE  ListInv'
  BY <1>1, NoStateListed DEF ClaimAhead, Claim
<1>2. ASSUME NEW mode, NEW targets, ClaimGround(r, mode, targets)
      PROVE  ListInv'
  BY <1>2, NoStateListed DEF ClaimGround, Claim
<1>3. CASE DropClaims(r)
  BY <1>3, NoStateListed DEF DropClaims
<1> QED
  BY <1>1, <1>2, <1>3, TakeLeaseListed, ReleaseBehindListed, RefreshLeasesListed,
     RevokeLeasesListed DEF GroundStep

(* Every live lease stays on the list of its robot and on no other          *)
(* (release_targets_behind_progress, refresh and revoke_robot_leases).     *)
THEOREM LeasesAreListedHolds == SchedSpec => []LeasesAreListed
<1>1. SchedInit => ListInv
  BY DefaultIsState DEF SchedInit, Init, ListInv, Shaped, LeasesAreListed
<1>2. ListInv /\ [SchedNext]_schedVars => ListInv'
  <2> SUFFICES ASSUME ListInv, [SchedNext]_schedVars
               PROVE  ListInv'
    OBVIOUS
  <2>1. ASSUME NEW r \in Robots, Enrol(r)
        PROVE  ListInv'
    BY <2>1, NoStateListed DEF Enrol, vars, ledger
  <2>2. CASE (ExpireClaims \/ Tick) /\ UNCHANGED <<fleet, state, place>>
    <3>1. leases' \subseteq leases /\ state' = state
      BY <2>2 DEF ExpireClaims, Tick, Unexpired, ledger
    <3> QED BY <3>1, NoStateListed
  <2>3. CASE UNCHANGED schedVars
    BY <2>3, NoStateListed DEF schedVars, vars, ledger
  <2>4. \A r \in Steered : r \in Robots
    BY ScheduleAssumption
  <2> QED
    BY <2>1, <2>2, <2>3, <2>4, UnenrolListed, GroundStepListed, PlanStepListed,
       ReportStepListed DEF SchedNext
<1>3. ListInv => LeasesAreListed
  BY DEF ListInv
<1> QED BY <1>1, <1>2, <1>3, PTL DEF SchedSpec

-----------------------------------------------------------------------------
(* A robot on its plan is never before the step it was last seen at, nor    *)
(* before the one it was last told to take: what the coordinator believes  *)
(* may be old, but it is never ahead of the truth.                         *)
Tracked(r) ==
    LET p == state[r].plan
        n == state[r].node
    IN  place[r] # 0 =>
            /\ p \in Plans
            /\ place[r] \in 1..Len(p.nodes)
            /\ OnPlan(p, n) => FirstAt(p, n) \in Nat /\ FirstAt(p, n) <= place[r]
            /\ state[r].next \in Nat /\ state[r].next <= place[r]

TrackInv ==
    /\ Shaped
    /\ place = [r \in Robots |-> place[r]]
    /\ \A r \in Robots : Tracked(r)

(* The shape of a plan.                                                    *)
LEMMA PlanShape ==
    ASSUME NEW p \in Plans
    PROVE  /\ Len(p.nodes) \in Nat /\ 1 <= Len(p.nodes)
           /\ DOMAIN p.nodes = 1..Len(p.nodes)
           /\ \A i \in 1..Len(p.nodes) : p.nodes[i] \in Nodes
<1>1. p.nodes \in Seq(Nodes) /\ Len(p.nodes) > 0
  BY ScheduleAssumption
<1> QED BY <1>1

(* The first passage of a node is a passage, and no later than any other.   *)
LEMMA FirstPassage ==
    ASSUME NEW p \in Plans, NEW i \in 1..Len(p.nodes), NEW n, p.nodes[i] = n
    PROVE  /\ FirstAt(p, n) \in 1..Len(p.nodes) /\ FirstAt(p, n) \in Nat
           /\ FirstAt(p, n) <= i
           /\ p.nodes[FirstAt(p, n)] = n
<1> DEFINE at == {k \in 1..Len(p.nodes) : p.nodes[k] = n}
<1>1. at \subseteq Nat /\ i \in at
  OBVIOUS
<1>2. PICK least \in at : \A k \in at : least <= k
  BY <1>1, LeastNat
<1>3. /\ least \in DOMAIN p.nodes
      /\ p.nodes[least] = n /\ \A j \in 1..(least - 1) : p.nodes[j] # n
  BY <1>2, PlanShape
<1>4. /\ FirstAt(p, n) \in DOMAIN p.nodes
      /\ p.nodes[FirstAt(p, n)] = n
      /\ \A j \in 1..(FirstAt(p, n) - 1) : p.nodes[j] # n
  BY <1>3 DEF FirstAt
<1>5. FirstAt(p, n) \in 1..Len(p.nodes)
  BY <1>4, PlanShape
<1>6. ~(i < FirstAt(p, n))
  BY <1>4, <1>5, PlanShape
<1> QED BY <1>4, <1>5, <1>6, PlanShape

(* Operations that move neither the robots nor their plans and reports.     *)
LEMMA UnmovedTracked ==
    ASSUME TrackInv, Shaped', place' = place,
           \A r \in Robots : /\ state'[r].plan = state[r].plan
                             /\ state'[r].node = state[r].node
                             /\ state'[r].next = state[r].next
    PROVE  TrackInv'
BY DEF TrackInv, Tracked

LEMMA OtherFieldsTracked ==
    ASSUME TrackInv, place' = place, NEW r \in Robots, NEW s, IsState(s),
           s.plan = state[r].plan, s.node = state[r].node,
           s.next = state[r].next, Becomes(r, s)
    PROVE  TrackInv'
<1>1. Shaped' /\ state'[r] = s /\ \A o \in Robots \ {r} : state'[o] = state[o]
  BY BecomesShaped DEF TrackInv
<1> QED BY <1>1, UnmovedTracked

LEMMA NoStateTracked ==
    ASSUME TrackInv, place' = place, state' = state
    PROVE  TrackInv'
<1>1. Shaped'
  BY DEF TrackInv, Shaped
<1> QED BY <1>1, UnmovedTracked

(* Operations that change one robot's place and state.                     *)
LEMMA OneRobotTracked ==
    ASSUME TrackInv, NEW r \in Robots, NEW s, IsState(s), Becomes(r, s),
           NEW i, place' = [place EXCEPT ![r] = i],
           i # 0 => /\ s.plan \in Plans
                    /\ i \in 1..Len(s.plan.nodes)
                    /\ OnPlan(s.plan, s.node) =>
                           /\ FirstAt(s.plan, s.node) \in Nat
                           /\ FirstAt(s.plan, s.node) <= i
                    /\ s.next \in Nat /\ s.next <= i
    PROVE  TrackInv'
<1>1. Shaped' /\ state'[r] = s /\ \A o \in Robots \ {r} : state'[o] = state[o]
  BY BecomesShaped DEF TrackInv
<1>2. /\ place' = [o \in Robots |-> place'[o]]
      /\ place'[r] = i
      /\ \A o \in Robots \ {r} : place'[o] = place[o]
  BY DEF TrackInv
<1>3. Tracked(r)'
  BY <1>1, <1>2 DEF Tracked
<1>4. \A o \in Robots \ {r} : Tracked(o)'
  BY <1>1, <1>2 DEF TrackInv, Tracked
<1> QED BY <1>1, <1>2, <1>3, <1>4 DEF TrackInv

(* A plan starts where the robot was last seen.                            *)
LEMMA AssignTracked ==
    ASSUME TrackInv, NEW r \in Robots, NEW p \in PlansFromHere(r),
           AssignRoutePlan(r, p)
    PROVE  TrackInv'
<1>1. p \in Plans /\ state[r].node \in {Unknown, p.nodes[1]}
  BY DEF PlansFromHere
<1>2. PICK s : /\ IsState(s) /\ Becomes(r, s)
               /\ s.plan = p /\ s.node = state[r].node /\ s.next = 1
  BY AssignedShape DEF TrackInv, Shaped
<1>3. place' = [place EXCEPT ![r] = 1]
  BY DEF AssignRoutePlan
<1>4. 1 \in 1..Len(p.nodes)
  BY <1>1, PlanShape
<1>5. ASSUME OnPlan(p, s.node)
      PROVE  FirstAt(p, s.node) \in Nat /\ FirstAt(p, s.node) <= 1
  <2>1. s.node \in Nodes
    BY <1>1, <1>5, PlanShape DEF OnPlan
  <2>2. s.node = p.nodes[1]
    BY <1>1, <1>2, <2>1, ScheduleAssumption
  <2> QED BY <1>1, <1>4, <2>2, FirstPassage
<1>6. s.next \in Nat /\ s.next <= 1
  BY <1>2
<1> QED BY <1>1, <1>2, <1>3, <1>4, <1>5, <1>6, OneRobotTracked

LEMMA PlanStepTracked ==
    ASSUME TrackInv, NEW r \in Robots, PlanStep(r)
    PROVE  TrackInv'
<1>0. IsState(state[r])
  BY DEF TrackInv, Shaped
<1>1. ASSUME NEW skip, Schedule(r, skip)
      PROVE  TrackInv'
  <2> DEFINE d == Decision(state[r].plan, now, skip)
  <2>1. Becomes(r, Scheduled(state[r], d)) /\ place' = place
    BY <1>1 DEF Schedule
  <2> HIDE DEF d
  <2> QED BY <1>0, <2>1, ScheduledShape, OtherFieldsTracked
<1>2. ASSUME NEW grace \in Graces, HandleMissedSlot(r, grace)
      PROVE  TrackInv'
  <2>1. place' = place
    BY <1>2 DEF HandleMissedSlot
  <2> QED BY <1>0, <1>2, <2>1, MissedShape, OtherFieldsTracked
<1> QED BY <1>1, <1>2, AssignTracked DEF PlanStep

(* A robot that drives only gets further from where it was last seen, and   *)
(* one that reports is seen where it is.                                   *)
LEMMA ReportStepTracked ==
    ASSUME TrackInv, NEW r \in Robots, ReportStep(r)
    PROVE  TrackInv'
<1> DEFINE plan == state[r].plan
<1>0. IsState(state[r])
  BY DEF TrackInv, Shaped
<1>1. place[r] # 0 => /\ plan \in Plans
                      /\ place[r] \in 1..Len(plan.nodes)
                      /\ Len(plan.nodes) \in Nat
                      /\ OnPlan(plan, state[r].node) =>
                             /\ FirstAt(plan, state[r].node) \in Nat
                             /\ FirstAt(plan, state[r].node) <= place[r]
                      /\ state[r].next \in Nat /\ state[r].next <= place[r]
  BY PlanShape DEF TrackInv, Tracked
<1>2. CASE Drive(r)
  <2>1. /\ place[r] # 0 /\ place[r] < Len(plan.nodes)
        /\ place' = [place EXCEPT ![r] = place[r] + 1]
        /\ state' = state
    BY <1>2 DEF Drive
  <2>2. Becomes(r, state[r])
    BY <2>1 DEF Becomes, TrackInv, Shaped
  <2> DEFINE i == place[r] + 1
  <2>3. /\ plan \in Plans
        /\ i \in 1..Len(plan.nodes)
        /\ OnPlan(plan, state[r].node) =>
               /\ FirstAt(plan, state[r].node) \in Nat
               /\ FirstAt(plan, state[r].node) <= i
        /\ state[r].next \in Nat /\ state[r].next <= i
    BY <1>1, <2>1
  <2>4. place' = [place EXCEPT ![r] = i]
    BY <2>1
  <2> HIDE DEF i
  <2> QED BY <1>0, <2>2, <2>3, <2>4, OneRobotTracked
<1>3. ASSUME NEW n, NEW edge, Report(r, n, edge), place' = place,
             place[r] # 0 /\ OnPlan(plan, n) =>
                 FirstAt(plan, n) \in Nat /\ FirstAt(plan, n) <= place[r]
      PROVE  TrackInv'
  <2> DEFINE s == Reported(state[r], n, edge)
  <2>1. Becomes(r, s)
    BY <1>3 DEF Report
  <2>2. /\ IsState(s) /\ s.plan = plan /\ s.node = n
        /\ \/ s.next = state[r].next
           \/ OnPlan(plan, n) /\ s.next = FirstAt(plan, n)
    BY <1>0, ReportedShape
  <2>3. place' = [place EXCEPT ![r] = place[r]]
    BY <1>3 DEF TrackInv
  <2> HIDE DEF s
  <2> QED BY <1>1, <1>3, <2>1, <2>2, <2>3, OneRobotTracked
<1>4. CASE ReportOnPlan(r)
  <2>1. place[r] # 0 /\ place' = place /\ Report(r, plan.nodes[place[r]], FALSE)
    BY <1>4 DEF ReportOnPlan
  <2>2. /\ FirstAt(plan, plan.nodes[place[r]]) \in Nat
        /\ FirstAt(plan, plan.nodes[place[r]]) <= place[r]
    BY <1>1, <2>1, FirstPassage
  <2> QED BY <1>3, <2>1, <2>2
<1>5. ASSUME NEW edge \in BOOLEAN, ReportNoNode(r, edge)
      PROVE  TrackInv'
  <2>1. place[r] # 0 => ~OnPlan(plan, Unknown)
    BY <1>1, PlanShape, ScheduleAssumption DEF OnPlan
  <2> QED BY <1>3, <1>5, <2>1 DEF ReportNoNode
<1>6. ASSUME NEW n \in Nodes, NEW edge \in BOOLEAN, ReportElsewhere(r, n, edge)
      PROVE  TrackInv'
  <2> DEFINE s == Reported(state[r], n, edge)
  <2>1. Becomes(r, s) /\ place' = [place EXCEPT ![r] = 0]
    BY <1>6 DEF ReportElsewhere, Report
  <2>2. IsState(s)
    BY <1>0, ReportedShape
  <2> HIDE DEF s
  <2> QED BY <2>1, <2>2, OneRobotTracked
<1> QED BY <1>2, <1>4, <1>5, <1>6 DEF ReportStep

LEMMA GroundStepTracked ==
    ASSUME TrackInv, NEW r \in Robots, GroundStep(r)
    PROVE  TrackInv'
<1>0. IsState(state[r])
  BY DEF TrackInv, Shaped
<1>1. ASSUME NEW ids, Becomes(r, [state[r] EXCEPT !.leaseIds = ids]), place' = place
      PROVE  TrackInv'
  <2> DEFINE s == [state[r] EXCEPT !.leaseIds = ids]
  <2>1. /\ IsState(s) /\ s.plan = state[r].plan /\ s.node = state[r].node
        /\ s.next = state[r].next
    BY <1>0, RelistedShape
  <2>2. Becomes(r, s)
    BY <1>1
  <2> HIDE DEF s
  <2> QED BY <1>1, <2>1, <2>2, OtherFieldsTracked
<1>2. ASSUME NEW q, NEW id, TakeLease(r, q, id)
      PROVE  TrackInv'
  BY <1>1, <1>2 DEF TakeLease
<1>3. CASE ReleaseBehind(r)
  BY <1>1, <1>3 DEF ReleaseBehind
<1>4. CASE RevokeLeases(r)
  <2>1. place' = place
    BY <1>4 DEF RevokeLeases
  <2> QED BY <1>0, <1>4, <2>1, RevokedShape, OtherFieldsTracked
<1>5. \/ \E mode \in AskedModes : ClaimAhead(r, mode)
      \/ \E mode \in AskedModes, targets \in GroundSets : ClaimGround(r, mode, targets)
      \/ DropClaims(r)
      \/ \E extension \in Extensions : RefreshLeases(r, extension)
      => TrackInv'
  BY NoStateTracked DEF ClaimAhead, ClaimGround, DropClaims, RefreshLeases
<1> QED BY <1>2, <1>3, <1>4, <1>5 DEF GroundStep

LEMMA UnenrolTracked ==
    ASSUME TrackInv, NEW r \in Robots, Unenrol(r)
    PROVE  TrackInv'
BY DefaultIsState, OneRobotTracked DEF Unenrol

-----------------------------------------------------------------------------
(* What is released as left behind holds nothing the robot stands on or     *)
(* has yet to cover (release_targets_behind_progress).                     *)
LEMMA ReleasedIsBehind ==
    ASSUME TrackInv, NEW r \in Robots, place[r] # 0, ReleaseBehind(r)
    PROVE  \A l \in leases \ leases' : l.targets \cap Ahead(r) = {}
<1> DEFINE p == state[r].plan
           i == FirstAt(p, state[r].node)
<1>1. /\ p \in Plans /\ place[r] \in 1..Len(p.nodes)
      /\ i \in Nat /\ i <= place[r]
  BY DEF TrackInv, Tracked, ReleaseBehind
<1>2. leases \ leases' \subseteq Behind(r)
  BY DEF ReleaseBehind
<1>3. \A k : k \in place[r]..Len(p.nodes) => k \in i..Len(p.nodes)
  BY <1>1
<1>4. \A k : k \in place[r]..Len(p.edges) => k \in i..Len(p.edges)
  BY <1>1
<1> HIDE DEF i
<1>5. Ahead(r) \subseteq NodesFrom(p, i) \cup EdgesFrom(p, i)
  BY <1>3, <1>4 DEF Ahead, NodesFrom, EdgesFrom
<1>6. NodesFrom(p, i) \cup EdgesFrom(p, i) \subseteq Remaining(p, i)
  BY DEF Remaining, Filed
<1>7. \A l \in Behind(r) : l.targets \cap Remaining(p, i) = {}
  BY DEF Behind, i
<1> QED BY <1>2, <1>5, <1>6, <1>7

LEMMA TrackInvariance == SchedSpec => []TrackInv
<1>1. SchedInit => TrackInv
  BY DefaultIsState DEF SchedInit, TrackInv, Shaped, Tracked
<1>2. TrackInv /\ [SchedNext]_schedVars => TrackInv'
  <2> SUFFICES ASSUME TrackInv, [SchedNext]_schedVars
               PROVE  TrackInv'
    OBVIOUS
  <2>1. ASSUME NEW r \in Robots, Enrol(r)
        PROVE  TrackInv'
    BY <2>1, NoStateTracked DEF Enrol
  <2>2. CASE (ExpireClaims \/ Tick) /\ UNCHANGED <<fleet, state, place>>
    BY <2>2, NoStateTracked
  <2>3. CASE UNCHANGED schedVars
    BY <2>3, NoStateTracked DEF schedVars
  <2>4. \A r \in Steered : r \in Robots
    BY ScheduleAssumption
  <2> QED
    BY <2>1, <2>2, <2>3, <2>4, UnenrolTracked, GroundStepTracked, PlanStepTracked,
       ReportStepTracked DEF SchedNext
<1> QED BY <1>1, <1>2, PTL DEF SchedSpec

(* Releasing what is behind never gives up ground the robot stands on or    *)
(* has yet to cover (release_targets_behind_progress).                     *)
THEOREM NothingAheadReleasedHolds == SchedSpec => NothingAheadReleased
<1>1. TrackInv => \A r \in Robots :
                      leases' # leases /\ place[r] # 0 /\ ReleaseBehind(r) =>
                          \A l \in leases \ leases' : l.targets \cap Ahead(r) = {}
  BY ReleasedIsBehind
<1> QED BY <1>1, TrackInvariance, PTL DEF NothingAheadReleased

-----------------------------------------------------------------------------
(* Types.  What a schedule starts at is the end of the last hold it meets,  *)
(* so that it is a tick at all depends on the holds' ends having a bound.  *)
BoundedEnds(hs) == \E m \in Nat : \A h \in hs : h.end <= m

StepOnPlan(s) == s.plan # NoPlan => s.next <= Len(s.plan.nodes)

Fits(r) ==
    /\ r \notin fleet => state[r] = Default
    /\ StepOnPlan(state[r])
    /\ place[r] # 0 => /\ state[r].plan # NoPlan
                       /\ place[r] <= Len(state[r].plan.nodes)

FleetTyped ==
    /\ fleet \subseteq Robots
    /\ state \in [Robots -> RobotState]
    /\ place \in [Robots -> Nat]
    /\ \A r \in Robots : Fits(r)

SchedInv == TypeOK /\ BoundedEnds(Holds) /\ FleetTyped

LEMMA SchedInvTypes == SchedInv => SchedTypeOK
BY DEF SchedInv, FleetTyped, Fits, StepOnPlan, SchedTypeOK

(* A bounded set of naturals has a greatest element.                       *)
LEMMA GreatestNat ==
    ASSUME NEW S, S \subseteq Nat, S # {}, NEW m \in Nat, \A x \in S : x <= m
    PROVE  \E n \in S : \A x \in S : x <= n
<1> DEFINE gaps == {m - x : x \in S}
<1>1. \A x \in S : x \in Nat /\ x <= m /\ m - x \in Nat
  OBVIOUS
<1>2. gaps \subseteq Nat /\ gaps # {}
  BY <1>1
<1> HIDE DEF gaps
<1>3. PICK g \in gaps : \A h \in gaps : g <= h
  BY <1>2, LeastNat
<1>4. PICK n \in S : g = m - n
  BY <1>3 DEF gaps
<1>5. \A x \in S : m - n <= m - x
  BY <1>3, <1>4 DEF gaps
<1> QED BY <1>1, <1>5

(* The parts of a plan.                                                    *)
LEMMA PlanParts ==
    ASSUME NEW p \in Plans
    PROVE  /\ Len(p.edges) \in Nat /\ Len(p.edges) + 1 = Len(p.nodes)
           /\ DOMAIN p.edges = 1..Len(p.edges)
           /\ \A i \in 1..Len(p.edges) : p.edges[i] \in Edges
           /\ \A i \in 1..Len(p.nodes) : p.cost[i] \in Nat
           /\ Len(p.cost) = Len(p.nodes)
           /\ p.cost[1] = 0
           /\ \A i \in 1..Len(p.edges) : p.cost[i] <= p.cost[i + 1]
<1>1. /\ p.edges \in Seq(Edges) /\ p.cost \in Seq(Nat)
      /\ Len(p.edges) + 1 = Len(p.nodes) /\ Len(p.cost) = Len(p.nodes)
      /\ p.cost[1] = 0
      /\ \A i \in 1..Len(p.edges) : p.cost[i] <= p.cost[i + 1]
  BY ScheduleAssumption
<1>2. \A i \in 1..Len(p.cost) : p.cost[i] \in Nat
  BY <1>1
<1> QED BY <1>1, <1>2

(* What a plan costs grows from step to step (RoutePlan steps carry         *)
(* cumulative costs).                                                      *)
LEMMA CostInOrder ==
    ASSUME NEW p \in Plans, NEW i \in 1..Len(p.nodes), NEW j \in 1..Len(p.nodes), i <= j
    PROVE  p.cost[i] <= p.cost[j]
<1> DEFINE early == {k \in i..Len(p.nodes) : p.cost[k] < p.cost[i]}
<1>1. /\ Len(p.nodes) \in Nat
      /\ \A k \in 1..Len(p.nodes) : p.cost[k] \in Nat
      /\ Len(p.edges) + 1 = Len(p.nodes) /\ Len(p.edges) \in Nat
      /\ \A k \in 1..Len(p.edges) : p.cost[k] <= p.cost[k + 1]
  BY PlanShape, PlanParts
<1>2. ASSUME early # {} PROVE FALSE
  <2>1. early \subseteq Nat
    BY <1>1
  <2>2. PICK k \in early : \A h \in early : k <= h
    BY <1>2, <2>1, LeastNat
  <2>3. k \in i..Len(p.nodes) /\ p.cost[k] < p.cost[i]
    OBVIOUS
  <2>4. k # i
    BY <1>1, <2>3
  <2>5. k - 1 \in i..Len(p.nodes) /\ k - 1 \in 1..Len(p.edges)
    BY <1>1, <2>3, <2>4
  <2>6. ~(p.cost[k - 1] < p.cost[i])
    BY <2>2, <2>3, <2>5
  <2>7. p.cost[k - 1] <= p.cost[(k - 1) + 1]
    BY <1>1, <2>5
  <2>8. (k - 1) + 1 = k
    BY <2>3
  <2> QED BY <1>1, <2>3, <2>5, <2>6, <2>7, <2>8
<1>3. j \in i..Len(p.nodes) /\ j \notin early
  BY <1>1, <1>2
<1> QED BY <1>1, <1>3

(* A half counts as a whole unit, and a dearer way never takes fewer ticks. *)
LEMMA CeilingInOrder ==
    ASSUME NEW a \in Nat, NEW b \in Nat, a <= b
    PROVE  Ceiling(a) \in Nat /\ Ceiling(b) \in Nat /\ Ceiling(a) <= Ceiling(b)
BY DEF Ceiling

LEMMA TimesInOrder ==
    ASSUME NEW a \in Nat, NEW b \in Nat, a <= b, NEW n \in Nat
    PROVE  a * n \in Nat /\ b * n \in Nat /\ a * n <= b * n
<1>1. PICK d \in Nat : b = a + d
  BY b - a \in Nat /\ b = a + (b - a)
<1>2. a * n \in Nat /\ d * n \in Nat /\ b * n = a * n + d * n
  BY <1>1
<1> QED BY <1>2

LEMMA TicksInOrder ==
    ASSUME NEW a \in Nat, NEW b \in Nat, a <= b
    PROVE  Ticks(a) \in Nat /\ Ticks(b) \in Nat /\ Ticks(a) <= Ticks(b)
<1>1. TicksPerCost \in Nat
  BY ScheduleAssumption
<1>2. /\ a * TicksPerCost \in Nat /\ b * TicksPerCost \in Nat
      /\ a * TicksPerCost <= b * TicksPerCost
  BY <1>1, TimesInOrder
<1> QED BY <1>2, CeilingInOrder DEF Ticks

(* A node that is on a plan is found at a step of it.                      *)
LEMMA FirstOnPlan ==
    ASSUME NEW p \in Plans, NEW n, OnPlan(p, n)
    PROVE  FirstAt(p, n) \in 1..Len(p.nodes)
<1>1. PICK i \in 1..Len(p.nodes) : p.nodes[i] = n
  BY PlanShape DEF OnPlan
<1> QED BY <1>1, FirstPassage

LEMMA ProgressOnPlan ==
    ASSUME NEW s \in RobotState, s.plan # NoPlan, StepOnPlan(s)
    PROVE  s.plan \in Plans /\ ProgressIndex(s) \in 1..Len(s.plan.nodes)
<1>1. s.plan \in Plans /\ s.next \in Nat /\ s.next # 0
  BY DEF RobotState
<1>2. s.next \in 1..Len(s.plan.nodes)
  BY <1>1, PlanShape DEF StepOnPlan
<1> QED BY <1>1, <1>2, FirstOnPlan DEF ProgressIndex

-----------------------------------------------------------------------------
(* What each operation leaves of a RobotState has its type.                *)
LEMMA DefaultTyped == Default \in RobotState /\ StepOnPlan(Default)
BY DEF Default, RobotState, Progress, StepOnPlan

Fields(s) ==
    /\ IsState(s)
    /\ s.plan \in Plans \cup {NoPlan} /\ s.node \in Nodes \cup {Unknown}
    /\ s.next \in Nat \ {0} /\ s.progress \in Progress
    /\ s.needsReplan \in BOOLEAN /\ s.scheduled \in Nat \cup {None}
    /\ s.wait \in Nat /\ s.updated \in Nat
    /\ s.leaseIds \in SUBSET LeaseIds

LEMMA TypedByFields == ASSUME NEW s PROVE s \in RobotState <=> Fields(s)
<1>1. ASSUME s \in RobotState PROVE IsState(s)
  BY <1>1 DEF RobotState, IsState
<1>2. ASSUME s \in RobotState PROVE Fields(s)
  BY <1>1, <1>2 DEF RobotState, Fields
<1>3. ASSUME Fields(s) PROVE s \in RobotState
  BY <1>3 DEF RobotState, IsState, Fields
<1> QED BY <1>2, <1>3

LEMMA ReportedTyped ==
    ASSUME NEW s \in RobotState, StepOnPlan(s), now \in Nat,
           NEW n \in Nodes \cup {Unknown}, NEW edge \in BOOLEAN
    PROVE  Reported(s, n, edge) \in RobotState /\ StepOnPlan(Reported(s, n, edge))
<1>1. CASE s.plan # NoPlan /\ n # Unknown /\ OnPlan(s.plan, n)
  <2>1. s.plan \in Plans
    BY <1>1 DEF RobotState
  <2>2. PICK i : i = FirstAt(s.plan, n)
    OBVIOUS
  <2>3. i \in 1..Len(s.plan.nodes) /\ i \in Nat /\ i # 0 /\ i <= Len(s.plan.nodes)
    BY <1>1, <2>1, <2>2, FirstOnPlan, PlanShape
  <2>4. PICK told \in {"idle", "following"} :
           Reported(s, n, edge) =
               [s EXCEPT !.node = n, !.updated = now, !.next = i, !.progress = told,
                         !.needsReplan = FALSE, !.wait = 0]
    BY <1>1, <2>2 DEF Reported, RobotState
  <2>5. PICK new : new = Reported(s, n, edge)
    OBVIOUS
  <2>6. /\ IsState(new) /\ new.plan = s.plan /\ new.node = n /\ new.next = i
        /\ new.progress = told /\ new.needsReplan \in BOOLEAN
        /\ new.scheduled = s.scheduled /\ new.wait = 0
        /\ new.updated = now /\ new.leaseIds = s.leaseIds
    <3>1. IsState(s)
      BY TypedByFields DEF Fields
    <3> QED BY <2>4, <2>5, <3>1 DEF IsState
  <2>7. new \in RobotState
    <3>1. Fields(s)
      BY TypedByFields
    <3>2. Fields(new)
      BY <2>3, <2>6, <3>1 DEF Fields, Progress
    <3> QED BY <3>2, TypedByFields
  <2> QED BY <2>3, <2>5, <2>6, <2>7 DEF StepOnPlan
<1>2. CASE s.plan # NoPlan /\ n # Unknown /\ ~OnPlan(s.plan, n)
  BY <1>2 DEF Reported, RobotState, Progress, StepOnPlan
<1>3. CASE ~(s.plan # NoPlan /\ n # Unknown)
  BY <1>3 DEF Reported, RobotState, Progress, StepOnPlan
<1> QED BY <1>1, <1>2, <1>3

(* A schedule starts now or later, at a tick.                              *)
LEMMA DecisionTyped ==
    ASSUME TypeOK, BoundedEnds(Holds), NEW p \in Plans, NEW skip
    PROVE  LET d == Decision(p, now, skip)
           IN  /\ d.kind \in {"proceed", "replan", "queue"}
               /\ d.start \in Nat /\ d.start - now \in Nat
<1> DEFINE d    == Decision(p, now, skip)
           met  == Conflicts(p, now, skip)
           ends == {now} \cup {Until(c) : c \in met}
           last == CHOOSE e \in ends : \A o \in ends : o <= e
<1>1. now \in Nat
  BY DEF TypeOK
<1>2. PICK m \in Nat : \A h \in Holds : h.end <= m
  BY DEF BoundedEnds
<1>3. PICK due \in Nat :
         \A i \in 1..Len(p.nodes) : Ticks(p.cost[i]) \in Nat /\ Ticks(p.cost[i]) <= due
  <2>1. Len(p.nodes) \in Nat /\ Len(p.nodes) \in 1..Len(p.nodes)
    BY PlanShape
  <2>2. ASSUME NEW i \in 1..Len(p.nodes)
        PROVE  /\ Ticks(p.cost[i]) \in Nat /\ Ticks(p.cost[Len(p.nodes)]) \in Nat
               /\ Ticks(p.cost[i]) <= Ticks(p.cost[Len(p.nodes)])
    <3>1. p.cost[i] \in Nat /\ p.cost[Len(p.nodes)] \in Nat
      BY <2>1, PlanParts
    <3>2. i <= Len(p.nodes)
      BY <2>1
    <3>3. p.cost[i] <= p.cost[Len(p.nodes)]
      BY <2>1, <3>2, CostInOrder
    <3> QED BY <3>1, <3>3, TicksInOrder
  <2> QED BY <2>1, <2>2
<1>4. ASSUME NEW c \in met
      PROVE  Until(c) \in Nat /\ Until(c) <= m + now + due
  <2>1. /\ c.hold \in Holds
        /\ \E i \in DOMAIN p.nodes : c.step = StepWindow(p, i, now)
    BY DEF Conflicts, Meetings, Holds
  <2>2. c.hold.end \in Nat /\ c.hold.end <= m
    BY <1>2, <2>1, HoldsAreHolds DEF IsHold
  <2>3. PICK i \in 1..Len(p.nodes) : c.step = StepWindow(p, i, now)
    BY <2>1, PlanShape
  <2>4. Least(i + 1, Len(p.nodes)) \in 1..Len(p.nodes)
    BY PlanShape DEF Least
  <2>5. c.step.end = now + Ticks(p.cost[Least(i + 1, Len(p.nodes))])
    BY <2>3 DEF StepWindow
  <2>6. c.step.end \in Nat /\ c.step.end <= now + due
    BY <1>1, <1>3, <2>4, <2>5
  <2> QED BY <1>1, <1>3, <2>2, <2>6 DEF Until
<1>5. /\ ends \subseteq Nat /\ now \in ends
      /\ \A e \in ends : e <= m + now + due
  BY <1>1, <1>3, <1>4
<1>6. last \in ends /\ \A o \in ends : o <= last
  <2>1. m + now + due \in Nat
    BY <1>1, <1>3
  <2> HIDE DEF ends
  <2>2. PICK bound \in Nat : bound = m + now + due
    BY <2>1
  <2>3. \E e \in ends : \A o \in ends : o <= e
    BY <1>5, <2>2, GreatestNat
  <2> QED BY <2>3
<1>7. last \in Nat /\ now <= last
  BY <1>5, <1>6
<1>8. \/ d = [kind |-> "proceed", start |-> now]
      \/ d = [kind |-> "replan", start |-> now]
      \/ d = [kind |-> "queue", start |-> 1 + last]
  BY DEF Decision
<1> HIDE DEF last, d
<1>9. /\ d.kind \in {"proceed", "replan", "queue"}
      /\ d.start \in Nat /\ d.start - now \in Nat
  BY <1>1, <1>7, <1>8
<1> QED BY <1>9 DEF d

LEMMA ScheduledTyped ==
    ASSUME NEW s \in RobotState, StepOnPlan(s), now \in Nat,
           NEW d, d.kind \in {"proceed", "replan", "queue"},
           d.start \in Nat, d.start - now \in Nat
    PROVE  Scheduled(s, d) \in RobotState /\ StepOnPlan(Scheduled(s, d))
<1>1. PICK told \in Progress, again \in BOOLEAN :
         Scheduled(s, d) = [s EXCEPT !.updated = now, !.scheduled = d.start,
                                     !.wait = d.start - now,
                                     !.needsReplan = again, !.progress = told]
  BY DEF Scheduled, Progress
<1> QED BY <1>1 DEF RobotState, StepOnPlan

LEMMA RevokedTyped ==
    ASSUME NEW s \in RobotState, StepOnPlan(s), now \in Nat,
           NEW again \in BOOLEAN, NEW new,
           new = [s EXCEPT !.leaseIds = {}, !.updated = now,
                           !.progress = "replanning", !.needsReplan = again]
    PROVE  new \in RobotState /\ new.plan = s.plan /\ StepOnPlan(new)
BY DEF RobotState, Progress, StepOnPlan

LEMMA OtherwiseTyped ==
    ASSUME NEW s \in RobotState, StepOnPlan(s), now \in Nat
    PROVE  /\ LET new == [s EXCEPT !.progress = "replanning",
                                   !.needsReplan = TRUE, !.updated = now]
              IN  new \in RobotState /\ new.plan = s.plan /\ StepOnPlan(new)
           /\ \A ids \in SUBSET LeaseIds :
                  LET new == [s EXCEPT !.leaseIds = ids]
                  IN  /\ new \in RobotState /\ new.plan = s.plan
                      /\ StepOnPlan(new)
           /\ \A p \in Plans :
                  LET new == [s EXCEPT !.plan = p, !.next = 1, !.scheduled = now,
                                       !.wait = 0, !.needsReplan = FALSE,
                                       !.progress = "following", !.updated = now]
                  IN  /\ new \in RobotState /\ new.plan = p /\ StepOnPlan(new)
<1>1. ASSUME NEW new, new = [s EXCEPT !.progress = "replanning",
                                      !.needsReplan = TRUE, !.updated = now]
      PROVE  new \in RobotState /\ new.plan = s.plan /\ StepOnPlan(new)
  BY <1>1 DEF RobotState, Progress, StepOnPlan
<1>2. ASSUME NEW ids \in SUBSET LeaseIds, NEW new, new = [s EXCEPT !.leaseIds = ids]
      PROVE  new \in RobotState /\ new.plan = s.plan /\ StepOnPlan(new)
  BY <1>2 DEF RobotState, StepOnPlan
<1>3. ASSUME NEW p \in Plans, NEW new,
             new = [s EXCEPT !.plan = p, !.next = 1, !.scheduled = now,
                             !.wait = 0, !.needsReplan = FALSE,
                             !.progress = "following", !.updated = now]
      PROVE  new \in RobotState /\ new.plan = p /\ StepOnPlan(new)
  <2>1. /\ IsState(new) /\ new.plan = p /\ new.node = s.node /\ new.next = 1
        /\ new.progress = "following" /\ new.needsReplan \in BOOLEAN
        /\ new.scheduled = now /\ new.wait = 0
        /\ new.updated = now /\ new.leaseIds = s.leaseIds
    <3>1. IsState(s)
      BY TypedByFields DEF Fields
    <3> QED BY <1>3, <3>1 DEF IsState
  <2>2. new \in RobotState
    <3>1. Fields(s)
      BY TypedByFields
    <3>2. Fields(new)
      BY <2>1, <3>1 DEF Fields, Progress
    <3> QED BY <3>2, TypedByFields
  <2> QED BY <2>1, <2>2, PlanShape DEF StepOnPlan
<1> QED BY <1>1, <1>2, <1>3

-----------------------------------------------------------------------------
(* A rolling claim asks for resources, during a window of ticks.           *)
LEMMA HorizonIsWellFormed ==
    ASSUME NEW s \in RobotState, s.plan # NoPlan, StepOnPlan(s)
    PROVE  /\ HorizonTargets(s) \subseteq Resources
           /\ HorizonWindow(s).start \in Nat /\ HorizonWindow(s).end \in Nat
<1> DEFINE p == s.plan
           i == ProgressIndex(s)
<1>1. /\ p \in Plans /\ i \in 1..Len(p.nodes) /\ i \in Nat /\ 1 <= i
      /\ Len(p.nodes) \in Nat /\ 1 <= Len(p.nodes)
      /\ Len(p.edges) \in Nat /\ Len(p.edges) + 1 = Len(p.nodes)
  BY ProgressOnPlan, PlanShape, PlanParts
<1>2. s.updated \in Nat /\ Horizon \in Nat /\ 1 <= Horizon
  BY ScheduleAssumption DEF RobotState
<1>3. /\ p.cost[i] \in Nat /\ p.cost[Len(p.nodes)] \in Nat
      /\ p.cost[i] <= p.cost[Len(p.nodes)]
      /\ Len(p.cost) = Len(p.nodes)
  BY <1>1, CostInOrder, PlanParts
<1>4. PICK rest \in Nat : HorizonWindow(s) = [start |-> s.updated,
                                               end |-> s.updated + Ceiling(rest)]
  <2>1. PICK done \in {0, p.cost[i]} : done = (IF i = 1 THEN 0 ELSE p.cost[i])
    OBVIOUS
  <2>2. p.cost[Len(p.nodes)] - done \in Nat
    BY <1>3, <2>1
  <2>3. HorizonWindow(s) = [start |-> s.updated,
                            end |-> s.updated + Ceiling(p.cost[Len(p.nodes)] - done)]
    BY <1>3, <2>1 DEF HorizonWindow
  <2> QED BY <2>2, <2>3
<1>5. /\ \A k : k \in i..Least(i + Horizon, Len(p.nodes)) => k \in 1..Len(p.nodes)
      /\ \A k : k \in i..Least(i + Horizon - 1, Len(p.edges)) => k \in 1..Len(p.edges)
  BY <1>1, <1>2 DEF Least
<1>6. /\ \A k \in 1..Len(p.nodes) : p.nodes[k] \in Nodes
      /\ \A k \in 1..Len(p.edges) : p.edges[k] \in Edges
  BY <1>1, PlanShape, PlanParts
<1>7. HorizonTargets(s) = {p.nodes[k] : k \in i..Least(i + Horizon, Len(p.nodes))}
                   \cup {p.edges[k] : k \in i..Least(i + Horizon - 1, Len(p.edges))}
  BY DEF HorizonTargets
<1> HIDE DEF i
<1>8. HorizonTargets(s) \subseteq Resources
  BY <1>5, <1>6, <1>7 DEF Resources, Spatial
<1>9. Ceiling(rest) \in Nat
  BY CeilingInOrder
<1> QED BY <1>2, <1>4, <1>8, <1>9

LEMMA OneEndMore ==
    ASSUME NEW hs, BoundedEnds(hs), NEW n \in Nat, NEW more,
           \A h \in more : h.end <= n \/ \E g \in hs : h.end = g.end,
           \A h \in hs \cup more : h.end \in Nat
    PROVE  BoundedEnds(more)
<1>1. PICK m \in Nat : \A h \in hs : h.end <= m
  BY DEF BoundedEnds
<1>2. m + n \in Nat /\ \A h \in more : h.end <= m + n
  BY <1>1
<1> QED BY <1>2 DEF BoundedEnds

(* What the operations that scheduling is made of do to the ledger.        *)
LEMMA ClaimKeepsEnds ==
    ASSUME TypeOK, BoundedEnds(Holds), NEW robot \in Robots, NEW mode \in Modes,
           NEW targets, targets \subseteq Resources,
           NEW w, w.start \in Nat, w.end \in Nat,
           Claim(robot, mode, targets, w)
    PROVE  TypeOK' /\ BoundedEnds(Holds')
<1> DEFINE id == MintedId(requests, leases, nextId)
           q  == ClaimRecord(id, robot, mode, targets, w.start, w.end)
<1>1. PICK n \in Nat :
         /\ q \in Request
         /\ \/ requests' = requests
            \/ requests' \subseteq requests \cup {[q EXCEPT !.slot = n]}
  BY ClaimShape
<1>2. TypeOK' /\ leases' = leases
  BY ClaimTypeOK DEF Claim
<1> DEFINE moved == [q EXCEPT !.slot = n]
<1>3. moved.end = w.end /\ requests' \subseteq requests \cup {moved}
  BY <1>1, SlotIsNoGround DEF ClaimRecord
<1> HIDE DEF moved, q
<1>4. \A h \in Holds' : h \in Holds \/ h.end = w.end
  BY <1>2, <1>3 DEF Holds
<1>5. \A h \in Holds \cup Holds' : h.end \in Nat
  BY <1>2 DEF TypeOK, Holds, Request, Lease
<1> QED BY <1>2, <1>4, <1>5, OneEndMore

LEMMA FewerHoldsKeepEnds ==
    ASSUME TypeOK, BoundedEnds(Holds),
           requests' \subseteq requests, leases' \subseteq leases,
           archive' \subseteq archive \cup
                        UNION {Archiving(leases, why) :
                                   why \in {"released", "revoked", "expired"}},
           nextId' = nextId, now' \in Nat
    PROVE  TypeOK' /\ BoundedEnds(Holds')
BY FewerHoldsTypeOK DEF BoundedEnds, Holds

LEMMA LedgerStepTyped ==
    ASSUME SchedInv, [SchedNext]_schedVars
    PROVE  TypeOK' /\ BoundedEnds(Holds')
<1>1. /\ TypeOK /\ BoundedEnds(Holds) /\ now \in Nat /\ now + 1 \in Nat
      /\ \A r \in Robots : state[r] \in RobotState /\ StepOnPlan(state[r])
  BY DEF SchedInv, FleetTyped, Fits, TypeOK
<1>2. UNCHANGED vars => TypeOK' /\ BoundedEnds(Holds')
  BY <1>1 DEF vars, ledger, TypeOK, LiveIds, Holds
<1>3. ASSUME NEW r \in Robots, GroundStep(r)
      PROVE  TypeOK' /\ BoundedEnds(Holds')
  <2>1. ASSUME NEW mode \in AskedModes, ClaimAhead(r, mode)
        PROVE  TypeOK' /\ BoundedEnds(Holds')
    <3>1. /\ Claim(r, mode, HorizonTargets(state[r]), HorizonWindow(state[r]))
          /\ state[r].plan # NoPlan
      BY <2>1 DEF ClaimAhead
    <3>2. mode \in Modes
      BY ScheduleAssumption
    <3> QED BY <1>1, <3>1, <3>2, HorizonIsWellFormed, ClaimKeepsEnds
  <2>2. ASSUME NEW mode \in AskedModes, NEW targets \in GroundSets,
               ClaimGround(r, mode, targets)
        PROVE  TypeOK' /\ BoundedEnds(Holds')
    <3>1. PICK length \in Lengths :
             Claim(r, mode, targets, [start |-> now, end |-> now + length])
      BY <2>2 DEF ClaimGround
    <3>2. /\ mode \in Modes /\ targets \subseteq Resources
          /\ now + length \in Nat
      BY <1>1, ScheduleAssumption, ManagerAssumption
    <3> QED BY <1>1, <3>1, <3>2, ClaimKeepsEnds
  <2>3. ASSUME NEW q \in requests, NEW id \in LeaseIds, TakeLease(r, q, id)
        PROVE  TypeOK' /\ BoundedEnds(Holds')
    <3>1. GrantLease(q, id, q.id, q.end) /\ q.end \in Nat
      BY <1>1, <2>3 DEF TakeLease, TypeOK, Request
    <3>2. TypeOK'
      BY <1>1, <3>1, GrantLeaseTypeOK
    <3>3. \A h \in Holds' : h \in Holds \/ h.end = q.end
      BY <3>1 DEF GrantLease, AddLease, Holds
    <3>4. \A h \in Holds \cup Holds' : h.end \in Nat
      BY <1>1, <3>2 DEF TypeOK, Holds, Request, Lease
    <3> QED BY <1>1, <3>1, <3>2, <3>3, <3>4, OneEndMore
  <2>4. CASE DropClaims(r)
    BY <1>1, <2>4, FewerHoldsKeepEnds DEF DropClaims, WithoutRobot
  <2>5. CASE ReleaseBehind(r)
    <3>1. Behind(r) \subseteq leases
      BY DEF Behind, Listed
    <3>2. Archiving(Behind(r), "released") \subseteq Archiving(leases, "released")
      BY <3>1 DEF Archiving
    <3> QED BY <1>1, <2>5, <3>2, FewerHoldsKeepEnds DEF ReleaseBehind
  <2>6. CASE RevokeLeases(r)
    <3>1. Archiving(Listed(r), "revoked") \subseteq Archiving(leases, "revoked")
      BY DEF Archiving, Listed
    <3> QED BY <1>1, <2>6, <3>1, FewerHoldsKeepEnds DEF RevokeLeases
  <2>7. ASSUME NEW extension \in Extensions, RefreshLeases(r, extension)
        PROVE  TypeOK' /\ BoundedEnds(Holds')
    <3> DEFINE ending == {l \in Listed(r) : l.end # Forever}
    <3>1. /\ \A l \in ending : l.end + extension <= MaxEnd
          /\ leases' = (leases \ ending)
                           \cup {[l EXCEPT !.end = @ + extension] : l \in ending}
          /\ UNCHANGED <<requests, archive, nextId, now>>
      BY <2>7 DEF RefreshLeases
    <3>2. ending \subseteq leases /\ extension \in Nat /\ MaxEnd \in Nat
      BY ScheduleAssumption DEF Listed
    <3>3. ASSUME NEW n \in leases'
          PROVE  /\ n \in Lease
                 /\ \E l \in leases : n.claim = l.claim
                 /\ n \in leases \/ n.end <= MaxEnd
      <4>1. CASE n \in leases
        BY <1>1, <4>1 DEF TypeOK
      <4>2. ASSUME NEW l \in ending, n = [l EXCEPT !.end = @ + extension]
            PROVE  /\ n \in Lease
                   /\ \E k \in leases : n.claim = k.claim
                   /\ n.end <= MaxEnd
        <5>1. l \in Lease /\ l \in leases /\ l.end + extension <= MaxEnd
          BY <1>1, <3>1, <3>2 DEF TypeOK
        <5>2. n \in Lease /\ n.claim = l.claim /\ n.end = l.end + extension
          BY <3>2, <4>2, <5>1 DEF Lease
        <5> QED BY <5>1, <5>2
      <4> HIDE DEF ending
      <4> QED BY <3>1, <4>1, <4>2
    <3> HIDE DEF ending
    <3>4. TypeOK'
      BY <1>1, <3>1, <3>3 DEF TypeOK, LiveIds
    <3>5. \A h \in Holds' : h.end <= MaxEnd \/ h \in Holds
      BY <3>1, <3>3 DEF Holds
    <3>6. \A h \in Holds \cup Holds' : h.end \in Nat
      BY <1>1, <3>4 DEF TypeOK, Holds, Request, Lease
    <3> QED BY <1>1, <3>2, <3>4, <3>5, <3>6, OneEndMore
  <2> QED BY <1>3, <2>1, <2>2, <2>3, <2>4, <2>5, <2>6, <2>7 DEF GroundStep
<1>4. ASSUME NEW r \in Robots, Enrol(r) \/ PlanStep(r) \/ ReportStep(r)
      PROVE  UNCHANGED vars
  BY <1>4 DEF Enrol, PlanStep, AssignRoutePlan, Schedule, HandleMissedSlot, ReportStep,
              Drive, ReportOnPlan, ReportNoNode, ReportElsewhere, Report
<1>5. ASSUME NEW r \in Robots, Unenrol(r)
      PROVE  TypeOK' /\ BoundedEnds(Holds')
  <2>1. /\ requests' \subseteq requests /\ leases' \subseteq leases
        /\ archive' = archive \cup Archiving(leases \ leases', "released")
        /\ nextId' = nextId /\ now' = now
    BY <1>5 DEF Unenrol, RemoveRobot, WithoutRobot
  <2>2. Archiving(leases \ leases', "released") \subseteq Archiving(leases, "released")
    BY DEF Archiving
  <2> QED BY <1>1, <2>1, <2>2, FewerHoldsKeepEnds
<1>6. CASE ExpireClaims
  <2>1. /\ requests' \subseteq requests /\ leases' \subseteq leases
        /\ archive' = archive \cup Archiving(leases \ leases', "expired")
        /\ nextId' = nextId /\ now' = now
    BY <1>6 DEF ExpireClaims, Unexpired
  <2>2. Archiving(leases \ leases', "expired") \subseteq Archiving(leases, "expired")
    BY DEF Archiving
  <2> QED BY <1>1, <2>1, <2>2, FewerHoldsKeepEnds
<1>7. CASE Tick
  BY <1>1, <1>7, FewerHoldsKeepEnds DEF Tick, ledger
<1>8. CASE UNCHANGED schedVars
  BY <1>2, <1>8 DEF schedVars
<1>9. Steered \subseteq Robots
  BY ScheduleAssumption
<1> QED BY <1>2, <1>3, <1>4, <1>5, <1>6, <1>7, <1>8, <1>9 DEF SchedNext

(* What they do to the robots' states.                                     *)
LEMMA OneRobotTyped ==
    ASSUME FleetTyped, NEW r \in Robots, NEW s \in RobotState, StepOnPlan(s),
           Becomes(r, s), fleet' \subseteq Robots, r \in fleet' \/ s = Default,
           \A o \in Robots \ {r} : o \in fleet' <=> o \in fleet,
           NEW i \in Nat, place' = [place EXCEPT ![r] = i],
           i # 0 => s.plan # NoPlan /\ i <= Len(s.plan.nodes)
    PROVE  FleetTyped'
<1>1. /\ state' \in [Robots -> RobotState]
      /\ state'[r] = s /\ \A o \in Robots \ {r} : state'[o] = state[o]
  BY DEF FleetTyped, Becomes
<1>2. /\ place' \in [Robots -> Nat]
      /\ place'[r] = i /\ \A o \in Robots \ {r} : place'[o] = place[o]
  BY DEF FleetTyped
<1>3. ASSUME NEW o \in Robots PROVE Fits(o)'
  <2>1. CASE o = r
    BY <1>1, <1>2, <2>1 DEF Fits, StepOnPlan
  <2>2. CASE o # r
    BY <1>1, <1>2, <2>2 DEF FleetTyped, Fits, StepOnPlan
  <2> QED BY <2>1, <2>2
<1> QED BY <1>1, <1>2, <1>3 DEF FleetTyped

(* A state that changes while the robot stays where it is and on its plan.  *)
LEMMA InPlaceTyped ==
    ASSUME FleetTyped, NEW r \in fleet, NEW s \in RobotState, StepOnPlan(s),
           s.plan = state[r].plan, Becomes(r, s), UNCHANGED <<fleet, place>>
    PROVE  FleetTyped'
<1>1. /\ r \in Robots /\ place[r] \in Nat
      /\ place' = [place EXCEPT ![r] = place[r]]
      /\ place[r] # 0 => s.plan # NoPlan /\ place[r] <= Len(s.plan.nodes)
  BY DEF FleetTyped, Fits
<1>2. fleet' \subseteq Robots /\ r \in fleet'
      /\ \A o \in Robots \ {r} : o \in fleet' <=> o \in fleet
  BY DEF FleetTyped
<1> QED BY <1>1, <1>2, OneRobotTyped

LEMMA UnchangedTyped ==
    ASSUME FleetTyped, UNCHANGED <<state, place>>,
           fleet' \subseteq Robots, fleet \subseteq fleet'
    PROVE  FleetTyped'
BY DEF FleetTyped, Fits, StepOnPlan

LEMMA PlanStepTyped ==
    ASSUME SchedInv, NEW r \in Robots, PlanStep(r)
    PROVE  FleetTyped'
<1> DEFINE s == state[r]
<1>1. /\ FleetTyped /\ s \in RobotState /\ StepOnPlan(s) /\ now \in Nat
      /\ s.plan # NoPlan => r \in fleet /\ s.plan \in Plans
  BY DEF SchedInv, FleetTyped, Fits, TypeOK, Default, RobotState
<1>2. ASSUME NEW p \in Plans, AssignRoutePlan(r, p)
      PROVE  FleetTyped'
  <2> DEFINE new == [s EXCEPT !.plan = p, !.next = 1, !.scheduled = now,
                              !.wait = 0, !.needsReplan = FALSE,
                              !.progress = "following", !.updated = now]
  <2>1. /\ Becomes(r, new) /\ r \in fleet /\ fleet' = fleet
        /\ place' = [place EXCEPT ![r] = 1]
    BY <1>2 DEF AssignRoutePlan
  <2>2. new \in RobotState /\ new.plan = p /\ StepOnPlan(new)
    BY <1>1, OtherwiseTyped
  <2>3. p # NoPlan /\ 1 <= Len(p.nodes)
    BY PlanShape, ScheduleAssumption
  <2>4. fleet' \subseteq Robots
    BY <1>1, <2>1 DEF FleetTyped
  <2> HIDE DEF new
  <2> QED BY <1>1, <2>1, <2>2, <2>3, <2>4, OneRobotTyped
<1>3. ASSUME NEW skip, Schedule(r, skip)
      PROVE  FleetTyped'
  <2> DEFINE d   == Decision(s.plan, now, skip)
             new == Scheduled(s, d)
  <2>1. s.plan # NoPlan /\ Becomes(r, new) /\ UNCHANGED <<fleet, place>>
    BY <1>3 DEF Schedule
  <2>2. /\ d.kind \in {"proceed", "replan", "queue"}
        /\ d.start \in Nat /\ d.start - now \in Nat
    BY <1>1, <2>1, DecisionTyped DEF SchedInv
  <2> HIDE DEF d
  <2>3. new \in RobotState /\ StepOnPlan(new) /\ new.plan = s.plan
    <3>1. IsState(s)
      BY <1>1, TypedByFields DEF Fields
    <3> QED BY <1>1, <2>2, <3>1, ScheduledTyped, ScheduledShape
  <2> HIDE DEF new
  <2> QED BY <1>1, <2>1, <2>3, InPlaceTyped
<1>4. ASSUME NEW grace, HandleMissedSlot(r, grace)
      PROVE  FleetTyped'
  <2> DEFINE new == [s EXCEPT !.progress = "replanning", !.needsReplan = TRUE,
                              !.updated = now]
  <2>1. Becomes(r, new) /\ r \in fleet /\ UNCHANGED <<fleet, place>>
    BY <1>4 DEF HandleMissedSlot
  <2>2. new \in RobotState /\ new.plan = s.plan /\ StepOnPlan(new)
    BY <1>1, OtherwiseTyped
  <2> HIDE DEF new
  <2> QED BY <1>1, <2>1, <2>2, InPlaceTyped
<1> QED BY <1>2, <1>3, <1>4 DEF PlanStep, PlansFromHere

LEMMA ReportStepTyped ==
    ASSUME SchedInv, NEW r \in Robots, ReportStep(r)
    PROVE  FleetTyped'
<1> DEFINE s == state[r]
<1>1. /\ FleetTyped /\ s \in RobotState /\ StepOnPlan(s) /\ now \in Nat
      /\ place[r] \in Nat
      /\ place[r] # 0 => /\ s.plan # NoPlan /\ s.plan \in Plans /\ r \in fleet
                         /\ place[r] <= Len(s.plan.nodes)
                         /\ place[r] \in 1..Len(s.plan.nodes)
  BY PlanShape DEF SchedInv, FleetTyped, Fits, TypeOK, Default, RobotState
<1>2. CASE Drive(r)
  <2>1. /\ place[r] # 0 /\ place[r] < Len(s.plan.nodes)
        /\ place' = [place EXCEPT ![r] = place[r] + 1]
        /\ state' = state /\ fleet' = fleet
    BY <1>2 DEF Drive
  <2>2. Becomes(r, s) /\ fleet' \subseteq Robots
    BY <1>1, <2>1 DEF Becomes, FleetTyped
  <2>3. place[r] + 1 \in Nat /\ place[r] + 1 <= Len(s.plan.nodes)
    BY <1>1, <2>1, PlanShape
  <2> QED BY <1>1, <2>1, <2>2, <2>3, OneRobotTyped
<1>3. ASSUME NEW n \in Nodes \cup {Unknown}, NEW edge \in BOOLEAN, Report(r, n, edge),
             place' = place \/ place' = [place EXCEPT ![r] = 0]
      PROVE  FleetTyped'
  <2> DEFINE new == Reported(s, n, edge)
  <2>1. Becomes(r, new) /\ r \in fleet /\ fleet' = fleet
    BY <1>3 DEF Report
  <2>2. new \in RobotState /\ StepOnPlan(new) /\ new.plan = s.plan
    <3>1. IsState(s)
      BY <1>1, TypedByFields DEF Fields
    <3> QED BY <1>1, <3>1, ReportedTyped, ReportedShape
  <2>3. fleet' \subseteq Robots
    BY <1>1, <2>1 DEF FleetTyped
  <2> HIDE DEF new
  <2> QED BY <1>1, <1>3, <2>1, <2>2, <2>3, InPlaceTyped, OneRobotTyped
<1>4. CASE ReportOnPlan(r)
  <2>1. /\ place[r] # 0 /\ Report(r, s.plan.nodes[place[r]], FALSE)
        /\ place' = place
    BY <1>4 DEF ReportOnPlan
  <2>2. s.plan.nodes[place[r]] \in Nodes
    BY <1>1, <2>1, PlanShape
  <2> QED BY <1>3, <2>1, <2>2
<1>5. ASSUME NEW edge \in BOOLEAN, ReportNoNode(r, edge)
      PROVE  FleetTyped'
  BY <1>3, <1>5 DEF ReportNoNode
<1>6. ASSUME NEW n \in Nodes, NEW edge \in BOOLEAN, ReportElsewhere(r, n, edge)
      PROVE  FleetTyped'
  BY <1>3, <1>6 DEF ReportElsewhere
<1> QED BY <1>2, <1>4, <1>5, <1>6 DEF ReportStep

LEMMA GroundStepTyped ==
    ASSUME SchedInv, NEW r \in Robots, GroundStep(r)
    PROVE  FleetTyped'
<1> DEFINE s == state[r]
<1>1. /\ FleetTyped /\ s \in RobotState /\ StepOnPlan(s) /\ now \in Nat
      /\ s.plan # NoPlan => r \in fleet
      /\ s.leaseIds \subseteq LeaseIds
      /\ leases \subseteq Lease
  BY DEF SchedInv, FleetTyped, Fits, TypeOK, Default, RobotState
<1>2. ASSUME NEW ids \in SUBSET LeaseIds, r \in fleet,
             Becomes(r, [s EXCEPT !.leaseIds = ids]), UNCHANGED <<fleet, place>>
      PROVE  FleetTyped'
  <2> DEFINE new == [s EXCEPT !.leaseIds = ids]
  <2>1. new \in RobotState /\ new.plan = s.plan /\ StepOnPlan(new)
    BY <1>1, OtherwiseTyped
  <2>2. Becomes(r, new)
    BY <1>2
  <2> HIDE DEF new
  <2> QED BY <1>1, <1>2, <2>1, <2>2, InPlaceTyped
<1>3. ASSUME NEW q \in requests, NEW id \in LeaseIds, TakeLease(r, q, id)
      PROVE  FleetTyped'
  <2>1. /\ r \in fleet /\ Becomes(r, [s EXCEPT !.leaseIds = s.leaseIds \cup {id}])
        /\ UNCHANGED <<fleet, place>>
    BY <1>3 DEF TakeLease
  <2> QED BY <1>1, <1>2, <2>1
<1>4. CASE ReleaseBehind(r)
  <2>1. {l.id : l \in Listed(r) \ Behind(r)} \in SUBSET LeaseIds
    BY <1>1 DEF Listed, Lease
  <2> QED BY <1>1, <1>2, <1>4, <2>1 DEF ReleaseBehind
<1>5. CASE RevokeLeases(r)
  <2> DEFINE again == Listed(r) # {}
             new == [s EXCEPT !.leaseIds = {}, !.updated = now,
                              !.progress = "replanning", !.needsReplan = again]
  <2>1. Becomes(r, new) /\ r \in fleet /\ UNCHANGED <<fleet, place>>
    BY <1>5 DEF RevokeLeases
  <2>2. new \in RobotState /\ new.plan = s.plan /\ StepOnPlan(new)
    <3>1. again \in BOOLEAN
      OBVIOUS
    <3> HIDE DEF again
    <3> QED BY <1>1, <3>1, RevokedTyped
  <2> HIDE DEF new
  <2> QED BY <1>1, <2>1, <2>2, InPlaceTyped
<1>6. \/ \E mode \in AskedModes : ClaimAhead(r, mode)
      \/ \E mode \in AskedModes, targets \in GroundSets : ClaimGround(r, mode, targets)
      \/ DropClaims(r)
      \/ \E extension \in Extensions : RefreshLeases(r, extension)
      => FleetTyped'
  <2>1. fleet \subseteq Robots
    BY <1>1 DEF FleetTyped
  <2> QED BY <1>1, <2>1, UnchangedTyped
          DEF ClaimAhead, ClaimGround, DropClaims, RefreshLeases
<1> QED BY <1>3, <1>4, <1>5, <1>6 DEF GroundStep

LEMMA NextSchedInv ==
    ASSUME SchedInv, [SchedNext]_schedVars
    PROVE  SchedInv'
<1>1. TypeOK' /\ BoundedEnds(Holds') /\ FleetTyped /\ fleet \subseteq Robots
  BY LedgerStepTyped DEF SchedInv, FleetTyped
<1>2. ASSUME NEW r \in Robots, Enrol(r)
      PROVE  FleetTyped'
  BY <1>1, <1>2, UnchangedTyped DEF Enrol
<1>3. ASSUME NEW r \in Robots, Unenrol(r)
      PROVE  FleetTyped'
  <2>1. /\ Becomes(r, Default) /\ place' = [place EXCEPT ![r] = 0]
        /\ fleet' = fleet \ {r}
    BY <1>3 DEF Unenrol
  <2> QED BY <1>1, <2>1, DefaultTyped, OneRobotTyped
<1>4. CASE (ExpireClaims \/ Tick) /\ UNCHANGED <<fleet, state, place>>
  <2>1. FleetTyped'
    BY <1>1, <1>4, UnchangedTyped
  <2> QED BY <1>1, <2>1 DEF SchedInv, BoundedEnds, Holds
<1>5. CASE UNCHANGED schedVars
  <2>1. FleetTyped'
    BY <1>1, <1>5, UnchangedTyped DEF schedVars
  <2> QED BY <1>1, <2>1 DEF SchedInv, BoundedEnds, Holds
<1>6. Steered \subseteq Robots
  BY ScheduleAssumption
<1>7. SchedNext => FleetTyped'
  <2>1. (ExpireClaims \/ Tick) /\ UNCHANGED <<fleet, state, place>> => FleetTyped'
    BY <1>4 DEF SchedInv
  <2> QED BY <1>2, <1>3, <1>6, <2>1, GroundStepTyped, PlanStepTyped, ReportStepTyped
          DEF SchedNext
<1> QED BY <1>1, <1>5, <1>7 DEF SchedInv, BoundedEnds, Holds

LEMMA SchedInvariance == SchedSpec => []SchedInv
<1>1. SchedInit => SchedInv
  <2> SUFFICES ASSUME SchedInit PROVE SchedInv
    OBVIOUS
  <2>1. TypeOK /\ Holds = {}
    BY InitTypeOK DEF SchedInit, Init, Holds
  <2>2. BoundedEnds({})
    BY DEF BoundedEnds
  <2>3. FleetTyped
    BY DefaultTyped DEF SchedInit, FleetTyped, Fits
  <2> QED BY <2>1, <2>2, <2>3 DEF SchedInv
<1>2. SchedInv /\ [SchedNext]_schedVars => SchedInv'
  BY NextSchedInv
<1> QED BY <1>1, <1>2, PTL DEF SchedSpec

(* RobotStates keep the types of the Rust structure, in which ticks and     *)
(* waits are unsigned, and a step index lies on the plan it is an index     *)
(* into, whatever the order of plans, reports, claims and schedules        *)
(* (assign_route_plan, update_robot_progress, apply_schedule_decision).    *)
THEOREM SchedTypeCorrect == SchedSpec => []SchedTypeOK
BY SchedInvariance, SchedInvTypes, PTL

-----------------------------------------------------------------------------
(* What is left of a plan counts down from its length, so that whatever     *)
(* the fleet's states, any two of its robots are contenders.               *)
LEMMA RobotsContend ==
    ASSUME SchedInv, NEW r \in Robots, NEW blocked \in BOOLEAN
    PROVE  Contends(r, blocked) \in Contender
<1> DEFINE s == state[r]
<1>1. s \in RobotState /\ StepOnPlan(s)
  BY DEF SchedInv, FleetTyped, Fits
<1>2. PICK far : far = (IF s.plan = NoPlan THEN 0
                        ELSE Len(s.plan.nodes) - ProgressIndex(s))
  OBVIOUS
<1>3. far \in Nat
  <2>1. CASE s.plan = NoPlan
    BY <1>2, <2>1
  <2>2. CASE s.plan # NoPlan
    <3>1. s.plan \in Plans /\ ProgressIndex(s) \in 1..Len(s.plan.nodes)
      BY <1>1, <2>2, ProgressOnPlan
    <3>2. Len(s.plan.nodes) \in Nat
      BY <3>1, PlanShape
    <3> QED BY <1>2, <2>2, <3>1, <3>2
  <2> QED BY <2>1, <2>2
<1>4. PICK held \in BOOLEAN : held = (s.leaseIds # {})
  OBVIOUS
<1>5. PICK told \in Progress : told = (IF blocked THEN "blocked" ELSE s.progress)
  BY <1>1 DEF RobotState, Progress
<1>6. Contends(r, blocked) =
          [emergency |-> FALSE, priority |-> 0, holdsLease |-> held,
           state |-> told, wait |-> s.wait, remaining |-> far]
  BY <1>2, <1>4, <1>5, Zenon DEF Contends
<1>7. s.wait \in Nat
  BY <1>1 DEF RobotState
<1> QED BY <1>3, <1>6, <1>7 DEF Contender

(* Any two robots of the fleet get answers that fit, however their states   *)
(* came about (arbitrate_right_of_way, asked once for each).               *)
THEOREM RightOfWayAgreesHolds == SchedSpec => []RightOfWayAgrees
<1>1. SchedInv => RightOfWayAgrees
  <2> SUFFICES ASSUME SchedInv, NEW a \in fleet, NEW b \in fleet,
                      NEW g \in BOOLEAN, NEW h \in BOOLEAN
               PROVE  RightOfWay(Contends(a, g), Contends(b, h))
                        = Counterpart(RightOfWay(Contends(b, h), Contends(a, g)))
    BY Zenon DEF RightOfWayAgrees
  <2>1. a \in Robots /\ b \in Robots
    BY DEF SchedInv, FleetTyped
  <2>2. Contends(a, g) \in Contender /\ Contends(b, h) \in Contender
    BY <2>1, RobotsContend
  <2> QED BY <2>2, RightOfWayMatches
<1> QED BY <1>1, SchedInvariance, PTL

-----------------------------------------------------------------------------
(* The ledger and the schedule look at the same ground.                    *)

(* A claim of a whole plan is a request of the ledger, and its window spans *)
(* that of every step (claim_request_from_route).                          *)
LEMMA RouteRequestCovers ==
    ASSUME SchedInv, NEW r \in Robots, state[r].plan # NoPlan
    PROVE  LET p == state[r].plan
               q == RouteRequest(r)
           IN  /\ p \in Plans
               /\ q \in Request /\ q.id = 0 /\ q.robot = r /\ q.mode = "exclusive"
               /\ q.targets = NodesFrom(p, 1) \cup EdgesFrom(p, 1)
               /\ q.targets \subseteq Spatial
               /\ \A i \in 1..Len(p.nodes) :
                   /\ StepWindow(p, i, now).start \in Nat
                   /\ StepWindow(p, i, now).end \in Nat
                   /\ q.start <= StepWindow(p, i, now).start
                   /\ StepWindow(p, i, now).end <= q.end
<1> DEFINE p == state[r].plan
           q == RouteRequest(r)
<1>1. p \in Plans /\ now \in Nat
  BY DEF SchedInv, FleetTyped, RobotState, TypeOK
<1>2. /\ Len(p.nodes) \in Nat /\ 1 <= Len(p.nodes) /\ Len(p.cost) = Len(p.nodes)
      /\ \A k \in 1..Len(p.nodes) : p.nodes[k] \in Nodes /\ p.cost[k] \in Nat
      /\ \A k \in 1..Len(p.edges) : p.edges[k] \in Edges
  BY <1>1, PlanShape, PlanParts
<1> HIDE DEF p
<1>3. NodesFrom(p, 1) \cup EdgesFrom(p, 1) \subseteq Spatial
  BY <1>2 DEF NodesFrom, EdgesFrom, Spatial
<1>4. Len(p.nodes) \in 1..Len(p.nodes) /\ p.cost[Len(p.nodes)] \in Nat
  BY <1>2
<1>5. q = [id |-> 0, slot |-> 0, robot |-> r, mode |-> "exclusive",
           start |-> now, end |-> now + Ticks(p.cost[Len(p.nodes)]),
           targets |-> NodesFrom(p, 1) \cup EdgesFrom(p, 1)]
  BY <1>2 DEF RouteRequest, p
<1> HIDE DEF q
<1>6. /\ q.id = 0 /\ q.robot = r /\ q.mode = "exclusive"
      /\ q.start = now /\ q.end = now + Ticks(p.cost[Len(p.nodes)])
      /\ q.targets = NodesFrom(p, 1) \cup EdgesFrom(p, 1)
  BY <1>5
<1>7. q \in Request
  <2>1. NodesFrom(p, 1) \cup EdgesFrom(p, 1) \in SUBSET Resources
    BY <1>3 DEF Resources
  <2>2. PICK c \in Nat : c = p.cost[Len(p.nodes)]
    BY <1>4
  <2>3. Ticks(c) \in Nat
    BY TicksInOrder
  <2>4. now + Ticks(p.cost[Len(p.nodes)]) \in Nat
    BY <1>1, <2>2, <2>3
  <2> QED BY <1>1, <1>5, <2>1, <2>4 DEF Request, Modes
<1>8. ASSUME NEW i \in 1..Len(p.nodes)
      PROVE  /\ StepWindow(p, i, now).start \in Nat
             /\ StepWindow(p, i, now).end \in Nat
             /\ q.start <= StepWindow(p, i, now).start
             /\ StepWindow(p, i, now).end <= q.end
  <2>1. PICK j : j = Least(i + 1, Len(p.nodes))
    OBVIOUS
  <2>2. j \in 1..Len(p.nodes) /\ j <= Len(p.nodes)
    BY <1>2, <2>1 DEF Least
  <2>3. p.cost[j] \in Nat /\ p.cost[i] \in Nat
    BY <1>2, <2>2
  <2>4. p.cost[j] <= p.cost[Len(p.nodes)]
    BY <1>1, <1>4, <2>2, CostInOrder
  <2>5. /\ StepWindow(p, i, now).start = now + Ticks(p.cost[i])
        /\ StepWindow(p, i, now).end = now + Ticks(p.cost[j])
    BY <2>1 DEF StepWindow
  <2>6. /\ Ticks(p.cost[i]) \in Nat /\ Ticks(p.cost[j]) \in Nat
        /\ Ticks(p.cost[Len(p.nodes)]) \in Nat
        /\ Ticks(p.cost[j]) <= Ticks(p.cost[Len(p.nodes)])
    <3>1. PICK a \in Nat, b \in Nat, c \in Nat :
             a = p.cost[i] /\ b = p.cost[j] /\ c = p.cost[Len(p.nodes)]
      BY <1>4, <2>3
    <3>2. b <= c /\ a <= a
      BY <2>4, <3>1
    <3>3. /\ Ticks(a) \in Nat /\ Ticks(b) \in Nat /\ Ticks(c) \in Nat
          /\ Ticks(b) <= Ticks(c)
      BY <3>2, TicksInOrder
    <3> QED BY <3>1, <3>3
  <2> QED BY <1>1, <1>6, <2>5, <2>6
<1> QED BY <1>1, <1>3, <1>6, <1>7, <1>8 DEF p, q

(* The ground of a step is the plan's, or a zone it is filed under.        *)
LEMMA StepGroundIsThePlans ==
    ASSUME NEW p \in Plans, NEW i \in 1..Len(p.nodes), NEW x \in StepGround(p, i)
    PROVE  \E t \in NodesFrom(p, 1) \cup EdgesFrom(p, 1) :
               t \in Spatial /\ (x = t \/ x \in World.zonesOf[t])
<1>1. /\ DOMAIN p.edges = 1..Len(p.edges) /\ Len(p.edges) \in Nat
      /\ Len(p.nodes) \in Nat
      /\ \A k \in 1..Len(p.nodes) : p.nodes[k] \in Nodes
      /\ \A k \in 1..Len(p.edges) : p.edges[k] \in Edges
  BY PlanShape, PlanParts
<1> DEFINE ground == {p.nodes[i]} \cup {p.edges[k] : k \in {i} \cap DOMAIN p.edges}
<1>2. ground \subseteq NodesFrom(p, 1) \cup EdgesFrom(p, 1)
  BY <1>1 DEF NodesFrom, EdgesFrom
<1>3. ground \subseteq Spatial
  BY <1>1 DEF Spatial
<1>4. \E t \in ground : x = t \/ x \in World.zonesOf[t]
  BY DEF StepGround, Filed
<1> QED BY <1>2, <1>3, <1>4

(* A plan that could be claimed whole, exclusively and at once is not told  *)
(* to wait or to be planned anew (schedule_route_request against           *)
(* evaluate_request).                                                      *)
LEMMA GrantedMeetsNothing ==
    ASSUME SchedInv, NEW r \in Robots, state[r].plan # NoPlan,
           \A h \in Holds : /\ h.robot # r
                            /\ h.targets \cap ZonesBelow(state[r].plan) = {},
           Granted(World, requests, leases, RouteRequest(r))
    PROVE  Conflicts(state[r].plan, now, 0) = {}
<1> DEFINE p  == state[r].plan
           q  == RouteRequest(r)
           rs == {h \in requests : h.id # 0}
<1>1. /\ p \in Plans
      /\ q \in Request /\ q.id = 0 /\ q.robot = r /\ q.mode = "exclusive"
      /\ q.targets = NodesFrom(p, 1) \cup EdgesFrom(p, 1)
      /\ q.targets \subseteq Spatial
      /\ \A i \in 1..Len(p.nodes) :
          /\ StepWindow(p, i, now).start \in Nat
          /\ StepWindow(p, i, now).end \in Nat
          /\ q.start <= StepWindow(p, i, now).start
          /\ StepWindow(p, i, now).end <= q.end
  BY RouteRequestCovers
<1>2. /\ rs \subseteq Request /\ leases \subseteq Lease
      /\ rs \cup leases \subseteq Holds /\ q.id \notin {h.id : h \in rs}
  BY <1>1 DEF SchedInv, TypeOK, Holds
<1>3. Granted(World, rs, leases, q)
  <2>1. {h \in requests : h.id # q.id} = rs /\ {h \in rs : h.id # q.id} = rs
    BY <1>1
  <2>2. Granted(World, requests, leases, q)
    OBVIOUS
  <2> HIDE DEF q, rs
  <2> QED BY <2>1, <2>2, Zenon DEF Granted
<1>4. DOMAIN p.nodes = 1..Len(p.nodes)
  BY <1>1, PlanShape
<1>5. /\ IsWorkspace(World)
      /\ World.zonesOf \in [Spatial -> SUBSET (Zones \cap World.present)]
  BY ManagerAssumption DEF IsWorkspace
<1>6. \A h \in rs \cup leases : h.robot # r /\ h.targets \cap ZonesBelow(p) = {}
  BY <1>2
<1> HIDE DEF q, rs, p
<1>7. SUFFICES ASSUME NEW i \in 1..Len(p.nodes), NEW x \in StepGround(p, i),
                      NEW h \in rs \cup leases,
                      WindowsOverlap(StepWindow(p, i, now), h),
                      NEW y \in h.targets, TargetsMeet(x, y)
               PROVE  FALSE
  BY <1>4 DEF Conflicts, Meetings, rs, p
<1>8. IsHold(q) /\ IsHold(h) /\ h.robot # q.robot
  BY <1>1, <1>2, <1>6, RequestIsHold, LeaseIsHold
<1>9. Compatible(World, q, h) /\ Compatible(World, h, q)
  BY <1>1, <1>2, <1>3, <1>5, <1>8, GrantedIsCompatible, CompatibleSymmetric
<1>10. WindowsOverlap(q, h) /\ WindowsOverlap(h, q)
  BY <1>1, <1>7, <1>8 DEF WindowsOverlap, IsHold
<1>11. ~BothShared(q, h) /\ ~BothShared(h, q)
  BY <1>1 DEF BothShared
<1>12. PICK t \in q.targets : t \in Spatial /\ (x = t \/ x \in World.zonesOf[t])
  BY <1>1, StepGroundIsThePlans
<1>13. y \notin q.targets
  BY <1>7, <1>8, <1>9, <1>10, <1>11, CompatibleExcludes
<1>14. ~(y \in Zones /\ Inside(World, t, y))
  <2> SUFFICES ASSUME y \in Zones, Inside(World, t, y) PROVE FALSE
    OBVIOUS
  <2>1. TargetsOccupyZone(World, q.targets, y)
    BY <1>12 DEF TargetsOccupyZone
  <2>2. y \in h.targets \cap Zones
    BY <1>7
  <2> QED BY <1>9, <1>10, <1>11, <2>1, <2>2, CompatibleReserves
<1>15. x \in World.zonesOf[t] /\ x \in Zones /\ x # t
  <2>1. CASE x = t
    <3>1. x \notin Zones
      BY <1>12, <2>1, KindsAssumption
    <3> QED BY <1>7, <1>12, <1>13, <2>1, <3>1 DEF TargetsMeet
  <2>2. CASE x # t
    BY <1>5, <1>12, <2>2, KindsAssumption
  <2> QED BY <2>1, <2>2
<1>16. y \in Zones /\ (y = x \/ y \in World.ancestors[x] \/ x \in World.ancestors[y])
  BY <1>7, <1>15 DEF TargetsMeet, ZonesOverlap, ZoneContains
<1>17. x \in World.ancestors[y]
  BY <1>14, <1>15, <1>16 DEF Inside, ZoneContains
<1>18. x \in Remaining(p, 1)
  BY <1>1, <1>12, <1>15 DEF Remaining, Filed
<1>19. y \in ZonesBelow(p)
  BY <1>16, <1>17, <1>18 DEF ZonesBelow
<1> QED BY <1>6, <1>7, <1>19

(* As far as they can, the two ways of deciding agree: a plan that could be *)
(* claimed at once may go (schedule_route_request, evaluate_request).      *)
THEOREM ClaimableIsNotDelayedHolds == SchedSpec => []ClaimableIsNotDelayed
<1>1. SchedInv => ClaimableIsNotDelayed
  <2> SUFFICES ASSUME SchedInv, NEW r \in fleet, state[r].plan # NoPlan,
                      \A h \in Holds :
                          /\ h.robot # r
                          /\ h.targets \cap ZonesBelow(state[r].plan) = {},
                      Granted(World, requests, leases, RouteRequest(r))
               PROVE  Decision(state[r].plan, now, 0).kind = "proceed"
    BY DEF ClaimableIsNotDelayed
  <2>1. r \in Robots
    BY DEF SchedInv, FleetTyped
  <2>2. Conflicts(state[r].plan, now, 0) = {}
    BY <2>1, GrantedMeetsNothing
  <2> QED BY <2>2 DEF Decision
<1> QED BY <1>1, SchedInvariance, PTL

-----------------------------------------------------------------------------
(* The claim just evaluated is on the ledger when it is granted.            *)
LEMMA UpsertedRecords ==
    ASSUME NEW rs, NEW q
    PROVE  \E n : [q EXCEPT !.slot = n] \in Upserted(rs, q)
BY DEF Upserted

(* A state is never dated later than now.                                  *)
DateInv ==
    /\ Shaped
    /\ now \in Nat
    /\ \A r \in Robots : state[r].updated \in Nat /\ state[r].updated <= now

LEMMA StateDated ==
    ASSUME DateInv, NEW r \in Robots, NEW s, IsState(s), Becomes(r, s), now' = now,
           s.updated \in {state[r].updated, now, 0}
    PROVE  DateInv'
<1>1. Shaped' /\ state'[r] = s /\ \A o \in Robots \ {r} : state'[o] = state[o]
  BY BecomesShaped DEF DateInv
<1> QED BY <1>1 DEF DateInv

LEMMA LaterDated ==
    ASSUME DateInv, state' = state, now' \in {now, now + 1}
    PROVE  DateInv'
BY DEF DateInv, Shaped

LEMMA PlanStepDated ==
    ASSUME DateInv, NEW r \in Robots, PlanStep(r)
    PROVE  DateInv'
<1>0. IsState(state[r])
  BY DEF DateInv, Shaped
<1>1. ASSUME NEW p \in Plans, AssignRoutePlan(r, p)
      PROVE  DateInv'
  <2>1. now' = now
    BY <1>1 DEF AssignRoutePlan, vars
  <2> QED BY <1>0, <1>1, <2>1, AssignedShape, StateDated
<1>2. ASSUME NEW skip, Schedule(r, skip)
      PROVE  DateInv'
  <2> DEFINE d == Decision(state[r].plan, now, skip)
  <2>1. Becomes(r, Scheduled(state[r], d)) /\ now' = now
    BY <1>2 DEF Schedule, vars
  <2> HIDE DEF d
  <2> QED BY <1>0, <2>1, ScheduledShape, StateDated
<1>3. ASSUME NEW grace \in Graces, HandleMissedSlot(r, grace)
      PROVE  DateInv'
  <2>1. now' = now
    BY <1>3 DEF HandleMissedSlot, vars
  <2> QED BY <1>0, <1>3, <2>1, MissedShape, StateDated
<1>4. \A p \in PlansFromHere(r) : p \in Plans
  BY DEF PlansFromHere
<1> QED BY <1>1, <1>2, <1>3, <1>4 DEF PlanStep

LEMMA ReportStepDated ==
    ASSUME DateInv, NEW r \in Robots, ReportStep(r)
    PROVE  DateInv'
<1>1. ASSUME NEW n, NEW edge, Report(r, n, edge)
      PROVE  DateInv'
  <2>1. Becomes(r, Reported(state[r], n, edge)) /\ now' = now
    BY <1>1 DEF Report, vars
  <2>2. IsState(state[r])
    BY DEF DateInv, Shaped
  <2> QED BY <2>1, <2>2, ReportedShape, StateDated
<1>2. CASE Drive(r)
  BY <1>2, LaterDated DEF Drive, vars
<1> QED BY <1>1, <1>2 DEF ReportStep, ReportOnPlan, ReportNoNode, ReportElsewhere

LEMMA GroundStepDated ==
    ASSUME DateInv, NEW r \in Robots, GroundStep(r)
    PROVE  DateInv'
<1>0. IsState(state[r])
  BY DEF DateInv, Shaped
<1>1. ASSUME NEW ids, Becomes(r, [state[r] EXCEPT !.leaseIds = ids]), now' = now
      PROVE  DateInv'
  <2> DEFINE s == [state[r] EXCEPT !.leaseIds = ids]
  <2>1. IsState(s) /\ s.updated = state[r].updated
    BY <1>0, RelistedShape
  <2>2. Becomes(r, s)
    BY <1>1
  <2> HIDE DEF s
  <2> QED BY <1>1, <2>1, <2>2, StateDated
<1>2. ASSUME NEW q, NEW id, TakeLease(r, q, id)
      PROVE  DateInv'
  BY <1>1, <1>2 DEF TakeLease, GrantLease, AddLease
<1>3. CASE ReleaseBehind(r)
  BY <1>1, <1>3 DEF ReleaseBehind
<1>4. CASE RevokeLeases(r)
  <2>1. now' = now
    BY <1>4 DEF RevokeLeases
  <2> QED BY <1>0, <1>4, <2>1, RevokedShape, StateDated
<1>5. \/ \E mode \in AskedModes : ClaimAhead(r, mode)
      \/ \E mode \in AskedModes, targets \in GroundSets : ClaimGround(r, mode, targets)
      \/ DropClaims(r)
      \/ \E extension \in Extensions : RefreshLeases(r, extension)
      => DateInv'
  BY LaterDated DEF ClaimAhead, ClaimGround, Claim, DropClaims, RefreshLeases
<1> QED BY <1>2, <1>3, <1>4, <1>5 DEF GroundStep

LEMMA DateInvariance == SchedSpec => []DateInv
<1>1. SchedInit => DateInv
  BY DefaultIsState DEF SchedInit, Init, DateInv, Shaped, Default
<1>2. DateInv /\ [SchedNext]_schedVars => DateInv'
  <2> SUFFICES ASSUME DateInv, [SchedNext]_schedVars
               PROVE  DateInv'
    OBVIOUS
  <2>1. ASSUME NEW r \in Robots, Enrol(r)
        PROVE  DateInv'
    BY <2>1, LaterDated DEF Enrol, vars
  <2>2. ASSUME NEW r \in Robots, Unenrol(r)
        PROVE  DateInv'
    BY <2>2, DefaultIsState, StateDated DEF Unenrol, RemoveRobot, Default
  <2>3. CASE (ExpireClaims \/ Tick) /\ UNCHANGED <<fleet, state, place>>
    BY <2>3, LaterDated DEF ExpireClaims, Tick
  <2>4. CASE UNCHANGED schedVars
    BY <2>4, LaterDated DEF schedVars, vars
  <2>5. \A r \in Steered : r \in Robots
    BY ScheduleAssumption
  <2> QED
    BY <2>1, <2>2, <2>3, <2>4, <2>5, PlanStepDated, ReportStepDated, GroundStepDated
       DEF SchedNext
<1> QED BY <1>1, <1>2, PTL DEF SchedSpec

(* From wherever less than the horizon behind, the claim reaches over the   *)
(* robot's next step.                                                      *)
LEMMA HorizonReaches ==
    ASSUME NEW s, s.plan \in Plans, NEW k \in Nat, ProgressIndex(s) = k,
           NEW i \in Nat, k <= i, i < k + Horizon, i < Len(s.plan.nodes)
    PROVE  LET p == s.plan
           IN  {p.nodes[i], p.edges[i], p.nodes[i + 1]} \subseteq HorizonTargets(s)
<1> DEFINE p == s.plan
<1>1. /\ Len(p.nodes) \in Nat /\ Len(p.edges) \in Nat
      /\ Len(p.edges) + 1 = Len(p.nodes) /\ Horizon \in Nat
  BY PlanShape, PlanParts, ScheduleAssumption
<1>2. /\ i \in k..Least(k + Horizon, Len(p.nodes))
      /\ i + 1 \in k..Least(k + Horizon, Len(p.nodes))
      /\ i \in k..Least(k + Horizon - 1, Len(p.edges))
  BY <1>1 DEF Least
<1> QED BY <1>2 DEF HorizonTargets

(* A robot whose rolling claim is granted holds where it really is, the     *)
(* edge it takes next and the node that leads to, from now on at the       *)
(* latest, though its last report may be old or name a node it passes      *)
(* twice, as long as the coordinator takes it to be less than the horizon  *)
(* behind (rolling_horizon_claim_request, update_robot_progress).          *)
THEOREM HorizonHoldsNextStepHolds == SchedSpec => HorizonHoldsNextStep
<1> DEFINE A ==
    requests' # requests =>
        \A r \in Robots, mode \in Modes :
            LET p == state[r].plan
                i == place[r]
            IN  /\ i # 0 /\ i < Len(p.nodes)
                /\ i < ProgressIndex(state[r]) + Horizon
                /\ ClaimAhead(r, mode)
                => \E q \in requests' :
                    /\ q.robot = r
                    /\ {p.nodes[i], p.edges[i], p.nodes[i + 1]} \subseteq q.targets
                    /\ q.start <= now
<1>1. TrackInv /\ DateInv => A
  <2> SUFFICES ASSUME TrackInv, DateInv, NEW r \in Robots, NEW mode \in Modes,
                      place[r] # 0, place[r] < Len(state[r].plan.nodes),
                      place[r] < ProgressIndex(state[r]) + Horizon,
                      requests' # requests, ClaimAhead(r, mode)
               PROVE  \E q \in requests' :
                        LET p == state[r].plan
                            i == place[r]
                        IN  /\ q.robot = r
                            /\ {p.nodes[i], p.edges[i], p.nodes[i + 1]} \subseteq q.targets
                            /\ q.start <= now
    OBVIOUS
  <2> DEFINE s  == state[r]
             p  == s.plan
             i  == place[r]
             w  == HorizonWindow(s)
             id == MintedId(requests, leases, nextId)
             q  == [id |-> id, slot |-> id, robot |-> r, mode |-> mode,
                    start |-> w.start, end |-> w.end, targets |-> HorizonTargets(s)]
  <2>1. /\ p \in Plans /\ i \in Nat
        /\ ProgressIndex(s) \in Nat /\ ProgressIndex(s) <= i
    BY PlanShape DEF TrackInv, Tracked, ProgressIndex
  <2>2. {p.nodes[i], p.edges[i], p.nodes[i + 1]} \subseteq HorizonTargets(s)
    BY <2>1, HorizonReaches
  <2>3. w.start <= now
    BY DEF HorizonWindow, DateInv
  <2>4. requests' = Upserted(requests, q)
    BY DEF ClaimAhead, Claim
  <2>5. q.robot = r /\ q.start = w.start /\ q.targets = HorizonTargets(s)
    OBVIOUS
  <2>6. DOMAIN q = {"id", "slot", "robot", "mode", "start", "end", "targets"}
    OBVIOUS
  <2> HIDE DEF q, w, id
  <2>7. PICK n : [q EXCEPT !.slot = n] \in requests'
    BY <2>4, UpsertedRecords
  <2>8. PICK e \in requests' : /\ e.robot = r /\ e.start = w.start
                               /\ e.targets = HorizonTargets(s)
    BY <2>5, <2>6, <2>7
  <2> QED BY <2>2, <2>3, <2>8
<1>2. TrackInv /\ DateInv => [A]_schedVars
  BY <1>1
<1> QED BY <1>2, TrackInvariance, DateInvariance, PTL DEF HorizonHoldsNextStep

=============================================================================
