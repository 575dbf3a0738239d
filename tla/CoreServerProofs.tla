--------------------------- MODULE CoreServerProofs ---------------------------
(***************************************************************************)
(* The wire's handlers compose the ledger's operations into promises for   *)
(* every workspace and fleet: exclusion at the present instant, no hold    *)
(* without a registered holder, no loss to a robot that keeps its          *)
(* heartbeat, and no refusal of ground a robot already has.                *)
(*                                                                         *)
(* The ledger's own invariant only speaks of windows that meet.  On the    *)
(* wire every window opened no later than now, so two claims that have not *)
(* lapsed meet now; that is the part of WireInv that needs a clock which   *)
(* never goes back.                                                        *)
(***************************************************************************)
EXTENDS CoreServer, CapacityProofs

(* The wire files requests and never a lease.                              *)
LedgerTyped ==
    /\ TypeOK
    /\ leases = {}

Opened(rs, t) == \A r \in rs : r.start <= t

WireInv ==
    /\ LedgerTyped
    /\ AllCompatible(requests)
    /\ Opened(requests, now)

-----------------------------------------------------------------------------
LEMMA WireWindowsAreTicks ==
    ASSUME now \in Nat, NEW w \in WireWindows
    PROVE  w.start \in Nat /\ w.end \in Nat /\ w.start <= now
BY ForeverAssumption, ManagerAssumption DEF WireWindows, OpenWindow

(* What a claim handler leaves of the requests: some of those there were,   *)
(* and at most the caller's own, which was granted against them.           *)
LEMMA FlatClaimShape ==
    ASSUME LedgerTyped, NEW r \in Robots, NEW mode \in Modes,
           NEW targets \in GroundSets, NEW w \in WireWindows,
           FlatClaim(r, mode, targets, w)
    PROVE  \E n \in Nat :
             LET rs == Unexpired(requests, now)
                 id == MintedId(rs, {}, nextId)
                 q  == ClaimRecord(id, r, mode, targets, w.start, w.end)
             IN  /\ q \in Request
                 /\ id \in 1..IdCeiling
                 /\ \/ requests' = rs /\ nextId' \in 1..IdCeiling
                    \/ /\ r \in registered
                       /\ id <= MaxMint
                       /\ nextId' \in 1..IdCeiling
                       /\ Granted(World, rs, {}, q)
                       /\ requests' \subseteq rs \cup {[q EXCEPT !.slot = n]}
<1> DEFINE rs == Unexpired(requests, now)
           id == MintedId(rs, {}, nextId)
           q  == ClaimRecord(id, r, mode, targets, w.start, w.end)
<1>1. Unexpired(leases, now) = {} /\ rs \subseteq Request
  BY DEF LedgerTyped, TypeOK, Unexpired
<1>2. id \in 1..IdCeiling /\ id \in Nat
  BY MintedIdBounds, ManagerAssumption DEF LedgerTyped, TypeOK
<1>3. w.start \in Nat /\ w.end \in Nat /\ targets \subseteq Resources
  BY WireWindowsAreTicks, ManagerAssumption DEF LedgerTyped, TypeOK
<1>4. q \in Request
  BY <1>2, <1>3 DEF ClaimRecord, Request
<1>5. \/ requests' = rs /\ nextId' = nextId
      \/ /\ r \in registered
         /\ id <= MaxMint
         /\ nextId' = Saturating(id + 1)
         /\ requests' = IF Granted(World, rs, {}, q)
                        THEN Upserted(rs, q) ELSE rs
  BY <1>1 DEF FlatClaim, ClaimRecord
<1>6. Saturating(id + 1) \in 1..IdCeiling /\ nextId \in 1..IdCeiling
  BY <1>2, SaturatingBounds DEF LedgerTyped, TypeOK
<1>7. PICK n \in Nat : Upserted(rs, q) \subseteq rs \cup {[q EXCEPT !.slot = n]}
  BY <1>1, <1>4, UpsertedShape
<1> HIDE DEF q, id, rs
<1>8. \/ requests' = rs /\ nextId' \in 1..IdCeiling
      \/ /\ r \in registered
         /\ id <= MaxMint
         /\ nextId' \in 1..IdCeiling
         /\ Granted(World, rs, {}, q)
         /\ requests' \subseteq rs \cup {[q EXCEPT !.slot = n]}
  BY <1>5, <1>6, <1>7
<1> QED BY <1>2, <1>4, <1>8 DEF q, id, rs

(* The handlers that only let go of holds.                                 *)
LettingGo == requests' \subseteq requests /\ leases' \subseteq leases
                 /\ nextId' = nextId

LEMMA HandlersLetGo ==
    ASSUME LedgerTyped
    PROVE  /\ \A r \in Robots : Register(r) \/ Deregister(r) \/ Heartbeat(r)
                  => LettingGo /\ now' = now /\ archive' = archive
           /\ \A r \in Robots, x \in Resources : FlatRelease(r, x)
                  => LettingGo /\ now' = now /\ archive' = archive
           /\ Sweep => LettingGo /\ now' = now /\ archive' = archive
           /\ Advance => /\ LettingGo /\ archive' = archive
                         /\ requests' = requests /\ now' = now + 1
           /\ UNCHANGED serverVars => LettingGo /\ now' = now /\ archive' = archive
<1>1. /\ leases = {}
      /\ Unexpired(leases, now) = {}
      /\ \A r \in Robots : WithoutRobot(leases, r) = {}
      /\ WithoutRobots({}, Inactive) = {}
      /\ \A reason : Archiving({}, reason) = {}
  BY DEF LedgerTyped, Unexpired, WithoutRobot, WithoutRobots, Archiving
<1>2. ASSUME NEW r \in Robots
      PROVE  Register(r) \/ Heartbeat(r) => LettingGo /\ now' = now /\ archive' = archive
  BY DEF Register, Heartbeat, LettingGo, vars, ledger
<1>3. ASSUME NEW r \in Robots
      PROVE  Deregister(r) => LettingGo /\ now' = now /\ archive' = archive
  BY <1>1 DEF Deregister, RemoveRobot, WithoutRobot, LettingGo
<1>4. ASSUME NEW r \in Robots, NEW x \in Resources
      PROVE  FlatRelease(r, x) => LettingGo /\ now' = now /\ archive' = archive
  BY DEF FlatRelease, Release, LettingGo
<1>5. Sweep => LettingGo /\ now' = now /\ archive' = archive
  BY <1>1 DEF Sweep, Unexpired, WithoutRobots, LettingGo
<1>6. Advance => /\ LettingGo /\ archive' = archive
                 /\ requests' = requests /\ now' = now + 1
  BY DEF Advance, Tick, ledger, LettingGo
<1>7. UNCHANGED serverVars => LettingGo /\ now' = now /\ archive' = archive
  BY DEF serverVars, vars, ledger, LettingGo
<1> QED BY <1>2, <1>3, <1>4, <1>5, <1>6, <1>7

LEMMA LettingGoKeepsTypes ==
    ASSUME LedgerTyped, LettingGo, archive' = archive, now' \in Nat
    PROVE  LedgerTyped'
BY DEF LedgerTyped, LettingGo, TypeOK, LiveIds

(* A claim handler keeps the ledger typed and free of leases.              *)
LEMMA FlatClaimKeepsTypes ==
    ASSUME LedgerTyped, NEW r \in Robots, NEW mode \in Modes,
           NEW targets \in GroundSets, NEW w \in WireWindows,
           FlatClaim(r, mode, targets, w)
    PROVE  LedgerTyped'
<1> DEFINE rs == Unexpired(requests, now)
           id == MintedId(rs, {}, nextId)
           q  == ClaimRecord(id, r, mode, targets, w.start, w.end)
<1>1. PICK n \in Nat :
         /\ q \in Request
         /\ id \in 1..IdCeiling
         /\ nextId' \in 1..IdCeiling
         /\ requests' \subseteq rs \cup {[q EXCEPT !.slot = n]}
  BY FlatClaimShape
<1>2. leases' = {} /\ archive' = archive /\ now' = now
  BY DEF FlatClaim, LedgerTyped, Unexpired, Archiving
<1>3. q.id = id
  BY DEF ClaimRecord
<1> DEFINE moved == [q EXCEPT !.slot = n]
<1>4. moved \in Request /\ moved.id = id
  BY <1>1, <1>3, SlotIsNoGround
<1>5. rs \subseteq requests
  BY DEF Unexpired
<1> HIDE DEF q, id, rs
<1>6. requests' \subseteq requests \cup {moved}
  BY <1>1, <1>5
<1> HIDE DEF moved
<1>7. \A i \in LiveIds(requests', leases') : 1 <= i /\ i <= IdCeiling
  BY <1>1, <1>2, <1>4, <1>6, ManagerAssumption DEF LiveIds, LedgerTyped, TypeOK
<1>8. requests' \subseteq Request
  BY <1>4, <1>6 DEF LedgerTyped, TypeOK
<1> QED BY <1>1, <1>2, <1>7, <1>8 DEF LedgerTyped, TypeOK

LEMMA NextLedgerTyped ==
    ASSUME LedgerTyped, [ServerNext]_serverVars
    PROVE  LedgerTyped'
<1>1. now \in Nat /\ now + 1 \in Nat
  BY DEF LedgerTyped, TypeOK
<1>2. CASE RobotCall
  BY <1>1, <1>2, HandlersLetGo, LettingGoKeepsTypes, FlatClaimKeepsTypes DEF RobotCall
<1>3. CASE Sweep \/ Advance \/ UNCHANGED serverVars
  BY <1>1, <1>3, HandlersLetGo, LettingGoKeepsTypes
<1> QED BY <1>2, <1>3 DEF ServerNext

-----------------------------------------------------------------------------
(* A claim on the wire is evaluated against all others, and opens by now.  *)
LEMMA FlatClaimKeepsWireInv ==
    ASSUME WireInv, MaxMint < IdCeiling,
           NEW r \in Robots, NEW mode \in Modes,
           NEW targets \in GroundSets, NEW w \in WireWindows,
           FlatClaim(r, mode, targets, w)
    PROVE  AllCompatible(requests') /\ Opened(requests', now')
<1> DEFINE rs == Unexpired(requests, now)
           id == MintedId(rs, {}, nextId)
           q  == ClaimRecord(id, r, mode, targets, w.start, w.end)
<1>1. PICK n \in Nat :
         /\ q \in Request
         /\ \/ requests' = rs
            \/ /\ id <= MaxMint
               /\ Granted(World, rs, {}, q)
               /\ requests' \subseteq rs \cup {[q EXCEPT !.slot = n]}
  BY FlatClaimShape DEF WireInv
<1>2. now' = now /\ now \in Nat
  BY DEF FlatClaim, WireInv, LedgerTyped, TypeOK
<1>3. rs \subseteq requests /\ rs \subseteq Request
  BY DEF Unexpired, WireInv, LedgerTyped, TypeOK
<1>4. AllCompatible(rs) /\ Opened(rs, now)
  BY <1>3 DEF WireInv, AllCompatible, Opened
<1>5. q.id = id /\ q.start = w.start /\ w.start <= now
  BY <1>2, WireWindowsAreTicks DEF ClaimRecord
<1>6. id <= MaxMint => q.id \notin {x.id : x \in rs}
  BY <1>5, FreshId DEF WireInv, LedgerTyped, TypeOK
<1> HIDE DEF q, id, rs
<1>7. CASE requests' = rs
  BY <1>2, <1>4, <1>7
<1>8. CASE /\ id <= MaxMint
           /\ Granted(World, rs, {}, q)
           /\ requests' \subseteq rs \cup {[q EXCEPT !.slot = n]}
  <2>1. rs \cup {} = rs /\ requests' \cup {} = requests'
    OBVIOUS
  <2>2. AllCompatible(requests' \cup {})
    BY <1>1, <1>3, <1>4, <1>6, <1>8, <2>1, RecordingKeepsCompatible
  <2>3. [q EXCEPT !.slot = n].start = q.start
    BY <1>1, SlotIsNoGround
  <2>4. \A x \in requests' : x \in rs \/ x.start = q.start
    BY <1>8, <2>3
  <2> QED BY <1>2, <1>4, <1>5, <2>1, <2>2, <2>4 DEF Opened
<1> QED BY <1>1, <1>7, <1>8

LEMMA NextWireInv ==
    ASSUME WireInv, [ServerNext]_serverVars, MaxMint < IdCeiling
    PROVE  WireInv'
<1>1. LedgerTyped /\ LedgerTyped' /\ now \in Nat
  BY NextLedgerTyped DEF WireInv, LedgerTyped, TypeOK
<1>2. ASSUME requests' \subseteq requests, now' = now \/ now' = now + 1
      PROVE  AllCompatible(requests') /\ Opened(requests', now')
  <2>1. \A r \in requests : r.start \in Nat
    BY <1>1 DEF LedgerTyped, TypeOK, Request
  <2> QED BY <1>1, <1>2, <2>1 DEF WireInv, AllCompatible, Opened
<1>3. AllCompatible(requests') /\ Opened(requests', now')
  <2>1. CASE RobotCall
    BY <1>1, <1>2, <2>1, HandlersLetGo, FlatClaimKeepsWireInv DEF RobotCall, LettingGo
  <2>2. CASE Sweep \/ Advance \/ UNCHANGED serverVars
    BY <1>1, <1>2, <2>2, HandlersLetGo DEF LettingGo
  <2> QED BY <2>1, <2>2 DEF ServerNext
<1>4. (AllCompatible(requests') => AllCompatible(requests)')
      /\ (Opened(requests', now') => Opened(requests, now)')
  BY DEF AllCompatible, Opened
<1> QED BY <1>1, <1>3, <1>4 DEF WireInv

LEMMA WireInvExcludes == WireInv => ExclusiveNow
<1> SUFFICES ASSUME WireInv, NEW a \in InForce, NEW b \in InForce,
                    a.robot # b.robot, a.targets \cap b.targets # {}
             PROVE  BothShared(a, b)
  BY DEF ExclusiveNow
<1>1. /\ a \in requests /\ b \in requests
      /\ now < a.end /\ now < b.end
  BY DEF InForce, Unexpired, Holds, WireInv, LedgerTyped
<1>2. IsHold(a) /\ IsHold(b) /\ now \in Nat
  BY <1>1, RequestIsHold DEF WireInv, LedgerTyped, TypeOK
<1>3. a.start <= now /\ b.start <= now
  BY <1>1 DEF WireInv, Opened
<1>4. WindowsOverlap(a, b)
  BY <1>1, <1>2, <1>3 DEF WindowsOverlap, IsHold
<1>5. Compatible(World, a, b)
  BY <1>1 DEF WireInv, AllCompatible
<1> QED BY <1>2, <1>4, <1>5, CompatibleExcludes

(* Of two robots whose claims on a resource have not lapsed, neither has it *)
(* exclusively, whatever windows they asked for and however the transports *)
(* interleave their calls, while the clock does not go back and the id     *)
(* counter is not used up (flat_claim_targets).                            *)
THEOREM ExclusiveNowHolds ==
    ASSUME MaxMint < IdCeiling
    PROVE  ServerSpec => []ExclusiveNow
<1>1. ServerInit => WireInv
  BY InitTypeOK DEF ServerInit, Init, WireInv, LedgerTyped, AllCompatible, Opened
<1>2. WireInv /\ [ServerNext]_serverVars => WireInv'
  BY NextWireInv
<1> QED BY <1>1, <1>2, WireInvExcludes, PTL DEF ServerSpec

-----------------------------------------------------------------------------
(* Registration and holds.                                                 *)
LEMMA FlatClaimKeepsHolders ==
    ASSUME LedgerTyped, HoldersAreRegistered,
           NEW r \in Robots, NEW mode \in Modes,
           NEW targets \in GroundSets, NEW w \in WireWindows,
           FlatClaim(r, mode, targets, w)
    PROVE  \A h \in requests' : h.robot \in registered
<1> DEFINE rs == Unexpired(requests, now)
           id == MintedId(rs, {}, nextId)
           q  == ClaimRecord(id, r, mode, targets, w.start, w.end)
<1>1. PICK n \in Nat :
         /\ q \in Request
         /\ \/ requests' = rs
            \/ /\ r \in registered
               /\ requests' \subseteq rs \cup {[q EXCEPT !.slot = n]}
  BY FlatClaimShape
<1>2. \A h \in rs : h.robot \in registered
  BY DEF HoldersAreRegistered, Holds, Unexpired
<1>3. [q EXCEPT !.slot = n].robot = r
  BY <1>1, SlotIsNoGround DEF ClaimRecord
<1> HIDE DEF q, rs
<1> QED BY <1>1, <1>2, <1>3

LEMMA NextHolders ==
    ASSUME LedgerTyped, HoldersAreRegistered, [ServerNext]_serverVars
    PROVE  HoldersAreRegistered'
<1>1. leases' = {}
  BY NextLedgerTyped DEF LedgerTyped
<1>2. \A h \in requests : h.robot \in registered
  BY DEF HoldersAreRegistered, Holds
<1>3. \A h \in requests' : h.robot \in registered'
  <2>1. ASSUME NEW r \in Robots, Register(r)
        PROVE  \A h \in requests' : h.robot \in registered'
    BY <1>2, <2>1 DEF Register, vars, ledger
  <2>2. ASSUME NEW r \in Robots, Deregister(r)
        PROVE  \A h \in requests' : h.robot \in registered'
    BY <1>2, <2>2 DEF Deregister, RemoveRobot, WithoutRobot
  <2>3. ASSUME NEW r \in Robots, Heartbeat(r)
        PROVE  \A h \in requests' : h.robot \in registered'
    BY <1>2, <2>3 DEF Heartbeat, vars, ledger
  <2>4. ASSUME NEW r \in Robots, NEW mode \in Modes, NEW targets \in GroundSets,
               NEW w \in WireWindows, FlatClaim(r, mode, targets, w)
        PROVE  \A h \in requests' : h.robot \in registered'
    <3>1. registered' = registered
      BY <2>4 DEF FlatClaim
    <3> QED BY <2>4, <3>1, FlatClaimKeepsHolders
  <2>5. ASSUME NEW r \in Robots, NEW x \in Resources, FlatRelease(r, x)
        PROVE  \A h \in requests' : h.robot \in registered'
    BY <1>2, <2>5 DEF FlatRelease, Release
  <2>6. ASSUME Sweep \/ Advance \/ UNCHANGED serverVars
        PROVE  \A h \in requests' : h.robot \in registered'
    BY <1>2, <2>6
       DEF Sweep, Unexpired, WithoutRobots, Advance, Tick, serverVars, vars, ledger
  <2> QED BY <2>1, <2>2, <2>3, <2>4, <2>5, <2>6 DEF ServerNext, RobotCall
<1> QED BY <1>1, <1>3 DEF HoldersAreRegistered, Holds

(* Nothing is ever held in the name of a robot that is not registered:      *)
(* deregistering gives everything back in the same step, and no claim of a *)
(* robot that is not registered is recorded (unregister_robot,             *)
(* flat_claim_targets).                                                    *)
THEOREM HoldersAreRegisteredHolds == ServerSpec => []HoldersAreRegistered
<1>1. ServerInit => LedgerTyped /\ HoldersAreRegistered
  BY InitTypeOK DEF ServerInit, Init, LedgerTyped, HoldersAreRegistered, Holds
<1>2. LedgerTyped /\ HoldersAreRegistered /\ [ServerNext]_serverVars
          => (LedgerTyped /\ HoldersAreRegistered)'
  BY NextLedgerTyped, NextHolders
<1> QED BY <1>1, <1>2, PTL DEF ServerSpec

-----------------------------------------------------------------------------
(* Registrations and stamps.                                               *)
LEMMA NextServerTypeOK ==
    ASSUME LedgerTyped, ServerTypeOK, [ServerNext]_serverVars
    PROVE  ServerTypeOK'
<1>1. TypeOK' /\ now \in Nat
  BY NextLedgerTyped DEF LedgerTyped, TypeOK
<1>2. \/ UNCHANGED <<registered, lastSeen>>
      \/ \E r \in Robots, t \in {0, now} :
            /\ registered' \subseteq registered \cup {r}
            /\ lastSeen' = [lastSeen EXCEPT ![r] = t]
  <2>1. ASSUME NEW r \in Robots, Register(r) \/ Deregister(r) \/ Heartbeat(r)
        PROVE  \E t \in {0, now} : /\ registered' \subseteq registered \cup {r}
                                   /\ lastSeen' = [lastSeen EXCEPT ![r] = t]
    BY <2>1 DEF Register, Deregister, Heartbeat
  <2>2. ASSUME NEW r \in Robots, NEW mode, NEW targets, NEW w, FlatClaim(r, mode, targets, w)
        PROVE  UNCHANGED <<registered, lastSeen>>
    BY <2>2 DEF FlatClaim
  <2>3. ASSUME NEW r \in Robots, NEW x, FlatRelease(r, x)
        PROVE  UNCHANGED <<registered, lastSeen>>
    BY <2>3 DEF FlatRelease
  <2>4. Sweep \/ Advance \/ UNCHANGED serverVars => UNCHANGED <<registered, lastSeen>>
    BY DEF Sweep, Advance, serverVars
  <2> QED BY <2>1, <2>2, <2>3, <2>4 DEF ServerNext, RobotCall
<1> QED BY <1>1, <1>2 DEF ServerTypeOK

(* The server's state has its types: what is stamped or registered is a     *)
(* robot, and the ledger behind the handlers is well formed.               *)
THEOREM ServerTypeCorrect == ServerSpec => []ServerTypeOK
<1>1. ServerInit => LedgerTyped /\ ServerTypeOK
  BY InitTypeOK DEF ServerInit, Init, LedgerTyped, ServerTypeOK
<1>2. LedgerTyped /\ ServerTypeOK /\ [ServerNext]_serverVars
          => (LedgerTyped /\ ServerTypeOK)'
  BY NextLedgerTyped, NextServerTypeOK
<1> QED BY <1>1, <1>2, PTL DEF ServerSpec

-----------------------------------------------------------------------------
(* Who can lose a claim before its window ends.                            *)
Reclaimed(h) ==
    \E q \in requests' : q.robot = h.robot /\ q.targets = h.targets

LEMMA FlatClaimKeepsGround ==
    ASSUME LedgerTyped, NEW r \in Robots, NEW mode \in Modes,
           NEW targets \in GroundSets, NEW w \in WireWindows,
           FlatClaim(r, mode, targets, w),
           NEW h \in requests, h \notin requests', now < h.end
    PROVE  Reclaimed(h)
<1> DEFINE rs == Unexpired(requests, now)
           id == MintedId(rs, {}, nextId)
           q  == ClaimRecord(id, r, mode, targets, w.start, w.end)
           old == Firsts(SameClaim(rs, q))
           one == CHOOSE x \in old : TRUE
<1>1. h \in rs /\ Unexpired(leases, now) = {}
  BY DEF Unexpired, LedgerTyped
<1>2. requests' = Upserted(rs, q)
  BY <1>1 DEF FlatClaim, ClaimRecord
<1>3. PICK n \in Nat : q \in Request
  BY FlatClaimShape
<1> HIDE DEF q, rs
<1>4. old # {} /\ h = one /\ requests' = (rs \ {one}) \cup {[q EXCEPT !.slot = one.slot]}
  BY <1>1, <1>2 DEF Upserted
<1>5. h.robot = q.robot /\ h.targets = q.targets
  BY <1>4 DEF Firsts, SameClaim
<1>6. /\ [q EXCEPT !.slot = one.slot].robot = q.robot
      /\ [q EXCEPT !.slot = one.slot].targets = q.targets
  BY <1>3 DEF Request
<1> QED BY <1>4, <1>5, <1>6 DEF Reclaimed

LEMMA SweepSparesTheLiving ==
    ASSUME LedgerTyped, ServerTypeOK, HoldersAreRegistered, Sweep,
           NEW h \in requests, h \notin requests', now < h.end
    PROVE  ~ now - lastSeen[h.robot] <= 2 * Alive
<1>1. h.robot \in registered /\ Silence(h.robot) > 2 * Alive
  BY DEF Sweep, Unexpired, WithoutRobots, Inactive
<1>2. h.robot \in Robots /\ lastSeen[h.robot] \in Nat /\ now \in Nat
  BY <1>1 DEF ServerTypeOK, TypeOK
<1>3. 2 * Alive \in Nat
  BY ServerAssumption
<1> QED BY <1>1, <1>2, <1>3 DEF Silence

LEMMA NextKeepsTheLiving ==
    ASSUME LedgerTyped, ServerTypeOK, HoldersAreRegistered, ServerNext,
           NEW h \in requests, h \notin requests', now < h.end,
           now - lastSeen[h.robot] <= 2 * Alive
    PROVE  \/ Deregister(h.robot)
           \/ \E resource \in h.targets : FlatRelease(h.robot, resource)
           \/ Reclaimed(h)
<1>1. ASSUME NEW r \in Robots, Register(r) \/ Heartbeat(r) PROVE FALSE
  BY <1>1 DEF Register, Heartbeat, vars, ledger
<1>2. ASSUME NEW r \in Robots, Deregister(r) PROVE h.robot = r
  BY <1>2 DEF Deregister, RemoveRobot, WithoutRobot
<1>3. ASSUME NEW r \in Robots, NEW mode \in Modes, NEW targets \in GroundSets,
             NEW w \in WireWindows, FlatClaim(r, mode, targets, w)
      PROVE  Reclaimed(h)
  BY <1>3, FlatClaimKeepsGround
<1>4. ASSUME NEW r \in Robots, NEW x \in Resources, FlatRelease(r, x)
      PROVE  h.robot = r /\ x \in h.targets
  BY <1>4 DEF FlatRelease, Release, Firsts, HeldOn
<1>5. ~ Sweep
  BY SweepSparesTheLiving
<1>6. ~ Advance
  BY DEF Advance, Tick, ledger
<1> QED BY <1>1, <1>2, <1>3, <1>4, <1>5, <1>6 DEF ServerNext, RobotCall

(* A robot that keeps to the heartbeat it promised loses nothing before its *)
(* window ends but by its own call: neither to the sweeper, nor to another  *)
(* robot's claim, release or departure (sweep_inactive, expire_claims).    *)
THEOREM KeptWhileAliveHolds == ServerSpec => KeptWhileAlive
<1>1. ServerInit => LedgerTyped /\ ServerTypeOK /\ HoldersAreRegistered
  BY InitTypeOK
     DEF ServerInit, Init, LedgerTyped, ServerTypeOK, HoldersAreRegistered, Holds
<1>2. LedgerTyped /\ ServerTypeOK /\ HoldersAreRegistered /\ [ServerNext]_serverVars
          => (LedgerTyped /\ ServerTypeOK /\ HoldersAreRegistered)'
  BY NextLedgerTyped, NextServerTypeOK, NextHolders
<1>3. LedgerTyped /\ ServerTypeOK /\ HoldersAreRegistered /\ [ServerNext]_serverVars
          => [ \A h \in requests \ requests' :
                  now < h.end /\ now - lastSeen[h.robot] <= 2 * Alive =>
                      \/ Deregister(h.robot)
                      \/ \E resource \in h.targets : FlatRelease(h.robot, resource)
                      \/ \E q \in requests' :
                             q.robot = h.robot /\ q.targets = h.targets ]_serverVars
  BY NextKeepsTheLiving DEF Reclaimed
<1> QED BY <1>1, <1>2, <1>3, PTL DEF ServerSpec, KeptWhileAlive

-----------------------------------------------------------------------------
(* Claiming again.  Claims that have not lapsed all cover now, so whatever  *)
(* one of them is compatible with at any window, it is at its own; and a    *)
(* robot that is counted again where it is already leaves the count as it   *)
(* was.  The one way to be refused is to be counted where one is not: the   *)
(* occupancy check counts a claim of a zone in every zone below it, where   *)
(* the claim itself was never tested (targets_occupy_zone, occupied_zones). *)
NoneClaimedAbove ==
    \A targets \in GroundSets : \A x \in targets \cap Zones, z \in Zones :
        Limited(World, z) => x \notin World.ancestors[z]

(* What is recorded is ground a caller asked for, and was granted.         *)
Placed(rs) ==
    \A r \in rs : /\ r.targets \in GroundSets
                  /\ r.targets # {} /\ r.targets \subseteq World.present

ReclaimInv == WireInv /\ Placed(requests) /\ Room(requests)

LEMMA FlatClaimKeepsReclaimInv ==
    ASSUME ReclaimInv, MaxMint < IdCeiling,
           NEW r \in Robots, NEW mode \in Modes,
           NEW targets \in GroundSets, NEW w \in WireWindows,
           FlatClaim(r, mode, targets, w)
    PROVE  Placed(requests') /\ Room(requests')
<1> DEFINE rs == Unexpired(requests, now)
           id == MintedId(rs, {}, nextId)
           q  == ClaimRecord(id, r, mode, targets, w.start, w.end)
<1>1. PICK n \in Nat :
         /\ q \in Request
         /\ \/ requests' = rs
            \/ /\ id <= MaxMint
               /\ Granted(World, rs, {}, q)
               /\ requests' \subseteq rs \cup {[q EXCEPT !.slot = n]}
  BY FlatClaimShape DEF ReclaimInv, WireInv
<1>2. rs \subseteq requests /\ rs \subseteq Request
  BY DEF Unexpired, ReclaimInv, WireInv, LedgerTyped, TypeOK
<1>3. Placed(rs) /\ Room(rs)
  BY <1>2, FewerKeepRoom DEF ReclaimInv, Placed
<1>4. q.id = id /\ q.targets = targets
  BY DEF ClaimRecord
<1>5. id <= MaxMint => q.id \notin {x.id : x \in rs}
  BY <1>4, FreshId DEF ReclaimInv, WireInv, LedgerTyped, TypeOK
<1> DEFINE c == [q EXCEPT !.slot = n]
<1>6. /\ c.robot = q.robot /\ c.mode = q.mode /\ c.targets = q.targets
      /\ c.start = q.start /\ c.end = q.end
  BY <1>1, SlotIsNoGround
<1>7. requests' = rs \/ requests' \subseteq rs \cup {c}
  BY <1>1
<1> HIDE DEF c, q, id, rs
<1>8. CASE requests' = rs
  BY <1>3, <1>8
<1>9. CASE /\ id <= MaxMint
           /\ Granted(World, rs, {}, q)
           /\ requests' \subseteq rs \cup {c}
  <2>1. {} \subseteq Lease /\ rs \cup {} = rs
    OBVIOUS
  <2>2. Room(requests')
    BY <1>1, <1>2, <1>3, <1>5, <1>6, <1>9, <2>1, GrantKeepsRoom
  <2>3. q.targets # {} /\ q.targets \subseteq World.present
    BY <1>9 DEF Granted
  <2> QED BY <1>3, <1>4, <1>6, <1>9, <2>2, <2>3 DEF Placed
<1> QED BY <1>1, <1>7, <1>8, <1>9

LEMMA NextReclaimInv ==
    ASSUME ReclaimInv, [ServerNext]_serverVars, MaxMint < IdCeiling
    PROVE  ReclaimInv'
<1>1. WireInv' /\ LedgerTyped
  BY NextWireInv DEF ReclaimInv, WireInv
<1>2. ASSUME requests' \subseteq requests
      PROVE  Placed(requests') /\ Room(requests')
  BY <1>2, FewerKeepRoom DEF ReclaimInv, Placed
<1> SUFFICES Placed(requests') /\ Room(requests')
  BY <1>1 DEF ReclaimInv, Placed, Room, EdgeRoom, ZoneRoom,
              OnEdge, InZone, Covers, Enters
<1>3. CASE RobotCall
  BY <1>1, <1>2, <1>3, HandlersLetGo, FlatClaimKeepsReclaimInv DEF RobotCall, LettingGo
<1>4. CASE Sweep \/ Advance \/ UNCHANGED serverVars
  BY <1>1, <1>2, <1>4, HandlersLetGo DEF LettingGo
<1> QED BY <1>3, <1>4 DEF ServerNext

(* Holds that meet are compatible or not whatever their windows.           *)
LEMMA WindowsDoNotMatterOnceMet ==
    ASSUME NEW ws, NEW a, NEW b, NEW c, Compatible(ws, a, b), WindowsOverlap(a, b),
           IsHold(a), IsHold(b),
           c.mode = a.mode, c.targets = a.targets
    PROVE  Compatible(ws, c, b)
<1>1. WindowsOverlap(b, a)
  BY DEF WindowsOverlap
<1>2. /\ BothShared(c, b) <=> BothShared(a, b)
      /\ BothShared(b, c) <=> BothShared(b, a)
  BY DEF BothShared
<1>3. ZoneClaimsCompatible(ws, c, b)
  BY <1>2 DEF Compatible, ZoneClaimsCompatible
<1>4. ASSUME NEW kind, SpatialClaimsCompatible(ws, a, b, kind)
      PROVE  SpatialClaimsCompatible(ws, c, b, kind)
  BY <1>2, <1>4 DEF SpatialClaimsCompatible
<1>5. ZoneVsSpatialCompatible(ws, c, b)
  BY <1>2 DEF Compatible, CrossLevelCompatible, ZoneVsSpatialCompatible
<1>6. ZoneVsSpatialCompatible(ws, b, c)
  BY <1>1, <1>2 DEF Compatible, CrossLevelCompatible, ZoneVsSpatialCompatible
<1> QED BY <1>3, <1>4, <1>5, <1>6 DEF Compatible, CrossLevelCompatible

(* The zones a request is tested against are those it would put its robot in, *)
(* and where nobody claims above a limit, those are also all it counts in. *)
LEMMA CountedIsEntered ==
    ASSUME NoneClaimedAbove, NEW targets \in GroundSets, NEW z \in Zones
    PROVE  /\ z \in OccupiedZones(World, targets) => Enters(targets, z)
           /\ Limited(World, z) /\ TargetsOccupyZone(World, targets, z)
                  => Enters(targets, z)
<1>1. IsWorkspace(World)
  BY ManagerAssumption
<1>2. ASSUME z \in OccupiedZones(World, targets)
      PROVE  Enters(targets, z)
  <2>1. CASE z \in targets \cap Zones
    BY <2>1 DEF Enters, ZoneContains
  <2>2. ASSUME NEW t \in targets \cap Spatial, z \in World.zonesOf[t]
        PROVE  Enters(targets, z)
    BY <2>2 DEF Enters, Inside, ZoneContains
  <2>3. ASSUME NEW x \in targets \cap Zones, z \in World.ancestors[x]
        PROVE  Enters(targets, z)
    BY <2>3 DEF Enters, ZoneContains
  <2>4. ASSUME NEW t \in targets \cap Spatial, NEW x \in World.zonesOf[t],
               z \in World.ancestors[x]
        PROVE  Enters(targets, z)
    BY <2>4 DEF Enters, Inside, ZoneContains
  <2> QED BY <1>2, <2>1, <2>2, <2>3, <2>4 DEF OccupiedZones
<1>3. ASSUME Limited(World, z), TargetsOccupyZone(World, targets, z)
      PROVE  Enters(targets, z)
  BY <1>3 DEF TargetsOccupyZone, NoneClaimedAbove, ZonesOverlap, ZoneContains, Enters
<1> QED BY <1>2, <1>3

LEMMA ReclaimInvGrants ==
    ASSUME ReclaimInv, NoneClaimedAbove
    PROVE  ReclaimIsGranted
<1> DEFINE rs == Unexpired(requests, now)
<1> SUFFICES ASSUME NEW r \in rs, NEW w \in WireWindows
             PROVE  Granted(World, rs, Unexpired(leases, now),
                            [r EXCEPT !.id = 0, !.start = w.start, !.end = w.end])
  BY DEF ReclaimIsGranted
<1> DEFINE q == [r EXCEPT !.id = 0, !.start = w.start, !.end = w.end]
<1>1. /\ Unexpired(leases, now) = {}
      /\ rs \subseteq requests /\ rs \subseteq Request /\ now \in Nat
      /\ \A x \in rs : x.id # 0
  BY DEF Unexpired, ReclaimInv, WireInv, LedgerTyped, TypeOK, LiveIds
<1>2. \A x \in rs : IsHold(x) /\ Covers(x, now)
  BY <1>1, RequestIsHold DEF Unexpired, ReclaimInv, WireInv, Opened, Covers, IsHold, Request
<1>3. /\ q.id = 0 /\ q.robot = r.robot /\ q.mode = r.mode /\ q.targets = r.targets
  BY <1>1 DEF Request
<1>4. /\ Room(rs) /\ AllCompatible(rs) /\ IsFiniteSet(rs)
      /\ \A x \in rs : x.targets \in GroundSets /\ x.targets # {}
                          /\ x.targets \subseteq World.present
  BY <1>1, FewerKeepRoom DEF ReclaimInv, WireInv, AllCompatible, Placed, Room
<1>5. {x \in rs : x.id # q.id} = rs
  BY <1>1, <1>3
<1> HIDE DEF rs, q
<1>6. ASSUME NEW x \in rs, x.robot # q.robot
      PROVE  Compatible(World, q, x)
  <2>1. Compatible(World, r, x)
    BY <1>3, <1>4, <1>6 DEF AllCompatible
  <2>2. WindowsOverlap(r, x)
    BY <1>1, <1>2, CoveredInstantsOverlap
  <2> QED BY <1>2, <1>3, <2>1, <2>2, WindowsDoNotMatterOnceMet
<1>7. ASSUME NEW e \in q.targets \cap Edges, World.edgeCapacity[e] > 1,
             NEW others, others \subseteq rs, \A x \in others : e \in x.targets
      PROVE  Cardinality({h.robot : h \in others} \cup {q.robot})
                 <= World.edgeCapacity[e]
  <2>1. {h.robot : h \in others} \cup {q.robot} \subseteq OnEdge(rs, e, now)
    BY <1>2, <1>3, <1>7 DEF OnEdge
  <2>2. IsFiniteSet(OnEdge(rs, e, now))
    BY <1>4, RobotsAreFinite DEF OnEdge
  <2>3. /\ World.edgeCapacity[e] \in Nat
        /\ Cardinality(OnEdge(rs, e, now)) <= World.edgeCapacity[e]
    BY <1>1, <1>4, <1>7, LimitsAreCounts DEF Room, EdgeRoom
  <2> QED BY <2>1, <2>2, <2>3, FewerAreNoMore
<1>8. ASSUME NEW z \in OccupiedZones(World, q.targets), z \in Zones, Limited(World, z),
             NEW others, others \subseteq rs,
             \A x \in others : TargetsOccupyZone(World, x.targets, z)
      PROVE  Cardinality({h.robot : h \in others} \cup {q.robot})
                 <= OccupancyLimit(World, z)
  <2>1. Enters(r.targets, z) /\ \A x \in others : Enters(x.targets, z)
    BY <1>3, <1>4, <1>8, CountedIsEntered
  <2>2. {h.robot : h \in others} \cup {q.robot} \subseteq InZone(rs, z, now)
    BY <1>2, <1>3, <1>8, <2>1 DEF InZone
  <2>3. IsFiniteSet(InZone(rs, z, now))
    BY <1>4, RobotsAreFinite DEF InZone
  <2>4. /\ OccupancyLimit(World, z) \in Nat
        /\ Cardinality(InZone(rs, z, now)) <= OccupancyLimit(World, z)
    BY <1>1, <1>4, <1>8, LimitsAreCounts DEF Room, ZoneRoom
  <2> QED BY <2>2, <2>3, <2>4, FewerAreNoMore
<1>9. OccupiedZones(World, q.targets) \subseteq Zones
  <2>1. IsWorkspace(World)
    BY ManagerAssumption
  <2>2. /\ \A z \in Zones : World.ancestors[z] \subseteq Zones
        /\ \A t \in Spatial : World.zonesOf[t] \subseteq Zones
    BY <2>1 DEF IsWorkspace
  <2> QED BY <2>2 DEF OccupiedZones
<1>10. EdgeCapacityRespected(World, q, rs)
  <2> DEFINE sharing(e) == {h \in Competing(q, rs) : h.mode = "shared" /\ e \in h.targets}
  <2>1. \A e : sharing(e) \subseteq rs /\ \A x \in sharing(e) : e \in x.targets
    BY DEF Competing
  <2>2. \A e \in q.targets \cap Edges : World.edgeCapacity[e] > 1 =>
            Cardinality({h.robot : h \in sharing(e)} \cup {q.robot})
                <= World.edgeCapacity[e]
    <3> HIDE DEF sharing
    <3> QED BY <1>7, <2>1
  <2> QED BY <2>2 DEF EdgeCapacityRespected
<1>11. OccupancyRespected(World, q, rs)
  <2> DEFINE inside(z) == {h \in Competing(q, rs) : TargetsOccupyZone(World, h.targets, z)}
  <2>1. \A z : inside(z) \subseteq rs
               /\ \A x \in inside(z) : TargetsOccupyZone(World, x.targets, z)
    BY DEF Competing
  <2>2. \A z \in OccupiedZones(World, q.targets) : Limited(World, z) =>
            Cardinality({h.robot : h \in inside(z)} \cup {q.robot})
                <= OccupancyLimit(World, z)
    <3> HIDE DEF inside
    <3> QED BY <1>8, <1>9, <2>1
  <2> QED BY <2>2 DEF OccupancyRespected
<1>12. rs \cup {} = rs
  OBVIOUS
<1>13. q.targets # {} /\ q.targets \subseteq World.present
  BY <1>3, <1>4
<1>14. Granted(World, rs, {}, q)
  BY <1>5, <1>6, <1>10, <1>11, <1>12, <1>13 DEF Granted
<1> QED BY <1>1, <1>14 DEF q

LEMMA ReclaimInvariance ==
    ASSUME MaxMint < IdCeiling
    PROVE  ServerSpec => []ReclaimInv
<1>1. ServerInit => ReclaimInv
  <2> SUFFICES ASSUME ServerInit PROVE ReclaimInv
    OBVIOUS
  <2>1. WireInv /\ Placed(requests) /\ requests = {}
    BY InitTypeOK DEF ServerInit, Init, WireInv, LedgerTyped, AllCompatible, Opened, Placed
  <2> QED BY <2>1, NothingHasRoom DEF ReclaimInv
<1>2. ReclaimInv /\ [ServerNext]_serverVars => ReclaimInv'
  BY NextReclaimInv
<1> QED BY <1>1, <1>2, PTL DEF ServerSpec

(* A robot that claims again what it holds is granted it, for any lease     *)
(* time, in every workspace and fleet, whatever the others were granted     *)
(* meanwhile: if nobody claims a zone above one with a limit.  Where        *)
(* somebody does, the robot may be counted out of its own ground            *)
(* (a_robot_can_always_reclaim_what_it_holds, first_occupancy_violation).  *)
THEOREM ReclaimIsGrantedHolds ==
    ASSUME MaxMint < IdCeiling, NoneClaimedAbove
    PROVE  ServerSpec => []ReclaimIsGranted
<1>1. ReclaimInv => ReclaimIsGranted
  BY ReclaimInvGrants
<1> QED BY <1>1, ReclaimInvariance, PTL

(* Behind the wire the ledger's limits hold with no assumption on callers:  *)
(* no handler files a lease or extends one (flat_claim_targets).           *)
THEOREM WireCapacityHolds ==
    ASSUME MaxMint < IdCeiling
    PROVE  ServerSpec => [](EdgeCapacity /\ ZoneCapacity)
<1>1. ReclaimInv => EdgeCapacity /\ ZoneCapacity
  <2> SUFFICES ASSUME ReclaimInv PROVE EdgeCapacity /\ ZoneCapacity
    OBVIOUS
  <2>1. TypeOK /\ Holds = requests
    BY DEF ReclaimInv, WireInv, LedgerTyped, Holds
  <2> QED BY <2>1, RoomRespectsLimits DEF ReclaimInv
<1> QED BY <1>1, ReclaimInvariance, PTL

=============================================================================
