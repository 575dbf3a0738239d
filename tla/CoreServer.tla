------------------------------ MODULE CoreServer ------------------------------
(***************************************************************************)
(* The flat wire of src/src/wire/mod.rs over the Coordinator's liveness    *)
(* table (src/src/coordinator.rs) and the claim ledger (ClaimManager).     *)
(*                                                                         *)
(* Every handler takes the coordinator's write lock first and holds it to  *)
(* its end, and so does the sweeper task: a handler is one step, and the   *)
(* transports (REST, XML, peerbus) interleave whole handlers.  The clock   *)
(* they read is the wall clock, which advances between steps.              *)
(*                                                                         *)
(* A caller presents a robot id and a key.  Whether the key is the robot's *)
(* is decided elsewhere (key_ok); here a call by a registered robot stands *)
(* for one with its key, and a call by an unregistered one for any call    *)
(* the key check refuses.                                                  *)
(***************************************************************************)
EXTENDS ClaimManager

CONSTANTS
    Alive,          \* ticks in the heartbeat interval a robot promises
    BackSteps       \* how far the wall clock may be set back

ASSUME ServerAssumption ==
    /\ Alive \in Nat \ {0}
    /\ BackSteps \subseteq Nat \ {0}

VARIABLES
    registered,     \* robots with a bound key: the keys of robot_keys
    lastSeen        \* robot_alive[r].last_seen_ms

serverVars == <<vars, registered, lastSeen>>

-----------------------------------------------------------------------------
(* Elapsed time saturates at zero when the clock is behind the last sign.  *)
Silence(r) == IF lastSeen[r] < now THEN now - lastSeen[r] ELSE 0

(* inactive_robots_at with one interval of grace instead of two.            *)
InactiveAfterOne == { r \in registered : Silence(r) > Alive }

(* inactive_robots_at: more than twice the promised interval in silence.   *)
Inactive == { r \in registered : Silence(r) > 2 * Alive }

(* sweep_inactive on a set of holds.                                       *)
WithoutRobots(holds, rs) == { h \in holds : h.robot \notin rs }

(* lease_time 0 asks for an open window, any other for one that starts now. *)
WireWindows == {OpenWindow} \cup
               { [start |-> now, end |-> now + length] : length \in Lengths }

-----------------------------------------------------------------------------
ServerInit ==
    /\ Init
    /\ registered = {}
    /\ lastSeen = [r \in Robots |-> 0]

(* flat_register: set_alive stamps the robot as just seen.  An id already   *)
(* bound is refused.                                                       *)
Register(r) ==
    /\ r \notin registered
    /\ registered' = registered \cup {r}
    /\ lastSeen' = [lastSeen EXCEPT ![r] = now]
    /\ UNCHANGED vars

(* flat_deregister that frees the id and leaves the holds.                  *)
DeregisterKeepingHolds(r) ==
    /\ r \in registered
    /\ registered' = registered \ {r}
    /\ lastSeen' = [lastSeen EXCEPT ![r] = 0]
    /\ UNCHANGED vars

(* flat_deregister: unregister_robot releases everything the robot holds.  *)
Deregister(r) ==
    /\ r \in registered
    /\ registered' = registered \ {r}
    /\ lastSeen' = [lastSeen EXCEPT ![r] = 0]
    /\ RemoveRobot(r)

(* flat_heartbeat, of which the ledger and the sweep see touch_robot.      *)
Heartbeat(r) ==
    /\ r \in registered
    /\ lastSeen' = [lastSeen EXCEPT ![r] = now]
    /\ UNCHANGED <<vars, registered>>

(* flat_claim_targets: lapsed claims go first, whoever calls; a registered  *)
(* caller's request is then minted an id, evaluated and recorded.  A claim *)
(* is no sign of life: lastSeen stays.                                     *)
FlatClaim(r, mode, targets, window) ==
    LET rs == Unexpired(requests, now)
        ls == Unexpired(leases, now)
        id == MintedId(rs, ls, nextId)
        q  == [id |-> id, slot |-> id, robot |-> r, mode |-> mode,
               start |-> window.start, end |-> window.end, targets |-> targets]
    IN  /\ IF r \notin registered
           THEN /\ requests' = rs
                /\ nextId' = nextId
           ELSE /\ id <= MaxMint
                /\ nextId' = Saturating(id + 1)
                /\ requests' = IF Granted(World, rs, ls, q)
                               THEN Upserted(rs, q)
                               ELSE rs
        /\ leases' = ls
        /\ archive' = archive \cup Archiving(leases \ ls, "expired")
        /\ UNCHANGED <<now, registered, lastSeen>>

(* flat_release.                                                           *)
FlatRelease(r, resource) ==
    /\ r \in registered
    /\ Release(r, resource)
    /\ UNCHANGED <<registered, lastSeen>>

(* The sweeper that expires and looks no further.                           *)
SweepExpiredOnly ==
    /\ ExpireClaims
    /\ UNCHANGED <<registered, lastSeen>>

(* The sweeper that looks at silent robots and lets lapsed claims be.       *)
SweepSilentOnly ==
    /\ requests' = WithoutRobots(requests, Inactive)
    /\ leases' = WithoutRobots(leases, Inactive)
    /\ archive' = archive \cup Archiving(leases \ leases', "released")
    /\ UNCHANGED <<nextId, now, registered, lastSeen>>

(* sweep_inactive: expire_claims, then every inactive robot loses all it    *)
(* holds and stays registered.                                             *)
Sweep ==
    LET ls == Unexpired(leases, now)
    IN  /\ requests' = WithoutRobots(Unexpired(requests, now), Inactive)
        /\ leases' = WithoutRobots(ls, Inactive)
        /\ archive' = archive \cup Archiving(leases \ ls, "expired")
                              \cup Archiving(ls \ leases', "released")
        /\ UNCHANGED <<nextId, now, registered, lastSeen>>

Advance ==
    /\ Tick
    /\ UNCHANGED <<registered, lastSeen>>

(* SystemTime is not monotonic: the host's clock can be set back.          *)
SetBack(d) ==
    /\ d <= now
    /\ now' = now - d
    /\ UNCHANGED <<ledger, registered, lastSeen>>

RobotCall ==
    \E r \in Robots :
        \/ Register(r)
        \/ Deregister(r)
        \/ Heartbeat(r)
        \/ \E mode \in Modes, targets \in GroundSets, window \in WireWindows :
              FlatClaim(r, mode, targets, window)
        \/ \E resource \in Resources : FlatRelease(r, resource)

ServerNext ==
    \/ RobotCall
    \/ Sweep
    \/ Advance

ServerSpec == ServerInit /\ [][ServerNext]_serverVars

(* The sweeper is a task of its own that a runtime timer wakes for ever, and *)
(* time passes.  Nothing is assumed of the robots: they may all fall silent. *)
FairServerSpec ==
    ServerSpec /\ WF_serverVars(Sweep) /\ WF_serverVars(Advance)

(* The same server on a host whose clock is corrected.                     *)
SkewedSpec ==
    ServerInit /\ [][ServerNext \/ \E d \in BackSteps : SetBack(d)]_serverVars

-----------------------------------------------------------------------------
(* Properties.                                                             *)

ServerTypeOK ==
    /\ TypeOK
    /\ registered \subseteq Robots
    /\ lastSeen \in [Robots -> Nat]

(* What the ledger still holds for a caller of this instant.               *)
InForce == Unexpired(Holds, now)

(* A claim on the wire is for now: of two robots whose claims on a resource *)
(* have not lapsed, whatever their windows say, neither has it exclusively  *)
(* (check_exclusive_safety of tests/claim_properties.rs).                  *)
ExclusiveNow ==
    \A a, b \in InForce :
        a.robot # b.robot /\ a.targets \cap b.targets # {} => BothShared(a, b)

(* A robot that claims again what it holds is granted it, for any lease     *)
(* time, whatever the other robots were granted meanwhile: the timer by     *)
(* which it keeps its ground cannot lose it (flat_claim_targets and        *)
(* a_robot_can_always_reclaim_what_it_holds).                              *)
ReclaimIsGranted ==
    \A r \in Unexpired(requests, now) : \A window \in WireWindows :
        Granted(World, Unexpired(requests, now), Unexpired(leases, now),
                [r EXCEPT !.id = 0, !.start = window.start, !.end = window.end])

(* Nothing is held in the name of a robot that is not registered: its id    *)
(* could be bound by another, and no sweep would ever look at it           *)
(* (unregister_robot, inactive_robots_at).                                 *)
HoldersAreRegistered == \A h \in Holds : h.robot \in registered

(* A robot that keeps to the heartbeat it promised loses nothing before its *)
(* window ends, except by its own call: releasing it, claiming it again or *)
(* leaving the fleet (sweep_inactive, expire_claims).                      *)
KeptWhileAlive ==
    [][ \A h \in requests \ requests' :
            now < h.end /\ now - lastSeen[h.robot] <= 2 * Alive =>
                \/ Deregister(h.robot)
                \/ \E resource \in h.targets : FlatRelease(h.robot, resource)
                \/ \E q \in requests' :
                       q.robot = h.robot /\ q.targets = h.targets ]_serverVars

(* A robot that has gone silent gets its ground taken back, or is heard     *)
(* again: ground is never lost with a robot that stopped (sweep_inactive). *)
SilentRobotsAreFreed ==
    \A r \in Robots :
        (r \in Inactive) ~> (r \notin Inactive \/ \A h \in Holds : h.robot # r)

(* A claim made with a lease time leaves the ledger, however silent its     *)
(* robot and whoever else claims (expire_claims).                          *)
TimedClaimsEnd ==
    \A id \in 1..MaxMint :
        (\E r \in requests : r.id = id /\ r.end <= MaxTick)
            ~> (\A r \in requests : r.id # id)

=============================================================================
