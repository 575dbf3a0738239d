# syncbot in TLA+

syncbot is the coordination core of a robot fleet: robots register, send
heartbeats, and claim zones, nodes and edges of a shared workspace; the core
decides who may be where, for how long, and takes ground back from robots that
fall silent.  This directory holds a model of that core, the TLC configurations
that check it on small instances, and machine-checked proofs of its main
promises.  Source paths below are relative to `src/`.

## The system and its components

| Component | State | Operations | Talks to |
|---|---|---|---|
| Workspace index (`src/index.rs`), traffic policies (`src/policy.rs`) | lookup tables, immutable between rebinds | build, containment, policy lookup | read by every decision |
| Claim rules (`src/claim/manager.rs`, evaluation) | none | `evaluate_request` | reads ledger and index |
| Claim ledger and leases (`src/claim/manager.rs`, `src/claim/mod.rs`) | `active_requests`, `active_leases`, `released_leases`, `next_id` | add, upsert, release, expire, refresh, revoke, clear, snapshot | owned by the Coordinator, or directly by a library, FFI or Python caller |
| Coordinator liveness and identity (`src/coordinator.rs`) | `robot_states`, `robot_keys`, `robot_alive`, tokens, challenges, failures, UUID bindings | register, unregister, heartbeat, sweep, validate key, prove identity | behind one `RwLock` |
| Scheduling, rolling horizon, arbitration (`src/coordinator.rs`, `src/robot.rs`) | route plan, progress, schedule of each robot | schedule, progress, release behind, refresh, revoke, right of way | ledger, route planner |
| Route planning (`src/route.rs`) | none | policy-aware Dijkstra | index |
| Flat wire (`src/wire/mod.rs`) | the coordinator behind its lock, an event ring | register, deregister, heartbeat, claim, release, challenge, prove, set workspace, sweep | called by every transport |
| Peerbus core service (`src/wire/peerbus.rs`), REST and XML adapters | workspace transfers in progress | request loop, chunk reassembly | flat wire |
| Persistence (`src/persist.rs`, `src/bin/syncbot.rs`) | the snapshot file | periodic flush, final flush, restore | coordinator (read lock) |
| VDA 5050 (`src/vda/`), FFI (`src/ffi.rs`), Python (`src/python/`) | none of the core's | translation | library |

Behaviours that are hard, and what makes each component correct:

* **Rules and ledger.** Decisions are made one claim at a time, over nested
  zones, several kinds of resource, two access modes, closed time windows and
  two kinds of hold; they must add up to: no double booking at any instant, a
  zone held is held whole, no zone or edge over its capacity, whoever claimed
  first.  Renewals come with a fresh id each time; they must replace the right
  entry, and never be refused.
* **Wire, liveness, sweeper.** Handlers of many robots and the sweeper task
  interleave at the granularity of the write lock, over a wall clock.  Live
  robots must keep their ground, silent ones must lose it, nothing may be held
  by an id that is free to be bound again.
* **Index and policies.** The claim rules rest on a forest of zones and on
  unambiguous ids, which only validation guarantees; a site's `traffic.*` rules
  pass through a validator and a parser that read every key separately, in an
  order that matters.
* **Route planning.** A search over one graph, a plan rebuilt from its nodes
  and a diagnosis by two further searches must tell the same story.
* **Workspace replacement.** Two copies of the index change while claims
  survive, under a map by which they may no longer be compatible.
* **Persistence.** The file is written after the lock is let go, by a task that
  may be overtaken by a shutdown or cut short by a crash; a restart must bring
  back one state, and never mint an id again.
* **Identity.** Challenges, tokens and tentative UUID bindings live across
  several calls; throttling must not lock out a robot whose key is known.
* **Workspace push.** Chunks of several transfers interleave, calls are lost or
  answered too late, and requests of a previous process are replayed.
* **Scheduling.** Stale lease lists, progress on plans that visit a node twice,
  arbitration that should not depend on who is asked first.

`PROJECT.json` lists these as hazards, each at its line, with the properties
that would catch it.

## Modules

    Workspace        the map as a value; containment, occupancy, policy lookups
    ClaimRules       evaluate_request as pure operators, over Workspace
    ClaimManager     the ledger: one action per operation, over ClaimRules
    LockTable        what the ledger promises; ClaimManager implements it
    CoreServer       the wire handlers, liveness and the sweeper, over ClaimManager
    Arbitration      the right of way between two robots, as a pure operator
    Scheduling       plans, progress, rolling claims and leases, over ClaimManager
    TrafficPolicy    the traffic.* keys: parsers, validators, derived semantics
    WorkspaceIndex   from a document to an index: rebuild, validation, lookups,
                     and the Workspace value the claim rules use
    RouteSearch      boot and one planning request over an index, step by step
    WorkspacePush    clients, bus, assembler, set_workspace and the ledger beside it
    ServedWorkspace  what a push promises; WorkspacePush implements it
    Identity         registration, UUIDs, keys, challenges, tokens
    Durability       Identity with flusher, state file, crash, shutdown, restart
    CheckpointedStore  what persistence promises; Durability implements it
    MCClaimManager, MCCoreServer, MCScheduling, MCPlanning, MCPush, MCIdentity
                     small sites, fleets, documents and clients for TLC
    ClaimManagerProofs, CapacityProofs, CoreServerProofs, SchedulingProofs,
    WorkspaceIndexProofs, RouteSearchProofs, WorkspacePushProofs, DurabilityProofs
                     theorems

**Workspace.** An index is a record of lookup tables: which resources exist,
each zone's parent and ancestors, the zones a node or edge is filed under, each
zone's policy and each edge's explicit capacity.  `IsWorkspace` says which
records a build can produce; it is an assumption on the constant `World`.  An
id is a UUID, so its kind is the set it belongs to.

**ClaimRules.** A hold is a record with robot, mode, closed window and target
set.  `Compatible` is `claims_compatible_for_index`; `Granted` is
`evaluate_request = Grant`, with its skip of a robot's own holds and of an entry
with the request's own id.  The reasons, blocking targets and diagnostics of a
denial do not influence any state and are left out; so is the fallback for a
manager without an index, which no server uses (the wire refuses claims while
no workspace is loaded).

**ClaimManager.** `requests`, `leases`, `archive` and `nextId` are
`active_requests`, `active_leases`, `released_leases` and `next_id`; `now` is
the tick callers pass in.  A `Vec` that only grows at its end and is replaced in
place becomes a set whose elements remember their position (`slot`), because
"the first match" is the only thing order decides.  `Claim` is the sequence the
callers of the library run: mint an id, evaluate, record on grant.  The
environment of the other operations (`GrantLease`, `RefreshLease`) is a caller
that files leases only for claims it was granted, within their window and under
any claim id.  `Reevaluate` says whether callers ask `evaluate_request` before
they extend a lease: the code does not.

**LockTable.** What a robot may rely on, without ids, requests, leases or rules: a
table of rights, each one robot's use of one resource over a window.  A call
changes one robot's rights to something that fits beside all others'; a right ends
when its time is over or with the table.  `Rights` maps the ledger to it, one
right per target of a request or lease; `Reserved`, `Limit` and `Counted` are the
map's: what an exclusive hold takes with it, and who counts where.

**CoreServer.** One action per handler of `src/wire/mod.rs`: each takes the
coordinator's write lock first and holds it to the end, so a handler is atomic
and the transports interleave whole handlers; the sweeper takes the same lock.
`registered` stands for the keys of `robot_keys`, `lastSeen` for
`robot_alive[..].last_seen_ms`, `Alive` for the promised interval.  `FlatClaim`
includes the expiry that every claim call performs before the key check, also
when the caller is then refused.  `SetBack` is a host clock corrected backwards,
in the specification `SkewedSpec` only.

**Arbitration.** `RightOfWay(self, other)` is `arbitrate_right_of_way`: each
criterion is an operator asked in both directions, in the order of the code.

**Scheduling.** `state` is `robot_states`, reduced to the fields that decide
something, and `fleet` its keys.  `place` has no counterpart in the code: it is
the step of its plan a robot is really at, which the coordinator knows only from
reports.  Without it nothing could be said about a report that is old, missing
or ambiguous.  The actions are the calls of the coordinator's owner
(`assign_route_plan`, `update_robot_progress`, `schedule_robot_route`,
`release_behind_progress`, `refresh_robot_leases`, `revoke_robot_leases`,
`handle_missed_schedule_slot`, the rolling claim) and the robot's own moves
(`Drive`).  Reports are truthful, but any number of steps may pass without one.
Four disciplines are assumed of the owner, each at the operator that states it:

* it plans from where the robot is and was last seen (`PlansFromHere`);
* it does not file a lease under an id another robot still lists (`TakeLease`);
* it registers a robot once (`Enrol`); `register_robot` of a robot that is there
  would replace its state and forget its leases;
* it asks ground directly, without a plan, only for robots that do not drive by
  plans (`ClaimGround`, robots outside `Steered`).

**TrafficPolicy.** A property map is a record from keys, without the `traffic.`
prefix, to raw strings.  A raw string is one of a few spellings, chosen so that
each parser accepts some, refuses some and meets one disguised by capitals or
blanks.  Keys are folded in the byte order a `BTreeMap` is iterated in
(`KeyOrder`), each overwriting what an earlier one set; `SettleZone` is the last
word of `parse_zone_policy`.  `Option` is a set with at most one element; real
numbers are counted in fortieths.

**WorkspaceIndex.** A document is what the loader hands over: sequences of
zones, nodes and edges, whose ids may repeat.  `Rebuild` is
`WorkspaceIndex::rebuild` with its tree walk in the order of the code's stack,
`ValidationErrors` and `ValidationWarnings` are `validation_issues` by category
and subject, `Pushable` and `Bootable` are what the two ways in ask of them.
`AsWorkspace` turns an index into the `Workspace` value that `ClaimRules`
decides over; that it satisfies `IsWorkspace`, the assumption of the ledger's
theorems, is checked by the run `planning` and proved of every document.
`IsDocument` is what is taken for granted of one.  Folds are written as recursive
functions and lists are filtered by `Keep`, since the prover cannot look into the
library's operators for either.

**RouteSearch.** A behavior boots one document and plans one route in it.  The
search is the loop of `dijkstra_inner`, one iteration a step (`Expand`); entries
of equal distance surface in any order, as the heap leaves it open.  Walls
(`HardBlocked`), directions (`AllowsTraversal`) and prices (`Penalty`) are the
functions of `src/route.rs`.  `Found` builds the plan as `build_route_plan` does:
from the nodes, looking every edge up again by its two ends; which of several
parallel edges the graph answers with is a choice (`EdgesAlong`).  A failure is
followed by the two searches of the diagnosis.  What a search is held against
knows no frontier: a goal is `Reachable` if it lies in every set of nodes that
holds the start and that no step leaves, and `WalkCosts` are the costs of all
ways of as many steps as there are nodes at most, longer ones passing a node
twice.

**WorkspacePush.** `client` is `Client::set_workspace`: cut, call once per chunk,
wait, go on or give up.  The topic is a queue; the core takes calls one by one
and settles the entry of the call's transfer (`Entry` ... `Assembled` are the
steps of `WorkspaceAssembler::accept`).  `SetWorkspace` swaps both copies of the
index, `served` in the coordinator and `managed` in the claim manager, and
leaves every claim in place; `Grant` resolves a place in the one and judges it
by the other, as a claim handler does.  The core crashes and attaches again to
topics that still hold the last call written, and discards before it serves.
The documents of the run are real ones: `MCPush` builds their indexes with
`WorkspaceIndex` and takes from them which are refused, which zones exist and
which overlap.

**Identity.** The tables of the coordinator by their names, reduced to what
decides something: `registry` is `robot_states` and `robot_keys`, `uuids` is
`robot_id_by_uuid`, `next` is `next_synthetic_robot_id`, `pending`, `verified`,
`failures`, `challenges`, `tokens` the maps so named.  The handlers are whole:
`Register` resolves or mints, is refused or binds, and consumes the pending
binding; `Remember` is what `validate_key` leaves in its cache and its count of
failures; `Prove` consumes the challenge whatever comes of it.

**Durability.** `TakeSnapshot` (under the read lock), then `Rename` or
`WriteFails`, with requests served in between; `Signal`, `FinalFlush`, `Exit`
are the graceful shutdown, during which requests in flight are still answered;
`Crash` is a kill or an abort of the process at any other point; `Boot` restores
what loads.  The machine stays up: the code renames without syncing, so after a
power cut the file may be older than the last save or empty, which no action
here models.
Flusher and final flush are spawned tasks of a runtime with one worker thread
(`bin/syncbot.rs:129`; axum spawns the future that waits for the signal), and
the file is written without awaiting, so neither can interrupt the other:
`Signal` waits for `held = {}`.  Handlers run on other threads as well.

## Runs

| Run | Question | Site and bounds |
|---|---|---|
| `requests` | do single decisions add up: exclusivity, whole zones, capacities, one entry per ground, releases | hall for two around a bay for one, dock in the bay, lane in the hall, aisle for two outside; 3 robots, 5 target sets (one of two targets), open, present and future windows, 3 ids, ticks 0..1 |
| `leases` | the same with leases: replaced, refreshed, ended in each way, filed under foreign ids | 2 robots, 2 target sets, one lease id, one foreign claim id equal to the last mintable one |
| `server` | whole handlers, sweeper and clock, and what must eventually happen | hall for two beside a bay for one; 2 robots that claim the hall, 3 ids, lease time 2, ticks 0..4, interval 1 |
| `schedule` | what plans, late reports and stale lease lists do to the ledger | gate, mid and dock in a row, a plan that loops over mid and one that hops to the dock, a yard where nobody may wait; one robot that drives, one that holds ground; one lease id, 2 claim ids, ticks 0..1; half a cost unit per edge, two ticks per unit |
| `planning` | is what is served a workspace, do its rules hold, is a plan the cheapest legal one, does a failure name its cause | one map of 3 nodes and 3 edges: turned, doubled, looped and cut off by direction, 4 profiles per edge, 5 rules on the bay; every map of up to 3 of 15 traffic keys; 7 trees, 6 node lists, 4 edge lists and 3 anchors with their faults; questions by id, alias and unknown name |
| `push` | what loss, giving up, wrong keys, interleaving and restart do to a push, and a push to claims | 2 clients with 2 and 1 pushes, 4 documents of one or two chunks (one refused, one over the ceiling) and a boot document, 2 keys, 2 robots, 2 places, one restart |
| `identity` | what interleaved registrations, proofs, guesses, flushes and restarts do to ids, keys and tokens | 4 robots in 6 small fleets, 2 registered at most, 2 minted ids, 2 failures to a cool-down of 1, ticks 0..2, two stops |
| `nested_reclaim`, `lease_extend`, `saturated`, `clock_back`, `strayed` | the five disagreements below | the smallest site that shows each |

Three robots are what it takes to fill a place for two and refuse a third, and
to have two holders and a bystander; two suffice where every property speaks of
pairs.  Three ids give each robot one hold, or one robot a first claim, a
renewal and a rival's claim.  The edge cases of windows need two ticks (a window
that ends where another begins), of liveness three (silent for more than twice
the interval of one), and one more for a window of two to outlive a sweep.
`Forever` (99) and `IdCeiling` (9) stand for `u64::MAX`; both lie beyond every
tick and id the bounds let happen, and `MaxMint` keeps the counter below
saturation, except in `saturated`, where a lease is filed under the ceiling.
Robots are interchangeable, so they are a symmetry set where no liveness
property is checked (that is, not in `server`) and all of them behave alike.  In `schedule` two lists can
go stale and one plan passes a node twice within two ticks; its `VIEW` leaves
out the archive, which is written and never read.  The clock stops at `MaxTick` and ids at `MaxMint`, so the
systems may stop: `CHECK_DEADLOCK FALSE`.  In `push` and `identity` the core can
always answer, stop or start, so deadlock is checked there.

In `planning`, a detour, a wall and a lock need three edges; three traffic keys
are what it takes for one to overwrite another under a third.  A run of several
searches in one state is not needed: planning keeps nothing.  In `push`, two
transfers of one process and one of another meet in the assembler, and one
restart puts a fragment of the old core before the new one.  In `identity` each
fleet brings a pair of hazards together (the same id with a secret and a
did:key; a UUID with a secret and one with a did:key; guesses with time; a
restart with minted ids); together they are a union of behaviors, since no fleet
changes into another.

What the passing runs check:

* `ExclusiveSafety`, `ZoneReservation`, `ZoneCapacity`, `EdgeCapacity` speak of
  every *instant* some window opens at, not of the windows that happened to be
  compared when a claim was decided.
* `OneEntryPerGround`, `OneRobotPerStep`, `ReleaseLetsGo` speak of the ledger's
  bookkeeping: no growth by renewal, no call that touches another robot's ground,
  and one release is enough, though it removes one entry only and the robot may
  have renewed its claim any number of times.
* `KeepsTheLocks` joins them: requests and leases together behave as one table of
  locks (`LockTable`), where calls, leases filed under foreign ids and extensions
  change one robot's rights and leave everything fitting.
* `ExclusiveNow` (wire): stronger than `ExclusiveSafety`, since it compares
  whatever has not lapsed, whatever its window says about its start.
* `ReclaimIsGranted` (wire): the renewal timer of a robot cannot lose its
  ground.  It holds on a site whose zones are not nested; `nested_reclaim`
  shows that it does not hold on one whose zones are.
* `HoldersAreRegistered`, `KeptWhileAlive`: deregistration and the sweeper.
* `LeasesAreListed` (scheduling): lists of leases are edited in five operations
  while the leases end in three others; no lease may be lost from sight.
* `NothingAheadReleased`, `HorizonHoldsNextStep`: what is released is behind the
  robot's true place, and a rolling claim, made from a report that may be old or
  name a node the plan passes twice, reaches the step the robot is really at, as
  long as the coordinator takes it to be less than the horizon behind; it never
  sets in later than now.  When it ends is left out: its window counts a unit of
  cost as one tick, whatever `ticks_per_cost_unit` the schedule uses.
* `RightOfWayAgrees`, `ClaimableIsNotDelayed`: two answers to one question fit:
  the arbiter asked from either side, the scheduler and the evaluation.
* `ServedIsAWorkspace`: validation refuses every document whose index would
  break what the claim rules and the proofs about them assume.
* `BlockedIsBlocked`, `ServedKeysApply`: parser, validator, planner and derived
  semantics agree about the same key, in any company.
* `PlanIsCheapestLegal`: against the cost of every way there is;
  `DiagnosisNamesTheCut`: the edges named as blocked are a cut.
* `BufferedWasSent`, `ToldIsApplied`, `NothingStaleRuns`, `ReplacesWholeMaps`: a
  push is one client's, whole, once, told only to its author, and never the
  command of a dead session.
* `ConflictsPredateTheMap`: two claims that exclude each other under the map
  being served were both granted before it; a grant is never judged by half of
  a replacement.
* `LedgerAndRegistryAgree`: ledger, registry, liveness stamps, UUID bindings and
  the id counter fit together, also after a restart from a file of any age.
* `TokensDieWithRegistration`, `RightKeyIsAccepted`: across deregistration,
  re-registration under another key, expiry, guessing and cool-down.
* `AcknowledgedSurvivesShutdown`, `RestartsWhereItSaved`: the file.
* `SilentRobotsAreFreed`, `TimedClaimsEnd`: under weak fairness of the sweep and
  of the clock.  The sweeper is a task of its own that a runtime timer wakes every
  second for as long as the process lives (`spawn_inactive_sweeper`), it waits
  for nothing but the lock, and time passes.  Nothing is assumed of the robots:
  no handler is fair.

## Findings

* **`nested_reclaim`**: `occupied_zones` does not test a claim of a zone against
  the zones inside it, but a holder of a zone occupies the zones inside it.  A
  robot in an exclusive bay is refused its own renewal after another was granted
  the hall around it.
* **`lease_extend`**: `refresh_lease` evaluates nothing, so an extension overruns
  a claim granted for the time after the lease.
* **`saturated`**: with a live lease filed under claim id `u64::MAX` the next minted
  id is that of the live lease, and so is every later one, under which evaluation
  compares a claim with no other of that id.  The comments at
  `claim/manager.rs:24-26` and `176-179` say that a minted id never collides with a
  live one; `tests/claim_manager.rs:246-273` asserts that it does.
* **`clock_back`**: after the wall clock is set back, a timed claim lies in the
  future and its ground is granted again.
* **`strayed`**: a robot that has reported a node off its plan counts as following
  it again after a report that names an edge, any edge, and no node.

Seen while modelling `Scheduling`, and recorded here and as hazards, without a run
of their own:

* On its second passage of a node a robot claims from the first: where the rest
  of the loop is as long as the horizon, the ground ahead is not claimed.
  `src/python/mod.rs:1092-1093` promises "the nodes and edges of the coming
  `horizon` steps"; `HorizonHoldsNextStep` leaves this case out.
* A rolling claim lasts as many ticks as the rest of the plan costs
  (`coordinator.rs:683-697`), while scheduled windows multiply by
  `ticks_per_cost_unit` (`coordinator.rs:170-187`, `592-604`): with a factor above
  one it is over before the schedule has the robot arrive.  No doc says how long
  such a claim lasts.
* The scheduler says `Proceed` to a plan that evaluation would refuse (a zone with
  a single user on the way), and queues a robot behind its own lease.
* Arbitration can go round in a circle among three robots.
* `refresh_robot_leases` adds the extension without saturating
  (`coordinator.rs:1720`), though the sums around it saturate: near `u64::MAX` a
  debug build panics and a release build wraps to a lease that has ended.

Seen while modelling the rest, likewise without a run of their own:

* An edge whose explicit capacity is one is not limited: the check skips
  capacities up to one (`claim/manager.rs:487`), and sharers of an edge are
  compatible.  `EdgeCapacity` is about capacities above one.
* A transfer whose client gave up is kept until the core stops
  (`peerbus.rs:303`); the ceiling is per transfer.
* The comment of `accept` calls a changed chunk count a fresh transfer; the code
  drops the transfer and answers with an error.
* A loop that discards old calls ends at the first take that fails
  (`peerbus.rs:518`); the model lets takes fail only while serving.
* A robot known by a UUID mints an id at every challenge and at every proof
  until it is registered, so its proof never finds its challenge: such a robot
  can register only with a secret, and the ids it named stay in
  `pending_uuid_bindings` (`coordinator.rs:1178`).
* A token proved for an id before another robot registers that id is not revoked,
  and authenticates as it until it expires: `validate_key` asks only whether the
  token's id is the one named (`coordinator.rs:1416-1418`).  The intent stated at
  `coordinator.rs:1337-1338` ("otherwise a second robot could prove *its own* key
  against someone else's id"), at `docs/WRITING_ADAPTER.md:274-275` ("a robot
  registered under one identity cannot be re-proven with a different key") and at
  `tests/did_key_auth.rs:178` is met for proofs after the registration only.
  `TokensDieWithRegistration` is about tokens issued to a registered robot and
  leaves the earlier ones out.
* The final snapshot is taken when the signal arrives; what is acknowledged
  while connections drain is not in it (`bin/syncbot.rs:282`).
* Liveness stamps are restored as wall-clock times, so the first sweep after a
  long outage frees claims of robots that had no chance to be heard.
* A state file that does not load is overwritten by the next flush.
* A state file is written and renamed without a sync of file or directory
  (`persist.rs:108-112`): after a power cut it may be an older one, or empty, and
  the core then starts fresh.
* A plan names its edges by their ends, so between parallel edges the edge named
  need not be the one searched (`route.rs:428`); `PlanIsCheapestLegal` asks the
  second half only of graphs without parallel edges.
* `requires_claim` of an edge is taken from the first zone alone
  (`policy.rs:998`), and negative edge weights are not validated.

## Proofs

For every workspace that satisfies `IsWorkspace`, every fleet, every set of
callers and every document that satisfies `DocumentsAssumption`:

| Theorem | Says | Assumes |
|---|---|---|
| `TypeCorrect` | `Spec => []TypeOK` | |
| `OneEntryPerGroundHolds` | `Spec => []OneEntryPerGround` | |
| `ExclusiveSafetyHolds` | `Spec => []ExclusiveSafety` | `MaxMint < IdCeiling`, `Reevaluate` |
| `ZoneReservationHolds` | `Spec => []ZoneReservation` | the same |
| `EdgeCapacityHolds`, `ZoneCapacityHolds` | `Spec => []EdgeCapacity`, `Spec => []ZoneCapacity` | the same |
| `KeepsTheLocksHolds` | `Spec` implements `LockTable!Spec` | `MaxMint < IdCeiling`, `Reevaluate` |
| `OneRobotPerStepHolds`, `ReleaseLetsGoHolds` | `Spec => OneRobotPerStep`, `Spec => ReleaseLetsGo` | |
| `ServerTypeCorrect` | `ServerSpec => []ServerTypeOK` | |
| `ExclusiveNowHolds` | `ServerSpec => []ExclusiveNow` | `MaxMint < IdCeiling` |
| `WireCapacityHolds` | `ServerSpec => [](EdgeCapacity /\ ZoneCapacity)` | `MaxMint < IdCeiling` |
| `ReclaimIsGrantedHolds` | `ServerSpec => []ReclaimIsGranted` | `MaxMint < IdCeiling`, `NoneClaimedAbove` |
| `HoldersAreRegisteredHolds` | `ServerSpec => []HoldersAreRegistered` | |
| `KeptWhileAliveHolds` | `ServerSpec => KeptWhileAlive` | |
| `RightOfWayMatches` | for any two contenders, the answers fit | |
| `SchedTypeCorrect` | `SchedSpec => []SchedTypeOK` | |
| `RightOfWayAgreesHolds` | `SchedSpec => []RightOfWayAgrees` | |
| `ClaimableIsNotDelayedHolds` | `SchedSpec => []ClaimableIsNotDelayed` | |
| `HorizonHoldsNextStepHolds` | `SchedSpec => HorizonHoldsNextStep` | |
| `LeasesAreListedHolds` | `SchedSpec => []LeasesAreListed` | |
| `NothingAheadReleasedHolds` | `SchedSpec => NothingAheadReleased` | |
| `ValidDocumentIsAWorkspace` | a document without validation errors indexes to a workspace | `IsDocument` |
| `ServedIsAWorkspaceHolds`, `BlockedIsBlockedHolds`, `ServedKeysApplyHolds` | `RouteSearch!Spec` keeps each of them | |
| `DiagnosisNamesTheCutHolds` | `RouteSearch!Spec => []DiagnosisNamesTheCut` | |
| `PlanIsCheapestLegalHolds` | `RouteSearch!Spec => []PlanIsCheapestLegal` | `PricesAreNatural` |
| `PushTypeCorrect` | `WorkspacePush!Spec => []PushTypeOK` | |
| `BufferedWasSentHolds`, `ToldIsAppliedHolds`, `ConflictsPredateTheMapHolds` | `WorkspacePush!Spec` keeps each of them | |
| `NothingStaleRunsHolds` | `WorkspacePush!Spec => NothingStaleRuns` | |
| `ReplacesWholeMapsHolds` | `WorkspacePush!Spec` implements `ServedWorkspace!Spec` | |
| `IdentityTypeCorrect` | `Durability!Spec => []IdentityTypeOK` | |
| `LedgerAndRegistryAgreeHolds`, `TokensDieWithRegistrationHolds`, `RightKeyIsAcceptedHolds`, `AcknowledgedSurvivesShutdownHolds` | `Durability!Spec` keeps each of them | |
| `RestartsWhereItSavedHolds` | `Durability!Spec` implements `CheckpointedStore!Spec` | |

Each assumption is a way its property fails in the code.  At saturation of the id
counter (which a caller's own lease id may also bring about, finding `saturated`) an id
repeats and hides a conflict; an unevaluated extension is the finding `lease_extend`, and a
claim of a zone above one with a limit (`NoneClaimedAbove` says there is none) the
finding `nested_reclaim`.  `PricesAreNatural` says that no edge of a served map
has a negative weight or price: nothing in the code checks it, and with a
negative weight a node already visited would be reached cheaper later, too late
to be looked at.  The modules' named assumptions are weaker: the build's
constants are what they are (`MaxFailures # 0`, for `MAX_KEY_FAILURES` is 5; an
epoch to start in), and a document is one as `zoneout` can hold it
(`DocumentsAssumption`): its zones are listed in tree order, the ends of its edges
are among its nodes, and ids are of their kinds.  Repeated ids and aliases,
unknown references and any traffic keys are left in: they are for the validation to
find.  TLC evaluates these on the runs, and `PricesAreNatural` on those of the
planner.

*The ledger.* Exclusion at every instant is not inductive.  What every operation
keeps is that any two holds of different robots are `Compatible`, the relation
that evaluation tests (`IInv`).  A claim enters because `Granted` compares it
with every hold of the others (its id is fresh, `FreshId`, so the skip by id
skips nothing); the relation is symmetric (`CompatibleSymmetric`), so a later
claim's test stands for both; it survives a narrower window
(`CompatibleWhenNarrowed`), which is how a lease inherits its claim's standing
and why it does not matter that a lease is read from tick 0 by one check and
from its grant by another.  `IInv` then gives exclusion and zone reservation by
unfolding the rules.  `ReleaseLetsGo` follows from `OneEntryPerGround`: a robot's
claims on a resource that ask for the same ground are one entry, the one that a
release removes.

*Capacities.* Evaluation counts robots whose windows meet the request's, once;
the property is about every instant.  `CapacityInv` adds `Room` to `IInv`: at every
instant, an edge carries and a zone holds no more robots than they admit.  A
granted claim changes the count only at instants it covers, and whoever is there
then has a window that meets it and was counted.  An exclusive claim of an edge is
not counted at all, and here the two halves of the invariant need each other: it
is compatible with nobody else's claim, so it is alone.

*The table of locks.* `KeepsTheLocksHolds` puts these together.  `CapacityInv` of
the next state says that what results fits (`HoldsFit`): compatible holds have
rights that bar none of each other, and the users of a limited resource are those
that `Room` counts.  `NextChangesOne` says of every call that all holds it adds or
takes are one robot's, so the rights of the others are the same set before and
after; only expiry, clearing and the clock are left, each an action of the table.

*The wire.* `ExclusiveNow` compares claims by their ends only.  It follows since
every window on the wire opens at or before the present (`Opened`), so two claims
that have not lapsed both cover the present.  `Opened` is what a clock that goes
back breaks.  With `Room` of the recorded claims (`ReclaimInv`) a robot that asks
again for its ground meets only claims compatible with its own, and is counted
where it is counted already; so it is granted, unless it is counted in a zone
where its claim was never tested, which is what `NoneClaimedAbove` rules out.
For `KeptWhileAlive` each handler that can remove a claim which has
not lapsed is followed to its cause: a claim handler removes one only to put the
same ground of the same robot in its place, and the sweeper's robots are silent
for longer than was promised.

*Scheduling.* `LeasesAreListed` is inductive once states and leases have their
shape (`ListInv`).  For `NothingAheadReleased` the invariant is that the
coordinator's idea of a robot's place may be old but is never ahead of the truth
(`Tracked`): the *first* passage of the node it last reported lies at or before
its place.  A new plan establishes it because it starts where the robot was last
seen, driving preserves it, and a report renews it (`FirstPassage`).  Then the
ground that counts as remaining contains the ground that is ahead.  `SchedInv`
adds to the ledger's types that every state on file is a `RobotState` whose step
index lies on its plan.  From it, what is left of a plan is never negative, so any
two robots are contenders and `RightOfWayMatches` applies; and a plan that could
be claimed whole meets none of the conflicts the scheduler looks for.
`HorizonHoldsNextStep` rests on `Tracked` as well: the step the coordinator
takes a robot to be at is never ahead of its true place, so a claim of `Horizon`
steps that starts less than a horizon behind covers the place, the next edge and
its end (`HorizonReaches`).  That it has set in needs one more invariant: no state
is dated later than the present (`DateInv`), since the window opens at the date
of the last report.

*The index.* `ValidDocumentIsAWorkspace` is what makes the theorems about the
ledger theorems about documents: `IsWorkspace` is all they assume of `World`, and
every document that `validation_issues` lets through indexes to a workspace with
it.  The index is folded together, key by key and zone by zone, by recursive
functions on the naturals (`kept`, `read`, `under`, `Walk`, `AncestorsIn`).  The
module first proves, from the least-number principle, that such a function exists
and takes the value its equation gives (`Recursion`); then one invariant per fold.
`Keep` returns exactly the entries asked for, in order.  A parsed policy has its
fields in their types after any prefix of the keys, and a field once set by a key
that parses stays set.  The worklist of `index_zone_tree` visits each position of
the tree once (`WalkVisitsZones`).  With unique ids the last link written for a zone
is its only one; a parent lies earlier in the document than its child, so climbing
ends, and what is collected on the way is exactly the zones around
(`ParentsComeFirst`, `AncestorsOfAForest`).  Uniqueness is not assumed: the
validation counts names and ids, and as many names as positions leave none twice
(`NamesAreUnique`).  `Served` says that what the planner looks at is the index of
the document it was started with, and that this document is without errors; the
three invariants follow.  `BlockedIsBlocked` needs that no key read after `blocked`
reopens the zone, whatever the order, and `ServedKeysApply` that every key the
validator passes is one its parser reads.

*Route planning.* A search terminates in one of two ways, and each needs its own
invariant.  `RouteInv` is about where it gets to: what it has reached is held by
every closed set of nodes that holds the start, and once the frontier is empty it
is itself such a set, so a failed search is a cut.  The diagnosis compares sets
cut off by different edges; `StageInv` carries from one of its searches to the
next what the one before has shown (`NoOpenWay`, `LegalWay`).  The predecessors form a
tree: each was visited before the nodes it leads to, so that the way back from the
goal ends at the start over edges the loop has taken.  `CostInv` adds prices: the distance of a reached node is what its way
through the tree costs, hence the cost of some way; and distances of visited nodes
are never above those on the frontier and satisfy `d(m) <= d(n) + cost` for every
step out of a visited node.  Nothing undercuts such a potential, so when the goal
surfaces no way is cheaper.  This is where `PricesAreNatural` enters: what is
relaxed later is no nearer than what was taken from the frontier.  Sums and ways
are recursive functions over the naturals; that they exist, and induction over
their length, are `WorkspaceIndexProofs`' again.

*The push.* Six invariants, each resting on the ones before it.  `TypeInv` gives
the queue, the calls on it and the transfers their types.  `EpochInv` says that
every call on the topic of a serving core was written in its own epoch (one that
is only attached may find the last call of its predecessor there, and waits until
it has been passed over): `NothingStaleRuns` follows.  `SentInv` ties every call
on the topic, in the segment and in the assembler to the push its number stands
for, which is where it matters that no number is used twice; `BufferedWasSent` is
part of it.  `OnceInv` says that a serving core has at most one call per push on
the topic, the one its client waits for, with only earlier chunks in the
assembler and the push not yet applied; and that *accepted* is only ever the
answer to a push that was applied.  So no push is complete twice, and no client
is told wrongly.  With `SentInv` and `OnceInv` the step that replaces the map is
the abstract `Apply` of a push that is open.  `MapInv` keeps the two copies of
the index equal outside a step, and a core that is down without claims.  `BoundInv` keeps
every pending transfer short of a chunk and under the ceiling, though chunks
arrive twice, and a core down only as often as it may start again.

*Identity and the file.* `LedgerInv` is `LedgerAndRegistryAgree` of the live
tables *and* of whatever is being written and lies on disk, since a restart
makes either the live one; the ids of open challenges are minted ones that
nobody has registered.  `TokensDieWithRegistration` needs no help: every step
that removes or replaces a registration drops its tokens.  `KeyInv` says that the
cache holds only right secrets of registered robots, and the secret of every
robot that was accepted since; so the accepted secret of a robot stays in the
cache as long as it is registered, and the throttle is never reached.  `AckInv`
follows a registration that stood at the signal from the registry through any
snapshot being written into the file.  `StoreInv` says that snapshots are well
formed, that there is at most one on disk and one on its way, and none on its way
when the core is down; beside unfolding, the refinement needs no more.

`IdentityTypeOK` follows from `LedgerInv` and `KeyInv` once registry and failure
counts are bounded, alive and in every snapshot (`SizeInv`).

Only model-checked: the two liveness properties `SilentRobotsAreFreed` and
`TimedClaimsEnd`, since fairness speaks of `ENABLED`, which is out of the
prover's reach.

## Abstractions

* Identity: a call by a registered robot carries its key, any other call is
  refused.  The order of the checks in a handler matters only where a state
  change precedes the refusal, which is kept.
* A target list is a set; evaluation and `same_target_set` ignore order and
  repetition.
* `released_leases` is the set of what was archived and why.
* Positions, headings, events and replies are not modelled.
* Of a robot's state, `hold_reason`, `reserved_until_tick`, `last_claim_tick`,
  `pending_claim_ids` and the edge it is on are written and never decide
  anything; the `traffic.schedule_window` strings are left out of scheduling.
* Costs of a plan are counted in halves of a unit, so that rounding up matters, and
  `ticks_per_cost_unit` is a whole number.  Every plan carries the steps the planner
  gives it; one without steps, which a library user could assign, is left out.
* Lease times and ticks share one unit; milliseconds are not.
* Hashing and signatures are external: a verifier accepts exactly the secret it
  was made from, a proof is good when it is over the challenge in force.
* A document is a value; its JSON, geometry, coordinates and the texts of issues
  are left out.  Prices are counted in fortieths and rounded down, alike in the
  search and in the reference it is compared with.
* A claim in `WorkspacePush` is a robot and a place, in `Durability` an id: what
  a claim is and when it is granted belongs to `ClaimManager`.
* peerbus is external: a topic is a queue in the order written, a consumer that
  attaches starts one message behind the latest write, a call may be lost.
* `add_request`/`upsert_request` with an id of the caller's choice is not
  modelled: a caller that reuses another claim's id replaces that claim.

### Process ids

`next_transfer_id` numbers a push by its process id and a counter of the process,
and its comment asks that the number be unique among transfers in flight.  The
model takes a process for its id: no two clients ever share one.  An operating
system hands ids out again, and clients in containers often all have the same
one, with a counter that starts at zero; a fragment left behind by the first
would then be completed by the second (`peerbus.rs:1299-1306`).  The mutant of
`ReplacesWholeMaps`, which numbers pushes by the counter alone, shows what
happens then: a map is put together from two documents.

## Fault model

| Fault | Where | What the code has against it |
|---|---|---|
| a call or its answer lost, a client that gives up or dies | `Lose`, `GiveUp` | chunks are gathered by transfer, applied when complete |
| replay of the last call after a restart | `Attach` | `discard_requests_predating_this_core` |
| death of the process at any point, also while a file is written | `Crash` of both | temporary file and rename; assembler and tokens are volatile |
| a power cut or a crash of the machine | not modelled: what a disk keeps of unsynced writes is the file system's | nothing is synced (`persist.rs:108-112`) |
| a write that fails | `WriteFails`, `FinalFlush` | the last file stays, the next tick tries again |
| a signal while a snapshot is written or a request is served | `Signal`, `Exit` | final flush, then connections drain |
| robots that fall silent, clocks that jump or go back | `Sweep`, `SetBack` | interval and sweeper; nothing (finding `clock_back`) |

## Not modelled

* **VDA 5050** (`src/vda/`): message types and translations to and from robot
  state, without a loop or lock of its own.
* **FFI and Python** (`src/ffi.rs`, `src/python/`): forward to the library; what
  their callers may do is the environment of `ClaimManager`, `Scheduling` and
  `RouteSearch` (`Call`).
* **REST and XML adapters**, and the peerbus topics other than the push: decode,
  call one handler of the flat wire, encode.
* **`merge_zone_policy`**: exported, called by nothing in the crate.
* **`Coordinator::clear`** and replacing the state of a registered robot: calls of
  the library's owner that the server never makes.
* **The provisioned list** and the permission to register with the default key:
  a set membership and a flag in front of `Register`.
* Cryptography and the bus itself, which are external.

## Plan

Done: the rules, the ledger, the wire, scheduling and arbitration; the index, the
policies and the planner; the push; identity and persistence; three abstract
specifications and the proofs that the code's steps implement them.  Left:

1. In `Scheduling`: schedule windows, several driving robots, a fairness argument
   that a queued robot is eventually scheduled.
2. The event ring of the flat wire, should it ever decide anything.
