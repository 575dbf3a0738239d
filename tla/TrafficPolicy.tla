---------------------------- MODULE TrafficPolicy ----------------------------
(***************************************************************************)
(* The `traffic.*' properties of zones and edges: src/src/policy.rs.       *)
(*                                                                         *)
(* A property map is a record from keys (without the `traffic.' prefix) to *)
(* raw strings.  An Option<T> is the set of what it holds: {} for None.    *)
(* Real numbers are counted in fortieths, Unit being 1.0, so that every    *)
(* price the planner computes from them is a whole number.                 *)
(***************************************************************************)
EXTENDS Integers, SequencesExt

Unit == 40

None    == {}
Some(x) == {x}
Holds(opt) == TRUE \in opt                        \* opt.unwrap_or(false)
Default(opt, x) == IF opt = None THEN x ELSE CHOOSE y \in opt : TRUE

MinOf(x, y) == IF x < y THEN x ELSE y
MaxOf(x, y) == IF x > y THEN x ELSE y

-----------------------------------------------------------------------------
(* The scalar parsers.  A raw string is one of a few spellings; the ones   *)
(* that padding or capitals disguise are listed with their plain form.     *)
Disguised == [v \in {" Yes ", " Slow", " "} |->
                CASE v = " Yes " -> "yes" [] v = " Slow" -> "slow" [] OTHER -> ""]
Plain(v)  == IF v \in DOMAIN Disguised THEN Disguised[v] ELSE v

Truthy == {"true", "1", "yes", "on"}
Falsy  == {"false", "0", "no", "off"}

ParseBool(v) == IF Plain(v) \in Truthy THEN Some(TRUE)
                ELSE IF Plain(v) \in Falsy THEN Some(FALSE) ELSE None

Numbers == [v \in {"-1", "0", "0.5", "1", "2", "4"} |->
              CASE v = "-1" -> -Unit [] v = "0" -> 0 [] v = "0.5" -> Unit \div 2
                [] v = "1" -> Unit   [] v = "2" -> 2 * Unit [] v = "4" -> 4 * Unit]

ParseF64(v) == IF v \in DOMAIN Numbers THEN Some(Numbers[v]) ELSE None
ParseU64(v) == {n \in {0, 1, 2, 4} : n * Unit \in ParseF64(v)}
ParseText(v) == IF Plain(v) = "" THEN None ELSE Some(Plain(v))

(* parse_zone_policy_kind: no keyword names CapacityLimited, and a word     *)
(* that is no keyword is Informational.                                    *)
KindOfKeyword ==
    [informational |-> "Informational", exclusive |-> "ExclusiveAccess",
     shared |-> "SharedAccess", corridor |-> "Corridor",
     restricted |-> "Restricted", slow |-> "Slowdown",
     replanning |-> "Replanning", no_stop |-> "NoStop"]

KindOf(v) == IF Plain(v) \in DOMAIN KindOfKeyword
             THEN KindOfKeyword[Plain(v)] ELSE "Informational"

KnownLanes == {"corridor", "service", "shared", "restricted", "passing", "staging"}
KnownDirections ==
    {"forward", "reverse", "bidirectional", "source_to_target", "target_to_source",
     "eastbound", "westbound", "northbound", "southbound"}

-----------------------------------------------------------------------------
(* Keys.  Each has one canonical spelling and at most one camelCase alias.  *)
Alias ==
    [maxOccupancy |-> "max_occupancy", claimRequired |-> "claim_required",
     entryRule |-> "entry_rule", exitRule |-> "exit_rule",
     speedLimit |-> "speed_limit", waitingAllowed |-> "waiting_allowed",
     stopAllowed |-> "stop_allowed", noStop |-> "no_stop",
     replanTrigger |-> "replan_trigger", robotClass |-> "robot_class",
     scheduleWindow |-> "schedule_window", accessGroup |-> "access_group",
     blocksEntryWithoutGrant |-> "blocks_entry_without_grant",
     blocksTraversalWithoutGrant |-> "blocks_traversal_without_grant",
     laneType |-> "lane_type", laneKind |-> "lane_kind",
     passingAllowed |-> "passing_allowed", clearanceWidth |-> "clearance_width",
     clearanceHeight |-> "clearance_height", surfaceType |-> "surface_type",
     allowedPayload |-> "allowed_payload", costBias |-> "cost_bias",
     preferredDirection |-> "preferred_direction"]

Canonical(k) == IF k \in DOMAIN Alias THEN Alias[k] ELSE k

CountKeys   == {"capacity", "max_occupancy"}
KeywordKeys == {"policy", "mode"}
SharedBools == {"claim_required", "waiting_allowed", "stop_allowed", "blocked", "no_stop"}
SharedTexts == {"robot_class", "schedule_window", "access_group"}

ZoneBools == SharedBools \cup
    {"replan_trigger", "blocks_entry_without_grant", "blocks_traversal_without_grant"}
ZoneTexts   == SharedTexts \cup {"entry_rule", "exit_rule"}
ZoneNumbers == {"priority", "speed_limit"}
ZoneKeys    == CountKeys \cup KeywordKeys \cup ZoneBools \cup ZoneTexts \cup ZoneNumbers

LaneKeys      == {"lane_type", "lane_kind"}
DirectionKeys == {"preferred_direction", "direction"}
PositiveKeys  == {"speed_limit", "clearance_width", "clearance_height"}
EdgeBools   == SharedBools \cup {"reversible", "passing_allowed"}
EdgeTexts   == SharedTexts \cup LaneKeys \cup DirectionKeys
                           \cup {"surface_type", "allowed_payload"}
EdgeNumbers == PositiveKeys \cup {"priority", "cost_bias"}
EdgeKeys    == CountKeys \cup EdgeBools \cup EdgeTexts \cup EdgeNumbers

(* A BTreeMap is iterated in byte order, where a capital precedes the       *)
(* underscore.  Any other key is one both parsers pass over.               *)
KeyOrder ==
    << "accessGroup", "access_group", "allowedPayload", "allowed_payload",
       "blocked", "blocksEntryWithoutGrant", "blocksTraversalWithoutGrant",
       "blocks_entry_without_grant", "blocks_traversal_without_grant",
       "capacity", "claimRequired", "claim_required", "clearanceHeight",
       "clearanceWidth", "clearance_height", "clearance_width", "costBias",
       "cost_bias", "direction", "entryRule", "entry_rule", "exitRule",
       "exit_rule", "laneKind", "laneType", "lane_kind", "lane_type",
       "maxOccupancy", "max_occupancy", "mode", "noStop", "no_stop",
       "passingAllowed", "passing_allowed", "policy", "preferredDirection",
       "preferred_direction", "priority", "replanTrigger", "replan_trigger",
       "reversible", "robotClass", "robot_class", "scheduleWindow",
       "schedule_window", "speedLimit", "speed_limit", "stopAllowed",
       "stop_allowed", "surfaceType", "surface_type", "waitingAllowed",
       "waiting_allowed" >>

(* The entries of s that are in T, in their order (filter_map).            *)
(* SelectSeq is opaque to the provers.                                     *)
Keep(s, T) ==
    LET kept[i \in 0..Len(s)] ==
            IF i = 0 THEN << >>
            ELSE IF s[i] \in T THEN Append(kept[i - 1], s[i]) ELSE kept[i - 1]
    IN  kept[Len(s)]

InOrder(props) == Keep(KeyOrder, DOMAIN props)

-----------------------------------------------------------------------------
(* Zone policies.                                                          *)
EmptyPolicy ==
    [kind |-> "Informational", capacity |-> 1, capacity_is_explicit |-> FALSE,
     requires_claim |-> FALSE, blocks_traversal_without_grant |-> FALSE,
     blocks_entry_without_grant |-> FALSE, priority |-> None, speed_limit |-> None,
     waiting_allowed |-> None, stop_allowed |-> None, blocked |-> None,
     replan_trigger |-> None, entry_rule |-> None, exit_rule |-> None,
     robot_class |-> None, schedule_window |-> None, access_group |-> None]

MakeRestricted(p) == [p EXCEPT !.kind = "Restricted",
                         !.blocks_entry_without_grant = TRUE,
                         !.blocks_traversal_without_grant = TRUE]

SetCapacity(p, n) ==
    [p EXCEPT !.capacity = n, !.capacity_is_explicit = TRUE,
              !.kind = IF n > 1 /\ @ = "Informational" THEN "CapacityLimited" ELSE @]

SetZoneBool(p, field, b) ==
    CASE field = "claim_required" ->
            [p EXCEPT !.requires_claim = b, !.blocks_entry_without_grant = b]
      [] field = "blocked" ->
            LET q == [p EXCEPT !.blocked = Some(b)] IN IF b THEN MakeRestricted(q) ELSE q
      [] field = "no_stop" ->
            [p EXCEPT !.stop_allowed = Some(~b), !.kind = IF b THEN "NoStop" ELSE @]
      [] field = "replan_trigger" ->
            [p EXCEPT !.replan_trigger = Some(b), !.kind = IF b THEN "Replanning" ELSE @]
      [] field \in {"blocks_entry_without_grant", "blocks_traversal_without_grant"} ->
            [p EXCEPT ![field] = b]
      [] OTHER -> [p EXCEPT ![field] = Some(b)]

(* One key of the map.  A value that does not parse leaves the policy.     *)
ReadZoneKey(p, k, v) ==
    LET field == Canonical(k) IN
    CASE field \in KeywordKeys -> [p EXCEPT !.kind = KindOf(v)]
      [] field \in CountKeys /\ (\E n \in ParseU64(v) : n >= 1) ->
            SetCapacity(p, CHOOSE n \in ParseU64(v) : TRUE)
      [] field \in ZoneBools /\ ParseBool(v) # None ->
            SetZoneBool(p, field, Holds(ParseBool(v)))
      [] field \in ZoneNumbers /\ ParseF64(v) # None  -> [p EXCEPT ![field] = ParseF64(v)]
      [] field \in ZoneTexts /\ ParseText(v) # None -> [p EXCEPT ![field] = ParseText(v)]
      [] OTHER -> p

(* Mutant: the last word leaves `blocked' to the key that was read.         *)
SettleZoneByTrigger(p) ==
    IF Holds(p.replan_trigger) THEN [p EXCEPT !.kind = "Replanning"]
    ELSE IF p.kind # "Restricted" /\ p.stop_allowed = Some(FALSE)
         THEN [p EXCEPT !.kind = "NoStop"]
    ELSE p

(* The last word of parse_zone_policy, whatever the order of the keys.      *)
SettleZone(p) ==
    IF Holds(p.blocked) THEN MakeRestricted(p)
    ELSE IF Holds(p.replan_trigger) THEN [p EXCEPT !.kind = "Replanning"]
    ELSE IF p.kind # "Restricted" /\ p.stop_allowed = Some(FALSE)
         THEN [p EXCEPT !.kind = "NoStop"]
    ELSE p

ParseZonePolicy(props) ==
    LET keys == InOrder(props)
        read[n \in 0..Len(keys)] ==
            IF n = 0 THEN EmptyPolicy
            ELSE ReadZoneKey(read[n - 1], keys[n], props[keys[n]])
    IN  SettleZone(read[Len(keys)])

-----------------------------------------------------------------------------
(* Edge semantics.                                                         *)
EmptySemantics ==
    [speed_limit |-> None, lane_type |-> None, reversible |-> None,
     passing_allowed |-> None, requires_claim |-> None, waiting_allowed |-> None,
     stop_allowed |-> None, blocked |-> None, priority |-> None, capacity |-> None,
     capacity_is_explicit |-> FALSE, clearance_width |-> None,
     clearance_height |-> None, surface_type |-> None, robot_class |-> None,
     allowed_payload |-> None, cost_bias |-> None, no_stop |-> None,
     preferred_direction |-> None, schedule_window |-> None, access_group |-> None]

EdgeField(k) ==
    CASE Canonical(k) \in CountKeys      -> "capacity"
      [] Canonical(k) \in LaneKeys       -> "lane_type"
      [] Canonical(k) \in DirectionKeys  -> "preferred_direction"
      [] Canonical(k) = "claim_required" -> "requires_claim"
      [] OTHER                           -> Canonical(k)

(* What a key's value parses to; an edge's capacity may be 0 here.         *)
EdgeValue(k, v) ==
    CASE Canonical(k) \in EdgeBools   -> ParseBool(v)
      [] Canonical(k) \in EdgeNumbers -> ParseF64(v)
      [] Canonical(k) \in EdgeTexts   -> ParseText(v)
      [] Canonical(k) \in CountKeys   -> ParseU64(v)
      [] OTHER                        -> None

ReadEdgeKey(s, k, v) ==
    IF EdgeValue(k, v) = None THEN s
    ELSE [s EXCEPT ![EdgeField(k)] = EdgeValue(k, v),
                   !.capacity_is_explicit = @ \/ Canonical(k) \in CountKeys]

ParseEdgeSemantics(props) ==
    LET keys == InOrder(props)
        read[n \in 0..Len(keys)] ==
            IF n = 0 THEN EmptySemantics
            ELSE ReadEdgeKey(read[n - 1], keys[n], props[keys[n]])
        s == read[Len(keys)]
    IN  IF Holds(s.no_stop) THEN [s EXCEPT !.stop_allowed = Some(FALSE)] ELSE s

-----------------------------------------------------------------------------
(* Validation: the keys of a map that draw an error, and those that draw a  *)
(* warning.                                                                *)
ZoneError(k, v) ==
    \/ Canonical(k) \in CountKeys   /\ ~ \E n \in ParseU64(v) : n >= 1
    \/ Canonical(k) = "priority"    /\ ParseF64(v) = None
    \/ Canonical(k) = "speed_limit" /\ ~ \E x \in ParseF64(v) : x > 0
    \/ Canonical(k) \in ZoneBools   /\ ParseBool(v) = None
    \/ Canonical(k) \in ZoneTexts   /\ ParseText(v) = None

(* Mutant: an edge's capacity must be a number, if only zero.              *)
EdgeErrorUnparsed(k, v) ==
    \/ Canonical(k) \in CountKeys    /\ ParseU64(v) = None
    \/ Canonical(k) \in EdgeNumbers  /\ ParseF64(v) = None
    \/ Canonical(k) \in PositiveKeys /\ ~ \E x \in ParseF64(v) : x > 0
    \/ Canonical(k) \in EdgeBools    /\ ParseBool(v) = None
    \/ Canonical(k) \in EdgeTexts    /\ ParseText(v) = None

EdgeError(k, v) ==
    \/ Canonical(k) \in CountKeys    /\ ~ \E n \in ParseU64(v) : n >= 1
    \/ Canonical(k) \in EdgeNumbers  /\ ParseF64(v) = None
    \/ Canonical(k) \in PositiveKeys /\ ~ \E x \in ParseF64(v) : x > 0
    \/ Canonical(k) \in EdgeBools    /\ ParseBool(v) = None
    \/ Canonical(k) \in EdgeTexts    /\ ParseText(v) = None

(* Only the canonical spellings are looked at for the conflict.            *)
StopConflict(props) ==
    /\ {"no_stop", "stop_allowed"} \subseteq DOMAIN props
    /\ Holds(ParseBool(props["no_stop"]))
    /\ Holds(ParseBool(props["stop_allowed"]))

ZoneWarning(props) ==
    \/ \E k \in DOMAIN props :
        \/ Canonical(k) \notin ZoneKeys
        \/ Canonical(k) \in KeywordKeys /\ Plain(props[k]) \notin DOMAIN KindOfKeyword
    \/ StopConflict(props)

EdgeWarning(props) ==
    \/ \E k \in DOMAIN props :
        \/ Canonical(k) \notin EdgeKeys
        \/ Canonical(k) \in LaneKeys /\ Plain(props[k]) \notin KnownLanes \cup {""}
        \/ Canonical(k) \in DirectionKeys /\ Plain(props[k]) \notin KnownDirections \cup {""}
    \/ StopConflict(props)

ZoneErrors(props) == {k \in DOMAIN props : ZoneError(k, props[k])}
EdgeErrors(props) == {k \in DOMAIN props : EdgeError(k, props[k])}

-----------------------------------------------------------------------------
(* What an edge is subject to once the zones around it have had their say:  *)
(* the tighter of two limits, the edge's own class, window, group, priority *)
(* and permissions where it has any, else those of the first zone that does.*)
FirstOf(own, theirs) == IF own = None THEN theirs ELSE own

Tighter(own, limit) == IF own = None THEN Some(limit)
                       ELSE Some(MinOf(Default(own, limit), limit))

Walls(p) == Holds(p.blocked) \/ p.kind = "Restricted"

UnderZone(s, p) ==
    LET counts == p.capacity_is_explicit \/ p.kind = "CapacityLimited"
        halts  == p.kind = "NoStop" \/ Walls(p)
    IN [s EXCEPT
        !.speed_limit = IF p.speed_limit = None THEN @
                        ELSE Tighter(@, Default(p.speed_limit, 0)),
        !.capacity = IF counts THEN Tighter(@, p.capacity) ELSE @,
        !.capacity_is_explicit = @ \/ counts,
        !.robot_class = FirstOf(@, p.robot_class),
        !.schedule_window = FirstOf(@, p.schedule_window),
        !.access_group = FirstOf(@, p.access_group),
        !.waiting_allowed = FirstOf(@, p.waiting_allowed),
        !.requires_claim = FirstOf(@, Some(p.requires_claim)),
        !.priority = FirstOf(@, p.priority),
        !.stop_allowed = IF halts THEN Some(FALSE) ELSE FirstOf(@, p.stop_allowed),
        !.no_stop = IF halts THEN Some(TRUE) ELSE @,
        !.blocked = IF Walls(p) THEN Some(TRUE) ELSE @,
        !.cost_bias = IF p.kind = "Slowdown" THEN Some(Default(@, 0) + Unit) ELSE @]

DeriveEffectiveSemantics(props, policies) ==
    LET under[n \in 0..Len(policies)] ==
            IF n = 0 THEN ParseEdgeSemantics(props)
            ELSE UnderZone(under[n - 1], policies[n])
    IN  under[Len(policies)]

=============================================================================
