------------------------------- MODULE Identity ------------------------------
(***************************************************************************)
(* Who a robot is: registration, UUID ids, keys and their verification     *)
(* cache and throttle, challenges and bearer tokens (src/src/coordinator.rs *)
(* behind the flat handlers of src/src/wire/mod.rs).                       *)
(*                                                                         *)
(* A handler runs under the coordinator's write lock: one action.  A       *)
(* client is a robot with the id it was given, `Raw', and what it can       *)
(* prove, `Own'.  A presented key is                                       *)
(*   form  : "pass" (numeric or pass:), "did" (did:key) or "tok"           *)
(*   value : the secret or the public key; of a token the key it proved    *)
(*   robot, until, known : of a token, for whom and until when it was      *)
(*           issued, and whether that id was registered then (history)     *)
(* Hashing is external: a verifier accepts exactly the secret it was made  *)
(* from, and a signature is good when it is over the challenge in force.   *)
(***************************************************************************)
EXTENDS Integers, FiniteSets, Functions

CONSTANTS
    Clients, Raw, Own,
    Uuids,              \* the ids that are UUIDs; the others are integers
    IntegerIds,          \* below Base
    Base,               \* SYNTHETIC_ROBOT_ID_BASE
    MintBound,          \* how many synthetic ids are minted at most
    MaxRobots,          \* MAX_REGISTERED_ROBOTS
    MaxFailures, Cooldown, ChallengeTtl, TokenTtl, Silence,
    Setups              \* small instances: who takes part (team), whether
                        \* somebody sends wrong keys (guesses), how long time
                        \* runs (horizon) and whether persistence is on

ASSUME IdentityAssumption ==
    /\ Base \in Nat /\ IntegerIds \subseteq 0..Base - 1
    /\ Raw \in [Clients -> IntegerIds \cup Uuids]
    /\ \A c \in Clients : Own[c].form \in {"pass", "did"}
    /\ {MintBound, MaxRobots, MaxFailures, Cooldown, ChallengeTtl, TokenTtl, Silence}
           \subseteq Nat
    /\ MaxFailures # 0
    /\ Setups \subseteq [team : SUBSET Clients, guesses : BOOLEAN, horizon : Nat,
                         persists : BOOLEAN]

VARIABLES
    setup,          \* one of Setups, for good
    now,
    registry,       \* robot_states and robot_keys: id -> the key bound to it
    alive,          \* robot_alive: id -> when it was last seen
    uuids,          \* robot_id_by_uuid
    next,           \* next_synthetic_robot_id
    claims,         \* ids with something in the claim ledger
    verified,       \* the verification cache: <<id, secret>>
    failures,       \* id -> count and time of the first of a run
    challenges,     \* id -> the client holding the nonce, and when it got it
    tokens,         \* the token store
    pending,        \* pending_uuid_bindings: id -> uuid
    accepted        \* history: ids whose secret this core has accepted

durable   == <<registry, alive, uuids, next, claims>>
volatile  == <<verified, failures, challenges, tokens, pending, accepted>>
identityVars == <<setup, now, durable, volatile>>

Ids == IntegerIds \cup (Base..Base + MintBound - 1)

Forget(f, id) == [x \in DOMAIN f \ {id} |-> f[x]]
Bind(f, id, v) == [x \in DOMAIN f \cup {id} |-> IF x = id THEN v ELSE f[x]]

Secret(s)    == [form |-> "pass", value |-> s, robot |-> 0, until |-> 0, known |-> FALSE]
Token(k, id, until, known) ==
    [form |-> "tok", value |-> k, robot |-> id, until |-> until, known |-> known]
Verifier(form, value) == [form |-> form, value |-> value]

(* What a client may send: its own key, a wrong one, or a token it was      *)
(* given, which the store may have dropped since.                          *)
Lapsed    == Token("lapsed", 0, 0, FALSE)
Presented(c) ==
    {IF Own[c].form = "pass" THEN Secret(Own[c].value) ELSE Lapsed}
        \cup {p \in {Secret("wrong")} : setup.guesses}
        \cup {t \in tokens : Own[c] = Verifier("did", t.value)}

-----------------------------------------------------------------------------
(* Robot ids.                                                              *)

(* resolve_robot_id: an integer is itself, a UUID only once bound.          *)
Known(raw) == raw \in IntegerIds \/ raw \in DOMAIN uuids
Resolve(raw) == IF raw \in IntegerIds THEN raw ELSE uuids[raw]

(* resolve_or_mint_robot_id: a UUID not bound yet takes the next synthetic  *)
(* id every time it is named, noted as pending until a registration        *)
(* commits it.                                                             *)
MintsFor(raw) == ~ Known(raw)
Target(raw)   == IF Known(raw) THEN Resolve(raw) ELSE next
Noted(raw)    == IF Known(raw) THEN pending ELSE Bind(pending, next, raw)
Minted(raw)   ==
    /\ MintsFor(raw) => next < Base + MintBound
    /\ next' = IF MintsFor(raw) THEN next + 1 ELSE next

-----------------------------------------------------------------------------
(* validate_key: whether p authenticates as id, and what it leaves in the   *)
(* cache and in the run of failures.                                       *)
Live(t) == t \in tokens /\ t.until > now
Cached(id, p)  == p.form = "pass" /\ <<id, p.value>> \in verified
Throttled(id)  ==
    /\ id \in DOMAIN failures
    /\ failures[id].count >= MaxFailures
    /\ now - failures[id].since < Cooldown
(* KeyVerifier::verify: a did:key verifier matches nothing presented.       *)
Matches(id, p) == p.form = "pass" /\ registry[id] = Verifier("pass", p.value)

AuthenticatesThrottledFirst(id, p) ==
    /\ id \in DOMAIN registry
    /\ \/ p.form = "tok" /\ Live(p) /\ p.robot = id
       \/ ~ Throttled(id) /\ (Cached(id, p) \/ Matches(id, p))

Authenticates(id, p) ==
    /\ id \in DOMAIN registry
    /\ \/ p.form = "tok" /\ Live(p) /\ p.robot = id
       \/ Cached(id, p)
       \/ ~ Throttled(id) /\ Matches(id, p)

(* A run that has cooled down is forgotten before the key is tried.         *)
Missed(id) ==
    IF id \in DOMAIN failures /\ failures[id].count < MaxFailures
    THEN Bind(failures, id, [failures[id] EXCEPT !.count = @ + 1])
    ELSE Bind(failures, id, [count |-> 1, since |-> now])

Remember(id, p) ==
    IF id \notin DOMAIN registry \/ p.form = "tok" THEN UNCHANGED <<verified, failures, accepted>>
    ELSE IF Authenticates(id, p)
    THEN /\ verified' = verified \cup {<<id, p.value>>}
         /\ failures' = Forget(failures, id)
         /\ accepted' = accepted \cup {id}
    ELSE /\ failures' = IF Throttled(id) THEN failures ELSE Missed(id)
         /\ UNCHANGED <<verified, accepted>>

-----------------------------------------------------------------------------
(* flat_register.  A bare did:key is turned away before it names an id; it  *)
(* is not among the keys presented here.                                   *)
RefusedAtAnySize(id) == id \in DOMAIN registry

Refused(id) == id \in DOMAIN registry \/ Cardinality(DOMAIN registry) >= MaxRobots

(* Registering with a token binds the identity it proved, whoever's id it   *)
(* was proved for.                                                         *)
Bindable(p) == p.form = "pass" \/ Live(p)
BoundAs(p)  == IF p.form = "pass" THEN Verifier("pass", p.value) ELSE Verifier("did", p.value)

RegisterRefused(c, p) ==
    LET id == Target(Raw[c]) IN
    /\ p \in Presented(c)
    /\ Refused(id) \/ ~ Bindable(p)
    /\ Minted(Raw[c])
    /\ pending' = Forget(Noted(Raw[c]), id)
    /\ UNCHANGED <<setup, now, registry, alive, uuids, claims, verified, failures, challenges,
                   tokens, accepted>>

Register(c, p) ==
    LET id == Target(Raw[c]) IN
    /\ p \in Presented(c)
    /\ ~ Refused(id) /\ Bindable(p)
    /\ Minted(Raw[c])
    /\ registry' = Bind(registry, id, BoundAs(p))
    /\ alive' = Bind(alive, id, now)
    /\ verified' = IF p.form = "pass" THEN verified \cup {<<id, p.value>>} ELSE verified
    /\ accepted' = IF p.form = "pass" THEN accepted \cup {id} ELSE accepted
    /\ uuids' = IF id \in DOMAIN Noted(Raw[c])
                THEN Bind(uuids, Noted(Raw[c])[id], id) ELSE uuids
    /\ pending' = Forget(Noted(Raw[c]), id)
    /\ UNCHANGED <<setup, now, claims, failures, challenges, tokens>>

(* flat_heartbeat, its key and its effect on liveness.                     *)
Heartbeat(c, p) ==
    LET id == Resolve(Raw[c]) IN
    /\ p \in Presented(c)
    /\ Known(Raw[c]) /\ id \in DOMAIN registry
    /\ Remember(id, p)
    /\ alive' = IF Authenticates(id, p) THEN Bind(alive, id, now) ELSE alive
    /\ UNCHANGED <<setup, now, registry, uuids, next, claims, challenges, tokens, pending>>

(* flat_claim and flat_release, as far as the key decides them.            *)
Claim(c, p) ==
    LET id == Resolve(Raw[c]) IN
    /\ p \in Presented(c)
    /\ Known(Raw[c]) /\ id \in DOMAIN registry /\ Authenticates(id, p)
    /\ Remember(id, p)
    /\ claims' = claims \cup {id}
    /\ UNCHANGED <<setup, now, registry, alive, uuids, next, challenges, tokens, pending>>

(* unregister_robot: everything of the robot but its pending bindings.      *)
UnregisterKeepingTokens(id) ==
    /\ claims' = claims \ {id}
    /\ registry' = Forget(registry, id)
    /\ verified' = {v \in verified : v[1] # id}
    /\ failures' = Forget(failures, id)
    /\ challenges' = Forget(challenges, id)
    /\ tokens' = tokens
    /\ uuids' = [u \in {w \in DOMAIN uuids : uuids[w] # id} |-> uuids[u]]
    /\ alive' = Forget(alive, id)
    /\ accepted' = accepted \ {id}

UnregisterKeepingClaims(id) ==
    /\ claims' = claims
    /\ registry' = Forget(registry, id)
    /\ verified' = {v \in verified : v[1] # id}
    /\ failures' = Forget(failures, id)
    /\ challenges' = Forget(challenges, id)
    /\ tokens' = {t \in tokens : t.robot # id}
    /\ uuids' = [u \in {w \in DOMAIN uuids : uuids[w] # id} |-> uuids[u]]
    /\ alive' = Forget(alive, id)
    /\ accepted' = accepted \ {id}

Unregister(id) ==
    /\ claims' = claims \ {id}
    /\ registry' = Forget(registry, id)
    /\ verified' = {v \in verified : v[1] # id}
    /\ failures' = Forget(failures, id)
    /\ challenges' = Forget(challenges, id)
    /\ tokens' = {t \in tokens : t.robot # id}
    /\ uuids' = [u \in {w \in DOMAIN uuids : uuids[w] # id} |-> uuids[u]]
    /\ alive' = Forget(alive, id)
    /\ accepted' = accepted \ {id}

Deregister(c, p) ==
    LET id == Resolve(Raw[c]) IN
    /\ p \in Presented(c)
    /\ Known(Raw[c]) /\ id \in DOMAIN registry /\ Authenticates(id, p)
    /\ Unregister(id)
    /\ UNCHANGED <<setup, now, next, pending>>

-----------------------------------------------------------------------------
(* flat_challenge: open to ids that are not registered; a new nonce         *)
(* replaces the old.                                                       *)
Challenge(c) ==
    /\ Minted(Raw[c])
    /\ pending' = Noted(Raw[c])
    /\ challenges' = Bind(challenges, Target(Raw[c]), [to |-> c, at |-> now])
    /\ UNCHANGED <<setup, now, registry, alive, uuids, claims, verified, failures, tokens, accepted>>

(* prove_identity: the challenge is consumed whatever comes of it, the key  *)
(* must be the registered one if there is one, and the signature over the  *)
(* nonce in force.  A token is issued, and lapsed ones are dropped.        *)
MayProve(id, k) == id \in DOMAIN registry => registry[id] = Verifier("did", k)

Answers(c, id) ==
    /\ id \in DOMAIN challenges
    /\ challenges[id].to = c
    /\ now - challenges[id].at <= ChallengeTtl

Issue(id, k) ==
    tokens' = {t \in tokens : t.until > now}
                \cup {Token(k, id, now + TokenTtl, id \in DOMAIN registry)}

Prove(c) ==
    LET id == Target(Raw[c]) IN
    /\ Own[c].form = "did"
    /\ Minted(Raw[c])
    /\ pending' = Noted(Raw[c])
    /\ challenges' = Forget(challenges, id)
    /\ IF Answers(c, id) /\ MayProve(id, Own[c].value)
       THEN Issue(id, Own[c].value)
       ELSE UNCHANGED tokens
    /\ UNCHANGED <<setup, now, registry, alive, uuids, claims, verified, failures, accepted>>

-----------------------------------------------------------------------------
(* sweep_inactive: the claims of robots silent for longer than two          *)
(* intervals are dropped; they stay registered.                            *)
Sweep ==
    /\ claims' = {id \in claims : id \in DOMAIN alive => now - alive[id] <= Silence}
    /\ claims' # claims
    /\ UNCHANGED <<setup, now, registry, alive, uuids, next, volatile>>

Tick ==
    /\ now < setup.horizon
    /\ now' = now + 1
    /\ UNCHANGED <<setup, durable, volatile>>

Fresh ==
    /\ registry = << >> /\ alive = << >> /\ uuids = << >>
    /\ next = Base /\ claims = {}

NothingRemembered ==
    /\ verified = {} /\ failures = << >> /\ challenges = << >>
    /\ tokens = {} /\ pending = << >> /\ accepted = {}

Handler ==
    \/ \E c \in setup.team :
        \/ \E p \in Presented(c) :
            \/ Register(c, p) \/ RegisterRefused(c, p) \/ Deregister(c, p)
            \/ Heartbeat(c, p) \/ Claim(c, p)
        \/ Challenge(c) \/ Prove(c)
    \/ Sweep

-----------------------------------------------------------------------------
(* The tables are over robot ids, and what refers to a registration is     *)
(* about a robot that is registered.                                       *)
IdentityTypeOK ==
    /\ DOMAIN registry \subseteq Ids
    /\ Cardinality(DOMAIN registry) <= MaxRobots
    /\ next \in Base..Base + MintBound
    /\ \A id \in DOMAIN failures : failures[id].count \in 1..MaxFailures
    /\ \A v \in verified : v[1] \in DOMAIN registry /\ registry[v[1]] = Verifier("pass", v[2])
    /\ DOMAIN pending \subseteq Base..next - 1
    /\ DOMAIN pending \cap DOMAIN registry = {}

(* Whoever holds ground can be told from its heartbeats and be swept: it    *)
(* is registered, it has a liveness stamp, and if its id was minted, one   *)
(* UUID leads to it (register, unregister_robot, and restore).             *)
LedgerAndRegistryAgree ==
    /\ claims \subseteq DOMAIN registry
    /\ DOMAIN alive = DOMAIN registry
    /\ {uuids[u] : u \in DOMAIN uuids} = {id \in DOMAIN registry : id >= Base}
    /\ \A u, v \in DOMAIN uuids : uuids[u] = uuids[v] => u = v
    /\ \A id \in DOMAIN registry : id < next \/ id < Base

(* A token issued to a registered robot proves the very key that robot is   *)
(* registered under, and goes when the registration goes (prove_identity,  *)
(* unregister_robot).                                                      *)
TokensDieWithRegistration ==
    \A t \in tokens : t.known =>
        t.robot \in DOMAIN registry /\ registry[t.robot] = Verifier("did", t.value)

(* A robot's own secret is refused only in a cool-down after a run of       *)
(* failures, and never once this core has accepted it: others guessing at  *)
(* its id cannot lock it out (validate_key's cache and throttle).          *)
RightKeyIsAccepted ==
    \A id \in DOMAIN registry :
        registry[id].form = "pass" =>
            \/ Authenticates(id, Secret(registry[id].value))
            \/ id \notin accepted /\ Throttled(id)

=============================================================================
