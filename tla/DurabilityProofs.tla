-------------------------- MODULE DurabilityProofs ---------------------------
(***************************************************************************)
(* What restarts bring back, who holds ground, what tokens are worth and   *)
(* whose key is refused: the properties of Identity and Durability for     *)
(* every fleet, every set of keys and every bound.                         *)
(***************************************************************************)
EXTENDS Durability, FiniteSetTheorems, TLAPS

(* Every state on its way to the disk, or on it, has the form of a          *)
(* snapshot, and a core that is down is not writing one.                   *)
Formed(s) == s = [registry |-> s.registry, alive |-> s.alive, uuids |-> s.uuids,
                  next |-> s.next, claims |-> s.claims]

StoreInv ==
    /\ \A s \in held \cup disk : Formed(s)
    /\ core = "down" => held = {}
    /\ held = {} \/ \E s : held = {s}
    /\ disk = {} \/ \E s : disk = {s}

LEMMA SnapshotForm == Formed(Snapshot) /\ Formed(FreshSnapshot)
  BY DEF Formed, Snapshot, FreshSnapshot

LEMMA OnDiskForm == StoreInv => Formed(OnDisk)
<1> SUFFICES ASSUME StoreInv PROVE Formed(OnDisk)
  OBVIOUS
<1>1. CASE disk = {}
  BY <1>1, SnapshotForm DEF OnDisk
<1>2. CASE disk # {}
  <2> (CHOOSE s \in disk : TRUE) \in disk
    BY <1>2
  <2> QED BY <1>2 DEF OnDisk, StoreInv
<1> QED BY <1>1, <1>2

LEMMA StoreInvInit == Init => StoreInv
  BY DEF Init, StoreInv

LEMMA StoreInvStep == StoreInv /\ [Next]_vars => StoreInv'
<1> SUFFICES ASSUME StoreInv, [Next]_vars PROVE StoreInv'
  OBVIOUS
<1>1. CASE UNCHANGED <<core, held, disk>>
  BY <1>1 DEF StoreInv, Formed
<1>2. CASE TakeSnapshot
  <2>1. held' = {Snapshot} /\ UNCHANGED <<core, disk>> /\ core # "down"
    BY <1>2 DEF TakeSnapshot
  <2> QED BY <2>1, SnapshotForm DEF StoreInv
<1>3. CASE Rename
  BY <1>3 DEF Rename, StoreInv
<1>4. CASE WriteFails
  BY <1>4 DEF WriteFails, StoreInv
<1>5. CASE Signal
  BY <1>5 DEF Signal, StoreInv
<1>6. CASE FinalFlush
  BY <1>6 DEF FinalFlush, StoreInv
<1>7. CASE Exit
  BY <1>7 DEF Exit, StoreInv
<1>8. CASE Crash
  BY <1>8 DEF Crash, StoreInv
<1>9. CASE Boot
  BY <1>9 DEF Boot, StoreInv
<1> QED
  BY <1>1, <1>2, <1>3, <1>4, <1>5, <1>6, <1>7, <1>8, <1>9
  DEF Next, vars, storeVars, Serve, Time

-----------------------------------------------------------------------------
(* The refinement: every step maps to a step of the store or a stutter.     *)
LEMMA StoreInitRefined == Init => Store!Init
  BY DEF Init, Fresh, Store!Init, Snapshot, FreshSnapshot, OnDisk

LEMMA LiveUnchanged == UNCHANGED identityVars => UNCHANGED Snapshot
  BY DEF identityVars, durable, Snapshot

LEMMA SavedUnchanged == UNCHANGED disk => UNCHANGED OnDisk
  BY DEF OnDisk

LEMMA StoreStepRefined == StoreInv /\ [Next]_vars => [Store!Next]_(Store!svars)
<1> SUFFICES ASSUME StoreInv, [Next]_vars PROVE [Store!Next]_(Store!svars)
  OBVIOUS
<1> USE DEF Store!svars, Store!Next
<1>1. CASE UNCHANGED vars
  BY <1>1, LiveUnchanged, SavedUnchanged DEF vars, storeVars
<1>2. CASE Serve
  BY <1>2, SavedUnchanged DEF Serve, Store!Change
<1>3. CASE Time
  BY <1>3, SavedUnchanged DEF Time, Tick, storeVars, durable, Snapshot
<1>4. CASE TakeSnapshot
  BY <1>4, LiveUnchanged, SavedUnchanged DEF TakeSnapshot, Store!Take
<1>5. CASE Rename
  <2>1. PICK s : held = {s}
    BY <1>5 DEF Rename, StoreInv
  <2>2. OnDisk' = s
    BY <1>5, <2>1 DEF Rename, OnDisk
  <2> QED BY <1>5, <2>1, <2>2, LiveUnchanged DEF Rename, Store!Save, StoreInv
<1>6. CASE WriteFails
  BY <1>6, LiveUnchanged, SavedUnchanged DEF WriteFails, Store!Drop
<1>7. CASE Signal
  BY <1>7, LiveUnchanged, SavedUnchanged DEF Signal
<1>8. CASE FinalFlush
  <2>1. PICK s : held = {s}
    BY <1>8 DEF FinalFlush, StoreInv
  <2>2. CASE disk' = held
    <3>1. OnDisk' = s
      BY <2>2, <2>1 DEF OnDisk
    <3> QED BY <1>8, <2>1, <3>1, LiveUnchanged DEF FinalFlush, Store!Save
  <2>3. CASE UNCHANGED disk
    BY <1>8, <2>3, LiveUnchanged, SavedUnchanged DEF FinalFlush, Store!Drop
  <2> QED BY <1>8, <2>2, <2>3 DEF FinalFlush
<1>9. CASE Exit
  BY <1>9, LiveUnchanged, SavedUnchanged DEF Exit, Store!Stop
<1>10. CASE Crash
  BY <1>10, LiveUnchanged, SavedUnchanged DEF Crash, Store!Stop
<1>11. CASE Boot
  <2>1. Snapshot' = OnDisk
    BY <1>11, OnDiskForm DEF Boot, Restore, Snapshot, Formed
  <2> QED BY <1>11, <2>1, SavedUnchanged DEF Boot, Store!Restart
<1> QED
  BY <1>1, <1>2, <1>3, <1>4, <1>5, <1>6, <1>7, <1>8, <1>9, <1>10, <1>11 DEF Next

(* A restart brings back exactly the last state that was saved, whatever    *)
(* the coordinator did while it was written, and wherever the process      *)
(* ended, on a machine that stays up (flush, write_atomic, restore).       *)
THEOREM RestartsWhereItSavedHolds == Spec => RestartsWhereItSaved
<1>1. Init => StoreInv
  BY StoreInvInit
<1>2. StoreInv /\ [Next]_vars => StoreInv'
  BY StoreInvStep
<1>3. Init => Store!Init
  BY StoreInitRefined
<1>4. StoreInv /\ [Next]_vars => [Store!Next]_(Store!svars)
  BY StoreStepRefined
<1> QED BY <1>1, <1>2, <1>3, <1>4, PTL DEF Spec, RestartsWhereItSaved, Store!Spec


-----------------------------------------------------------------------------
(* The invariant behind the ledger and the registry, of the state in        *)
(* memory and of every snapshot alike.                                     *)
Agree(s) ==
    /\ s.next \in Nat /\ s.next >= Base
    /\ DOMAIN s.registry \subseteq IntegerIds \cup (Base..s.next - 1)
    /\ s.claims \subseteq DOMAIN s.registry
    /\ DOMAIN s.alive = DOMAIN s.registry
    /\ \A u \in DOMAIN s.uuids : s.uuids[u] \in DOMAIN s.registry /\ s.uuids[u] >= Base
    /\ \A id \in DOMAIN s.registry : id >= Base => \E u \in DOMAIN s.uuids : s.uuids[u] = id
    /\ \A u, v \in DOMAIN s.uuids : s.uuids[u] = s.uuids[v] => u = v
    /\ \A id \in DOMAIN s.registry :
         s.registry[id] = Verifier(s.registry[id].form, s.registry[id].value)

LedgerInv ==
    /\ setup \in Setups
    /\ Agree(Snapshot)
    /\ \A s \in held \cup disk : Agree(s)
    /\ DOMAIN pending \subseteq Base..next - 1
    /\ DOMAIN pending \cap DOMAIN registry = {}

LEMMA AgreeFresh == Agree(FreshSnapshot)
  BY IdentityAssumption DEF Agree, FreshSnapshot

LEMMA LedgerInvInit == Init => LedgerInv
<1> SUFFICES ASSUME Init PROVE LedgerInv
  OBVIOUS
<1>1. Snapshot = FreshSnapshot
  BY DEF Init, Fresh, Snapshot, FreshSnapshot
<1> QED BY <1>1, AgreeFresh DEF Init, Fresh, NothingRemembered, LedgerInv

(* The parts of a step that touch the ledger and the registry.              *)
LEMMA RegisterKeepsLedger ==
    ASSUME LedgerInv, NEW c \in Clients, NEW p, Register(c, p)
    PROVE  /\ Agree(Snapshot)'
           /\ DOMAIN pending' \subseteq Base..next' - 1
           /\ DOMAIN pending' \cap DOMAIN registry' = {}
<1> DEFINE raw == Raw[c]
           id  == Target(raw)
<1> USE IdentityAssumption
<1>1. /\ id \notin DOMAIN registry
      /\ registry' = Bind(registry, id, BoundAs(p)) /\ alive' = Bind(alive, id, now)
      /\ claims' = claims
      /\ pending' = Forget(Noted(raw), id)
      /\ uuids' = IF id \in DOMAIN Noted(raw) THEN Bind(uuids, Noted(raw)[id], id) ELSE uuids
      /\ next' = IF MintsFor(raw) THEN next + 1 ELSE next
  BY DEF Register, Refused, Minted
<1>2. BoundAs(p) = Verifier(BoundAs(p).form, BoundAs(p).value)
  BY DEF BoundAs, Verifier
<1>3. CASE raw \in IntegerIds
  <2>1. id = raw /\ Noted(raw) = pending /\ ~ MintsFor(raw) /\ id \notin DOMAIN pending
    BY <1>3 DEF Target, Known, Resolve, Noted, MintsFor, LedgerInv
  <2>2. uuids' = uuids /\ next' = next /\ pending' = Forget(pending, id)
    BY <1>1, <2>1
  <2> HIDE DEF id, raw
  <2> QED BY <1>1, <1>2, <1>3, <2>1, <2>2 DEF LedgerInv, Agree, Snapshot, Bind, Forget
<1>4. CASE raw \notin IntegerIds /\ raw \in DOMAIN uuids
  BY <1>1, <1>4 DEF Target, Known, Resolve, LedgerInv, Agree, Snapshot
<1>5. CASE raw \notin IntegerIds /\ raw \notin DOMAIN uuids
  <2>1. id = next /\ Noted(raw) = Bind(pending, next, raw) /\ MintsFor(raw)
    BY <1>5 DEF Target, Known, Noted, MintsFor
  <2>2. /\ uuids' = Bind(uuids, raw, next) /\ next' = next + 1
        /\ pending' = Forget(Bind(pending, next, raw), next)
    BY <1>1, <2>1 DEF Bind
  <2>3. next \in Nat /\ next >= Base /\ next \notin DOMAIN registry
    BY <1>1, <2>1 DEF LedgerInv, Agree, Snapshot
  <2>4. \A u \in DOMAIN uuids : uuids[u] # next
    BY <2>3 DEF LedgerInv, Agree, Snapshot
  <2> HIDE DEF id, raw
  <2>5. DOMAIN registry' = DOMAIN registry \cup {next} /\ DOMAIN alive' = DOMAIN registry'
    BY <1>1, <2>1 DEF Bind, LedgerInv, Agree, Snapshot
  <2>6. /\ DOMAIN uuids' = DOMAIN uuids \cup {raw} /\ uuids'[raw] = next
        /\ \A u \in DOMAIN uuids : uuids'[u] = uuids[u]
    BY <2>2, <1>5 DEF Bind
  <2>7. DOMAIN registry' \subseteq IntegerIds \cup (Base..next' - 1)
    BY <2>2, <2>3, <2>5 DEF LedgerInv, Agree, Snapshot
  <2>8. \A x \in DOMAIN registry' :
          registry'[x] = Verifier(registry'[x].form, registry'[x].value)
    BY <1>1, <1>2, <2>1, <2>5 DEF Bind, LedgerInv, Agree, Snapshot
  <2>9. \A x \in DOMAIN registry' : x >= Base => \E u \in DOMAIN uuids' : uuids'[u] = x
    BY <2>5, <2>6 DEF LedgerInv, Agree, Snapshot
  <2>10. \A u \in DOMAIN uuids' : uuids'[u] \in DOMAIN registry' /\ uuids'[u] >= Base
    BY <2>3, <2>5, <2>6 DEF LedgerInv, Agree, Snapshot
  <2>11. \A u, v \in DOMAIN uuids' : uuids'[u] = uuids'[v] => u = v
    BY <2>4, <2>6 DEF LedgerInv, Agree, Snapshot
  <2>12. claims' \subseteq DOMAIN registry'
    BY <1>1, <2>5 DEF LedgerInv, Agree, Snapshot
  <2>13. DOMAIN pending' \subseteq Base..next' - 1 /\ DOMAIN pending' \cap DOMAIN registry' = {}
    BY <2>2, <2>3, <2>5 DEF LedgerInv, Bind, Forget
  <2>14. Agree(Snapshot)'
    BY <2>2, <2>3, <2>5, <2>7, <2>8, <2>9, <2>10, <2>11, <2>12 DEF Agree, Snapshot
  <2> QED BY <2>13, <2>14
<1> QED BY <1>3, <1>4, <1>5

LEMMA UnregisterKeepsLedger ==
    ASSUME LedgerInv, NEW id, Unregister(id), UNCHANGED <<next, pending>>
    PROVE  /\ Agree(Snapshot)'
           /\ DOMAIN pending' \subseteq Base..next' - 1
           /\ DOMAIN pending' \cap DOMAIN registry' = {}
  BY DEF Unregister, LedgerInv, Agree, Snapshot, Forget

(* Challenges and proofs mint ids, and so do registrations that are         *)
(* refused.                                                                *)
LEMMA MintKeepsLedger ==
    ASSUME LedgerInv, NEW c \in Clients, Minted(Raw[c]),
           \/ pending' = Noted(Raw[c])
           \/ pending' = Forget(Noted(Raw[c]), Target(Raw[c])),
           UNCHANGED <<registry, alive, uuids, claims>>
    PROVE  /\ Agree(Snapshot)'
           /\ DOMAIN pending' \subseteq Base..next' - 1
           /\ DOMAIN pending' \cap DOMAIN registry' = {}
<1> USE IdentityAssumption DEF Minted
<1>1. next' \in {next, next + 1} /\ next \in Nat /\ next >= Base
  BY DEF LedgerInv, Agree, Snapshot
<1>2. Agree(Snapshot)'
  BY <1>1 DEF LedgerInv, Agree, Snapshot
<1>3. DOMAIN Noted(Raw[c]) \subseteq Base..next' - 1
  BY <1>1 DEF LedgerInv, Noted, MintsFor, Bind
<1>4. DOMAIN Noted(Raw[c]) \cap DOMAIN registry = {}
  <2>1. next \notin DOMAIN registry
    BY <1>1 DEF LedgerInv, Agree, Snapshot
  <2> QED BY <2>1 DEF LedgerInv, Noted, Bind
<1>5. DOMAIN pending' \subseteq DOMAIN Noted(Raw[c])
  BY DEF Forget
<1> QED BY <1>2, <1>3, <1>4, <1>5


Sound ==
    /\ Agree(Snapshot)
    /\ DOMAIN pending \subseteq Base..next - 1
    /\ DOMAIN pending \cap DOMAIN registry = {}

LEMMA HandlerKeepsLedger == ASSUME LedgerInv, Handler PROVE Sound' /\ UNCHANGED setup
<1> USE DEF Sound
<1>1. setup.team \subseteq Clients
  BY IdentityAssumption DEF LedgerInv
<1>2. ASSUME NEW c \in setup.team, NEW p \in Presented(c), Register(c, p)
      PROVE  Sound' /\ UNCHANGED setup
  BY <1>1, <1>2, RegisterKeepsLedger DEF Register
<1>3. ASSUME NEW c \in setup.team, NEW p \in Presented(c), RegisterRefused(c, p)
      PROVE  Sound' /\ UNCHANGED setup
  BY <1>1, <1>3, MintKeepsLedger DEF RegisterRefused
<1>4. ASSUME NEW c \in setup.team, NEW p \in Presented(c), Deregister(c, p)
      PROVE  Sound' /\ UNCHANGED setup
  BY <1>4, UnregisterKeepsLedger DEF Deregister
<1>5. ASSUME NEW c \in setup.team, NEW p \in Presented(c), Heartbeat(c, p)
      PROVE  Sound' /\ UNCHANGED setup
  <2>1. UNCHANGED <<setup, registry, uuids, next, claims, pending>>
    BY <1>5 DEF Heartbeat
  <2>2. DOMAIN alive' = DOMAIN registry
    <3>1. DOMAIN alive = DOMAIN registry
      BY DEF LedgerInv, Agree, Snapshot
    <3>2. alive' = alive \/ \E id \in DOMAIN registry : alive' = Bind(alive, id, now)
      BY <1>5 DEF Heartbeat
    <3> QED BY <3>1, <3>2 DEF Bind
  <2>3. Agree([Snapshot EXCEPT !.alive = alive'])
    BY <2>2 DEF LedgerInv, Agree, Snapshot
  <2>4. Snapshot' = [Snapshot EXCEPT !.alive = alive']
    BY <2>1 DEF Snapshot
  <2> QED BY <2>1, <2>3, <2>4 DEF LedgerInv, Agree
<1>6. ASSUME NEW c \in setup.team, NEW p \in Presented(c), Claim(c, p)
      PROVE  Sound' /\ UNCHANGED setup
  BY <1>6 DEF Claim, LedgerInv, Agree, Snapshot
<1>7. ASSUME NEW c \in setup.team, Challenge(c) PROVE Sound' /\ UNCHANGED setup
  BY <1>1, <1>7, MintKeepsLedger DEF Challenge
<1>8. ASSUME NEW c \in setup.team, Prove(c) PROVE Sound' /\ UNCHANGED setup
  BY <1>1, <1>8, MintKeepsLedger DEF Prove
<1>9. ASSUME Sweep PROVE Sound' /\ UNCHANGED setup
  BY <1>9 DEF Sweep, volatile, LedgerInv, Agree, Snapshot
<1> QED BY <1>2, <1>3, <1>4, <1>5, <1>6, <1>7, <1>8, <1>9 DEF Handler

LEMMA RestartKeepsLedger ==
    ASSUME StoreInv, LedgerInv, Restore(OnDisk) PROVE Sound'
<1>1. Agree(OnDisk)
  <2>1. CASE disk = {}
    BY <2>1, AgreeFresh DEF OnDisk
  <2>2. CASE disk # {}
    <3> (CHOOSE s \in disk : TRUE) \in disk
      BY <2>2
    <3> QED BY <2>2 DEF OnDisk, LedgerInv
  <2> QED BY <2>1, <2>2
<1>2. Snapshot' = OnDisk
  BY OnDiskForm DEF Restore, Snapshot, Formed
<1> QED BY <1>1, <1>2 DEF Sound, Agree, Restore

LEMMA LedgerInvStep == StoreInv /\ LedgerInv /\ [Next]_vars => LedgerInv'
<1> SUFFICES ASSUME StoreInv, LedgerInv, [Next]_vars PROVE LedgerInv'
  OBVIOUS
<1>1. ASSUME UNCHANGED identityVars PROVE Sound' /\ UNCHANGED setup
  BY <1>1 DEF identityVars, durable, volatile, LedgerInv, Sound, Agree, Snapshot
<1>2. ASSUME UNCHANGED <<held, disk>>, Sound', UNCHANGED setup PROVE LedgerInv'
  BY <1>2 DEF LedgerInv, Sound, Agree
<1>3. ASSUME (held' \cup disk') \subseteq (held \cup disk), UNCHANGED identityVars
      PROVE  LedgerInv'
  BY <1>1, <1>3 DEF LedgerInv, Sound, Agree
<1>4. CASE UNCHANGED vars
  BY <1>3, <1>4 DEF vars, storeVars
<1>5. CASE Serve
  BY <1>2, <1>5, HandlerKeepsLedger DEF Serve
<1>6. CASE Time
  <2>1. Sound' /\ UNCHANGED setup
    BY <1>6 DEF Time, Tick, durable, volatile, LedgerInv, Sound, Agree, Snapshot
  <2> QED BY <1>2, <1>6, <2>1 DEF Time, storeVars
<1>7. CASE TakeSnapshot
  <2>1. held' = {Snapshot} /\ UNCHANGED <<identityVars, disk>>
    BY <1>7 DEF TakeSnapshot
  <2>2. \A s : Agree(s)' <=> Agree(s)
    BY DEF Agree
  <2> QED BY <1>1, <2>1, <2>2 DEF LedgerInv, Sound
<1>8. CASE Rename
  BY <1>3, <1>8 DEF Rename
<1>9. CASE WriteFails
  BY <1>3, <1>9 DEF WriteFails
<1>10. CASE Signal
  BY <1>3, <1>10 DEF Signal
<1>11. CASE FinalFlush
  BY <1>3, <1>11 DEF FinalFlush
<1>12. CASE Exit
  BY <1>3, <1>12 DEF Exit
<1>13. CASE Crash
  BY <1>3, <1>13 DEF Crash
<1>14. CASE Boot
  BY <1>2, <1>14, RestartKeepsLedger DEF Boot
<1> QED
  BY <1>4, <1>5, <1>6, <1>7, <1>8, <1>9, <1>10, <1>11, <1>12, <1>13, <1>14 DEF Next

LEMMA LedgerInvAgrees == LedgerInv => LedgerAndRegistryAgree
<1> SUFFICES ASSUME LedgerInv PROVE LedgerAndRegistryAgree
  OBVIOUS
<1>1. {uuids[u] : u \in DOMAIN uuids} = {id \in DOMAIN registry : id >= Base}
  BY DEF LedgerInv, Agree, Snapshot
<1>2. next \in Nat /\ DOMAIN registry \subseteq IntegerIds \cup (Base..next - 1)
  BY DEF LedgerInv, Agree, Snapshot
<1>3. \A id \in DOMAIN registry : id < next \/ id < Base
  <2>1. Base \in Nat /\ \A id \in IntegerIds : id \in Nat /\ id < Base
    BY IdentityAssumption
  <2>2. \A id \in Base..next - 1 : id < next
    BY <1>2, <2>1
  <2> QED BY <1>2, <2>1, <2>2
<1> QED BY <1>1, <1>3 DEF LedgerInv, Agree, Snapshot, LedgerAndRegistryAgree

(* Whoever holds ground is registered, has a liveness stamp, and answers to *)
(* one UUID if its id was minted: in every reachable state, before and     *)
(* after restarts (register, unregister_robot, restore).                   *)
THEOREM LedgerAndRegistryAgreeHolds == Spec => []LedgerAndRegistryAgree
<1>1. Init => StoreInv /\ LedgerInv
  BY StoreInvInit, LedgerInvInit
<1>2. StoreInv /\ LedgerInv /\ [Next]_vars => StoreInv' /\ LedgerInv'
  BY StoreInvStep, LedgerInvStep
<1> QED BY <1>1, <1>2, LedgerInvAgrees, PTL DEF Spec

-----------------------------------------------------------------------------
(* Tokens.                                                                 *)
LEMMA TokensStep == TokensDieWithRegistration /\ [Next]_vars => TokensDieWithRegistration'
<1> SUFFICES ASSUME TokensDieWithRegistration, [Next]_vars PROVE TokensDieWithRegistration'
  OBVIOUS
<1> USE DEF TokensDieWithRegistration
<1>1. ASSUME UNCHANGED <<registry, tokens>> PROVE TokensDieWithRegistration'
  BY <1>1
<1>2. ASSUME NEW c, NEW p, Register(c, p) PROVE TokensDieWithRegistration'
  BY <1>2 DEF Register, Refused, Bind
<1>3. ASSUME NEW c, NEW p, Deregister(c, p) PROVE TokensDieWithRegistration'
  BY <1>3 DEF Deregister, Unregister, Forget
<1>4. ASSUME NEW c, Prove(c) PROVE TokensDieWithRegistration'
  <2>1. UNCHANGED registry
    BY <1>4 DEF Prove
  <2>2. CASE UNCHANGED tokens
    BY <2>1, <2>2
  <2>3. ASSUME NEW id, NEW k, MayProve(id, k), Issue(id, k) PROVE TokensDieWithRegistration'
    <3> DEFINE new == Token(k, id, now + TokenTtl, id \in DOMAIN registry)
    <3>1. tokens' \subseteq tokens \cup {new}
      BY <2>3 DEF Issue
    <3>2. new.known => /\ new.robot \in DOMAIN registry
                         /\ registry[new.robot] = Verifier("did", new.value)
      BY <2>3 DEF MayProve, Token
    <3> HIDE DEF new
    <3> QED BY <2>1, <3>1, <3>2
  <2> QED BY <1>4, <2>2, <2>3 DEF Prove
<1>5. ASSUME NEW s, Restore(s) PROVE TokensDieWithRegistration'
  BY <1>5 DEF Restore
<1>6. ASSUME NEW c, NEW p, \/ RegisterRefused(c, p) \/ Heartbeat(c, p)
                           \/ Claim(c, p) \/ Challenge(c)
      PROVE  TokensDieWithRegistration'
  BY <1>1, <1>6 DEF RegisterRefused, Heartbeat, Claim, Challenge
<1>7. CASE Handler
  BY <1>1, <1>2, <1>3, <1>4, <1>6, <1>7 DEF Handler, Sweep, volatile
<1>8. CASE ~ Handler
  BY <1>1, <1>5, <1>8 DEF Next, Serve, Time, Tick, TakeSnapshot, Rename, WriteFails, Signal,
     FinalFlush, Exit, Crash, Boot, vars, identityVars, durable, volatile
<1> QED BY <1>7, <1>8

(* No token issued to a registered robot outlives its registration, or      *)
(* stands for a key other than the one registered (prove_identity,         *)
(* unregister_robot).                                                      *)
THEOREM TokensDieWithRegistrationHolds == Spec => []TokensDieWithRegistration
<1>1. Init => TokensDieWithRegistration
  BY DEF Init, NothingRemembered, TokensDieWithRegistration
<1> QED BY <1>1, TokensStep, PTL DEF Spec

-----------------------------------------------------------------------------
(* Keys: what the verification cache holds, and who is in it.               *)
KeyInv ==
    /\ \A v \in verified : v[1] \in DOMAIN registry /\ registry[v[1]] = Verifier("pass", v[2])
    /\ \A id \in accepted : id \in DOMAIN registry /\ <<id, registry[id].value>> \in verified

LEMMA RememberKeepsKeys ==
    ASSUME KeyInv, NEW id, NEW p, Remember(id, p), UNCHANGED registry PROVE KeyInv'
<1>1. CASE UNCHANGED <<verified, accepted>>
  BY <1>1 DEF KeyInv
<1>2. CASE id \in DOMAIN registry /\ p.form # "tok" /\ Authenticates(id, p)
  <2>1. verified' = verified \cup {<<id, p.value>>} /\ accepted' = accepted \cup {id}
    BY <1>2 DEF Remember
  <2>2. registry[id] = Verifier("pass", p.value)
    BY <1>2 DEF Authenticates, Cached, Matches, KeyInv
  <2> QED BY <1>2, <2>1, <2>2 DEF KeyInv, Verifier
<1> QED BY <1>1, <1>2 DEF Remember

LEMMA KeyInvStep == KeyInv /\ [Next]_vars => KeyInv'
<1> SUFFICES ASSUME KeyInv, [Next]_vars PROVE KeyInv'
  OBVIOUS
<1>1. ASSUME UNCHANGED <<registry, verified, accepted>> PROVE KeyInv'
  BY <1>1 DEF KeyInv
<1>2. ASSUME NEW c, NEW p, Register(c, p) PROVE KeyInv'
  <2> PICK id : id = Target(Raw[c])
    OBVIOUS
  <2>1. id \notin DOMAIN registry /\ registry' = Bind(registry, id, BoundAs(p))
    BY <1>2 DEF Register, Refused
  <2>2. CASE p.form = "pass"
    <3>1. verified' = verified \cup {<<id, p.value>>} /\ accepted' = accepted \cup {id}
      BY <1>2, <2>2 DEF Register
    <3>2. /\ registry'[id] = Verifier("pass", p.value) /\ registry'[id].value = p.value
          /\ DOMAIN registry' = DOMAIN registry \cup {id}
          /\ \A x \in DOMAIN registry : registry'[x] = registry[x]
      BY <2>1, <2>2 DEF Bind, BoundAs, Verifier
    <3>3. \A v \in verified' :
             v[1] \in DOMAIN registry' /\ registry'[v[1]] = Verifier("pass", v[2])
      BY <3>1, <3>2 DEF KeyInv
    <3>4. \A x \in accepted' : x \in DOMAIN registry' /\ <<x, registry'[x].value>> \in verified'
      BY <3>1, <3>2 DEF KeyInv
    <3> QED BY <3>3, <3>4 DEF KeyInv
  <2>3. CASE p.form # "pass"
    <3>1. UNCHANGED <<verified, accepted>>
      BY <1>2, <2>3 DEF Register
    <3> QED BY <2>1, <3>1 DEF KeyInv, Bind
  <2> QED BY <2>2, <2>3
<1>3. ASSUME NEW c, NEW p, Deregister(c, p) PROVE KeyInv'
  BY <1>3 DEF Deregister, Unregister, Forget, KeyInv
<1>4. ASSUME NEW c, NEW p, Heartbeat(c, p) \/ Claim(c, p) PROVE KeyInv'
  BY <1>4, RememberKeepsKeys DEF Heartbeat, Claim
<1>5. ASSUME NEW s, Restore(s) PROVE KeyInv'
  BY <1>5 DEF Restore, KeyInv
<1>6. ASSUME NEW c, NEW p, RegisterRefused(c, p) \/ Challenge(c) \/ Prove(c) PROVE KeyInv'
  BY <1>1, <1>6 DEF RegisterRefused, Challenge, Prove
<1>7. CASE Handler
  BY <1>1, <1>2, <1>3, <1>4, <1>6, <1>7 DEF Handler, Sweep, volatile
<1>8. CASE ~ Handler
  BY <1>1, <1>5, <1>8 DEF Next, Serve, Time, Tick, TakeSnapshot, Rename, WriteFails, Signal,
     FinalFlush, Exit, Crash, Boot, vars, identityVars, durable, volatile
<1> QED BY <1>7, <1>8

LEMMA KeyInvAccepts == LedgerInv /\ KeyInv => RightKeyIsAccepted
<1> SUFFICES ASSUME LedgerInv, KeyInv,
                    NEW id \in DOMAIN registry, registry[id].form = "pass"
             PROVE  \/ Authenticates(id, Secret(registry[id].value))
                    \/ id \notin accepted /\ Throttled(id)
  BY DEF RightKeyIsAccepted
<1> DEFINE p == Secret(registry[id].value)
<1>1. p.form = "pass" /\ p.value = registry[id].value
  BY DEF Secret
<1>2. Matches(id, p)
  BY <1>1 DEF Matches, Verifier, LedgerInv, Agree, Snapshot
<1>3. id \in accepted => Cached(id, p)
  BY <1>1 DEF Cached, KeyInv
<1> QED BY <1>2, <1>3 DEF Authenticates

(* Nobody locks a robot out: its own secret is refused only in a cool-down, *)
(* and never once accepted (validate_key's cache and throttle).            *)
THEOREM RightKeyIsAcceptedHolds == Spec => []RightKeyIsAccepted
<1>1. Init => StoreInv /\ LedgerInv /\ KeyInv
  BY StoreInvInit, LedgerInvInit DEF Init, NothingRemembered, KeyInv
<1>2. StoreInv /\ LedgerInv /\ KeyInv /\ [Next]_vars => StoreInv' /\ LedgerInv' /\ KeyInv'
  BY StoreInvStep, LedgerInvStep, KeyInvStep
<1> QED BY <1>1, <1>2, KeyInvAccepts, PTL DEF Spec


-----------------------------------------------------------------------------
(* A graceful shutdown.                                                    *)
Standing(a, bound) == a[1] \in DOMAIN bound /\ bound[a[1]] = a[2]

AckInv ==
    \A a \in acknowledged :
        /\ Standing(a, registry)
        /\ \A s \in held : Standing(a, s.registry)
        /\ final = "saved" => Standing(a, OnDisk.registry)

(* No handler binds another key to an id that is registered.                *)
LEMMA BindingsStand ==
    Handler => \A id \in DOMAIN registry \cap DOMAIN registry' : registry'[id] = registry[id]
<1> SUFFICES ASSUME Handler
             PROVE \A id \in DOMAIN registry \cap DOMAIN registry' : registry'[id] = registry[id]
  OBVIOUS
<1>1. CASE UNCHANGED registry
  BY <1>1
<1>2. ASSUME NEW c, NEW p, Register(c, p)
      PROVE  \A id \in DOMAIN registry \cap DOMAIN registry' : registry'[id] = registry[id]
  BY <1>2 DEF Register, Refused, Bind
<1>3. ASSUME NEW c, NEW p, Deregister(c, p)
      PROVE  \A id \in DOMAIN registry \cap DOMAIN registry' : registry'[id] = registry[id]
  BY <1>3 DEF Deregister, Unregister, Forget
<1>4. CASE \E c, p : Register(c, p) \/ Deregister(c, p)
  BY <1>2, <1>3, <1>4
<1> QED BY <1>1, <1>4 DEF Handler, RegisterRefused, Heartbeat, Claim, Challenge, Prove, Sweep

LEMMA AckInvStep == StoreInv /\ AckInv /\ [Next]_vars => AckInv'
<1> SUFFICES ASSUME StoreInv, AckInv, [Next]_vars PROVE AckInv'
  OBVIOUS
<1>1. ASSUME acknowledged' = {} PROVE AckInv'
  BY <1>1 DEF AckInv
<1>2. ASSUME UNCHANGED <<registry, disk, acknowledged, final>>, held' \subseteq held PROVE AckInv'
  BY <1>2, SavedUnchanged DEF AckInv, Standing
<1>3. CASE Serve
  BY <1>3, BindingsStand, SavedUnchanged DEF Serve, AckInv, Standing
<1>4. CASE TakeSnapshot
  BY <1>4, SavedUnchanged
  DEF TakeSnapshot, AckInv, Standing, Snapshot, identityVars, durable
<1>5. ASSUME disk' = held, held # {}, held' = {}, UNCHANGED <<registry, acknowledged>>
      PROVE  AckInv'
  <2>1. PICK s : held = {s}
    BY <1>5 DEF StoreInv
  <2>2. OnDisk' = s
    BY <1>5, <2>1 DEF OnDisk
  <2> QED BY <1>5, <2>1, <2>2 DEF AckInv, Standing
<1>6. CASE Rename
  BY <1>5, <1>6 DEF Rename, identityVars, durable
<1>7. CASE FinalFlush
  <2>1. CASE disk' = held
    BY <1>5, <1>7, <2>1 DEF FinalFlush, identityVars, durable
  <2>2. CASE final' = "failed"
    BY <1>7, <2>2 DEF FinalFlush, identityVars, durable, AckInv, Standing
  <2> QED BY <1>7, <2>1, <2>2 DEF FinalFlush
<1>8. CASE Signal
  BY <1>8 DEF Signal, identityVars, durable, AckInv, Standing
<1>9. CASE Crash \/ Boot
  BY <1>1, <1>9 DEF Crash, Boot
<1>10. CASE Time \/ WriteFails \/ Exit \/ UNCHANGED vars
  BY <1>2, <1>10 DEF Time, Tick, WriteFails, Exit, vars, storeVars, identityVars, durable
<1> QED BY <1>3, <1>4, <1>6, <1>7, <1>8, <1>9, <1>10 DEF Next

(* A registration standing when a shutdown was asked for survives it, if    *)
(* the final write does: whatever is still served while it drains (main's  *)
(* graceful shutdown and the flusher).                                     *)
THEOREM AcknowledgedSurvivesShutdownHolds == Spec => []AcknowledgedSurvivesShutdown
<1>1. Init => StoreInv /\ AckInv
  BY StoreInvInit DEF Init, AckInv
<1>2. StoreInv /\ AckInv /\ [Next]_vars => StoreInv' /\ AckInv'
  BY StoreInvStep, AckInvStep
<1>3. AckInv => AcknowledgedSurvivesShutdown
  BY DEF AckInv, Standing, AcknowledgedSurvivesShutdown
<1> QED BY <1>1, <1>2, <1>3, PTL DEF Spec

-----------------------------------------------------------------------------
(* Bounds, again of the state in memory and of every snapshot: the registry *)
(* is full at MaxRobots and a run of failures at MaxFailures.              *)
Sized(s) ==
    /\ s.next <= Base + MintBound
    /\ IsFiniteSet(DOMAIN s.registry)
    /\ Cardinality(DOMAIN s.registry) <= MaxRobots

RunsCounted ==
    \A id \in DOMAIN failures :
        /\ failures[id] = [count |-> failures[id].count, since |-> failures[id].since]
        /\ failures[id].count \in 1..MaxFailures

SizeInv ==
    /\ Sized(Snapshot)
    /\ \A s \in held \cup disk : Sized(s)
    /\ RunsCounted

LEMMA SizedFresh == Sized(FreshSnapshot)
<1>1. DOMAIN FreshSnapshot.registry = {} /\ FreshSnapshot.next = Base
  BY DEF FreshSnapshot
<1>2. Base \in Nat /\ MintBound \in Nat /\ MaxRobots \in Nat
  BY IdentityAssumption
<1> QED BY <1>1, <1>2, FS_EmptySet DEF Sized

LEMMA SizeInvInit == Init => SizeInv
<1> SUFFICES ASSUME Init PROVE SizeInv
  OBVIOUS
<1>1. Snapshot = FreshSnapshot
  BY DEF Init, Fresh, Snapshot, FreshSnapshot
<1> QED BY <1>1, SizedFresh DEF Init, NothingRemembered, SizeInv, RunsCounted

(* What the parts of the handlers do to them.                              *)
LEMMA MintBounded ==
    ASSUME LedgerInv, Sized(Snapshot), NEW raw, Minted(raw)
    PROVE  next' <= Base + MintBound
<1>1. next \in Nat /\ next <= Base + MintBound
  BY DEF LedgerInv, Agree, Sized, Snapshot
<1>2. Base \in Nat /\ MintBound \in Nat
  BY IdentityAssumption
<1> QED BY <1>1, <1>2 DEF Minted

LEMMA RegisterKeepsSize ==
    ASSUME LedgerInv, Sized(Snapshot), NEW c, NEW p, Register(c, p)
    PROVE  Sized(Snapshot)'
<1> PICK id : id = Target(Raw[c])
  OBVIOUS
<1>1. /\ Minted(Raw[c]) /\ registry' = Bind(registry, id, BoundAs(p))
      /\ id \notin DOMAIN registry /\ ~ Cardinality(DOMAIN registry) >= MaxRobots
  BY DEF Register, Refused
<1>2. DOMAIN registry' = DOMAIN registry \cup {id}
  BY <1>1 DEF Bind
<1>3. IsFiniteSet(DOMAIN registry)
  BY DEF Sized, Snapshot
<1>4. Cardinality(DOMAIN registry) \in Nat
  BY <1>3, FS_CardinalityType
<1>5. /\ IsFiniteSet(DOMAIN registry')
      /\ Cardinality(DOMAIN registry') = Cardinality(DOMAIN registry) + 1
  BY <1>1, <1>2, <1>3, FS_AddElement
<1>6. MaxRobots \in Nat
  BY IdentityAssumption
<1>7. Cardinality(DOMAIN registry') <= MaxRobots
  BY <1>1, <1>4, <1>5, <1>6
<1>8. next' <= Base + MintBound
  BY <1>1, MintBounded
<1> QED BY <1>5, <1>7, <1>8 DEF Sized, Snapshot

LEMMA UnregisterKeepsSize ==
    ASSUME Sized(Snapshot), RunsCounted, NEW id, Unregister(id), UNCHANGED next
    PROVE  Sized(Snapshot)' /\ RunsCounted'
<1>1. registry' = Forget(registry, id) /\ failures' = Forget(failures, id)
  BY DEF Unregister
<1>2. DOMAIN registry' \subseteq DOMAIN registry /\ IsFiniteSet(DOMAIN registry)
  BY <1>1 DEF Forget, Sized, Snapshot
<1>3. /\ IsFiniteSet(DOMAIN registry')
      /\ Cardinality(DOMAIN registry') <= Cardinality(DOMAIN registry)
  BY <1>2, FS_Subset
<1>4. Cardinality(DOMAIN registry) \in Nat /\ Cardinality(DOMAIN registry') \in Nat
  BY <1>2, <1>3, FS_CardinalityType
<1>5. Cardinality(DOMAIN registry) <= MaxRobots /\ MaxRobots \in Nat
  BY IdentityAssumption DEF Sized, Snapshot
<1>6. Cardinality(DOMAIN registry') <= MaxRobots
  BY <1>3, <1>4, <1>5
<1>7. RunsCounted'
  BY <1>1 DEF Forget, RunsCounted
<1> QED BY <1>3, <1>6, <1>7 DEF Sized, Snapshot

LEMMA RememberKeepsCount ==
    ASSUME RunsCounted, NEW id, NEW p, Remember(id, p) PROVE RunsCounted'
<1>1. MaxFailures \in Nat /\ MaxFailures # 0
  BY IdentityAssumption
<1>2. CASE failures' = failures
  BY <1>2 DEF RunsCounted
<1>3. CASE failures' = Forget(failures, id)
  BY <1>3 DEF Forget, RunsCounted
<1>4. ASSUME NEW run, failures' = Bind(failures, id, run),
             run = [count |-> run.count, since |-> run.since],
             run.count \in 1..MaxFailures
      PROVE  RunsCounted'
  BY <1>4 DEF Bind, RunsCounted
<1>5. CASE failures' = Missed(id)
  <2>1. CASE id \in DOMAIN failures /\ failures[id].count < MaxFailures
    <3> DEFINE old == failures[id]
               run == [old EXCEPT !.count = old.count + 1]
    <3>1. old = [count |-> old.count, since |-> old.since] /\ old.count \in 1..MaxFailures
      BY <2>1 DEF RunsCounted
    <3>2. failures' = Bind(failures, id, run)
      BY <1>5, <2>1 DEF Missed
    <3>3. old.count < MaxFailures
      BY <2>1
    <3> HIDE DEF old
    <3>4. run = [count |-> run.count, since |-> run.since] /\ run.count = old.count + 1
      BY <3>1
    <3>5. run.count \in 1..MaxFailures
      BY <1>1, <3>1, <3>3, <3>4
    <3> HIDE DEF run
    <3> QED BY <1>4, <3>2, <3>4, <3>5
  <2>2. CASE ~ (id \in DOMAIN failures /\ failures[id].count < MaxFailures)
    <3> DEFINE run == [count |-> 1, since |-> now]
    <3>1. failures' = Bind(failures, id, run)
      BY <1>5, <2>2 DEF Missed
    <3>2. run = [count |-> run.count, since |-> run.since] /\ run.count \in 1..MaxFailures
      BY <1>1
    <3> HIDE DEF run
    <3> QED BY <1>4, <3>1, <3>2
  <2> QED BY <2>1, <2>2
<1> QED BY <1>2, <1>3, <1>5 DEF Remember

LEMMA HandlerKeepsSizes ==
    ASSUME LedgerInv, Sized(Snapshot), RunsCounted, Handler
    PROVE  Sized(Snapshot)' /\ RunsCounted'
<1>1. ASSUME UNCHANGED <<registry, failures>>, next' <= Base + MintBound
      PROVE  Sized(Snapshot)' /\ RunsCounted'
  BY <1>1 DEF Sized, Snapshot, RunsCounted
<1>2. ASSUME UNCHANGED <<registry, next>> PROVE Sized(Snapshot)'
  BY <1>2 DEF Sized, Snapshot
<1>3. ASSUME NEW c, NEW p, Register(c, p) PROVE Sized(Snapshot)' /\ RunsCounted'
  <2>1. UNCHANGED failures
    BY <1>3 DEF Register
  <2> QED BY <1>3, <2>1, RegisterKeepsSize DEF RunsCounted
<1>4. ASSUME NEW c, NEW p, Deregister(c, p) PROVE Sized(Snapshot)' /\ RunsCounted'
  BY <1>4, UnregisterKeepsSize DEF Deregister
<1>5. ASSUME NEW c, NEW p, Heartbeat(c, p) \/ Claim(c, p)
      PROVE  Sized(Snapshot)' /\ RunsCounted'
  BY <1>2, <1>5, RememberKeepsCount DEF Heartbeat, Claim
<1>6. ASSUME NEW c, NEW p, RegisterRefused(c, p) \/ Challenge(c) \/ Prove(c)
      PROVE  Sized(Snapshot)' /\ RunsCounted'
  BY <1>1, <1>6, MintBounded DEF RegisterRefused, Challenge, Prove
<1>7. CASE Sweep
  BY <1>2, <1>7 DEF Sweep, volatile, RunsCounted
<1> QED BY <1>3, <1>4, <1>5, <1>6, <1>7 DEF Handler

LEMMA RestartKeepsSizes ==
    ASSUME StoreInv, SizeInv, Restore(OnDisk) PROVE Sized(Snapshot)' /\ RunsCounted'
<1>1. Sized(OnDisk)
  <2>1. CASE disk = {}
    BY <2>1, SizedFresh DEF OnDisk
  <2>2. CASE disk # {}
    <3> (CHOOSE s \in disk : TRUE) \in disk
      BY <2>2
    <3> QED BY <2>2 DEF OnDisk, SizeInv
  <2> QED BY <2>1, <2>2
<1>2. Snapshot' = OnDisk
  BY OnDiskForm DEF Restore, Snapshot, Formed
<1>3. RunsCounted'
  BY DEF Restore, RunsCounted
<1> QED BY <1>1, <1>2, <1>3 DEF Sized

LEMMA SizeInvStep == StoreInv /\ LedgerInv /\ SizeInv /\ [Next]_vars => SizeInv'
<1> SUFFICES ASSUME StoreInv, LedgerInv, SizeInv, [Next]_vars PROVE SizeInv'
  OBVIOUS
<1>1. ASSUME UNCHANGED <<held, disk>>, Sized(Snapshot)', RunsCounted' PROVE SizeInv'
  BY <1>1 DEF SizeInv, Sized
<1>2. ASSUME UNCHANGED identityVars PROVE Sized(Snapshot)' /\ RunsCounted'
  BY <1>2 DEF identityVars, durable, volatile, SizeInv, Sized, Snapshot, RunsCounted
<1>3. ASSUME (held' \cup disk') \subseteq (held \cup disk), UNCHANGED identityVars
      PROVE  SizeInv'
  BY <1>2, <1>3 DEF SizeInv, Sized
<1>4. CASE UNCHANGED vars
  BY <1>3, <1>4 DEF vars, storeVars
<1>5. CASE Serve
  BY <1>1, <1>5, HandlerKeepsSizes DEF Serve, SizeInv
<1>6. CASE Time
  BY <1>1, <1>6 DEF Time, Tick, storeVars, durable, volatile, SizeInv, Sized, Snapshot,
     RunsCounted
<1>7. CASE TakeSnapshot
  <2>1. held' = {Snapshot} /\ UNCHANGED <<identityVars, disk>>
    BY <1>7 DEF TakeSnapshot
  <2> QED BY <1>2, <2>1 DEF SizeInv, Sized
<1>8. CASE Rename \/ WriteFails \/ Signal \/ FinalFlush \/ Exit \/ Crash
  BY <1>3, <1>8 DEF Rename, WriteFails, Signal, FinalFlush, Exit, Crash
<1>9. CASE Boot
  BY <1>1, <1>9, RestartKeepsSizes DEF Boot
<1> QED BY <1>4, <1>5, <1>6, <1>7, <1>8, <1>9 DEF Next

(* The registry never outgrows its limit and no cached key outlives the     *)
(* registration it proved, also across restarts (register, validate_key,   *)
(* unregister_robot, restore).                                             *)
THEOREM IdentityTypeCorrect == Spec => []IdentityTypeOK
<1>1. Init => StoreInv /\ LedgerInv /\ KeyInv /\ SizeInv
  BY StoreInvInit, LedgerInvInit, SizeInvInit DEF Init, NothingRemembered, KeyInv
<1>2. StoreInv /\ LedgerInv /\ KeyInv /\ SizeInv /\ [Next]_vars
        => StoreInv' /\ LedgerInv' /\ KeyInv' /\ SizeInv'
  BY StoreInvStep, LedgerInvStep, KeyInvStep, SizeInvStep
<1>3. LedgerInv /\ KeyInv /\ SizeInv => IdentityTypeOK
  <2> SUFFICES ASSUME LedgerInv, KeyInv, SizeInv PROVE IdentityTypeOK
    OBVIOUS
  <2>1. /\ next \in Nat /\ next >= Base /\ next <= Base + MintBound
        /\ DOMAIN registry \subseteq IntegerIds \cup (Base..next - 1)
        /\ Base \in Nat /\ MintBound \in Nat
    BY IdentityAssumption DEF LedgerInv, SizeInv, Agree, Sized, Snapshot
  <2>2. next \in Base..Base + MintBound
    BY <2>1
  <2>3. DOMAIN registry \subseteq Ids
    BY <2>1 DEF Ids
  <2> QED BY <2>2, <2>3 DEF IdentityTypeOK, LedgerInv, KeyInv, SizeInv, Sized, Snapshot,
             RunsCounted
<1> QED BY <1>1, <1>2, <1>3, PTL DEF Spec

=============================================================================
