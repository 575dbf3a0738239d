-------------------------- MODULE WorkspaceIndexProofs --------------------------
(***************************************************************************)
(* A document without validation errors indexes to a workspace as the      *)
(* claim rules assume one, however large it is.                            *)
(*                                                                         *)
(* An index is folded together from lists.  Each fold is a recursive       *)
(* function of the length already read: Recursion shows that it exists and *)
(* has the values of its equations, NatSet takes an invariant through it.  *)
(* The forest needs one idea more: once ids are unique, the zone around    *)
(* another comes earlier in the document, so climbing always ends.         *)
(***************************************************************************)
EXTENDS WorkspaceIndex, TLAPS, WellFoundedInduction, FiniteSetTheorems

-----------------------------------------------------------------------------
(* Induction over the naturals, and functions defined by recursion on them. *)

(* Every non-empty set of naturals has a least element.                    *)
LEMMA LeastNat ==
    ASSUME NEW S, S \subseteq Nat, S # {}
    PROVE  \E n \in S : \A m \in S : n <= m
<1> DEFINE Less == { p \in Nat \X Nat : p[1] < p[2] }
<1>1. IsWellFoundedOn(Less, Nat)
  BY NatLessThanWellFounded, Zenon DEF OpToRel
<1> HIDE DEF Less
<1>2. PICK x \in S : \A y \in S : <<y, x>> \notin Less
  BY <1>1, WFMin, Zenon
<1>3. \A y \in S : ~(y < x)
  BY <1>2 DEF Less
<1> QED BY <1>3

LEMMA NatSet ==
    ASSUME NEW S, 0 \in S, \A n \in Nat : n \in S => n + 1 \in S
    PROVE  Nat \subseteq S
<1> SUFFICES ASSUME Nat \ S # {} PROVE FALSE
  OBVIOUS
<1>1. PICK m \in Nat \ S : \A n \in Nat \ S : m <= n
  <2>1. Nat \ S \in SUBSET Nat
    OBVIOUS
  <2> QED BY <2>1, LeastNat
<1>2. m # 0 /\ m - 1 \in Nat /\ ~ m <= m - 1
  BY <1>1
<1>3. m - 1 \in S /\ (m - 1) + 1 = m
  BY <1>1, <1>2
<1> QED BY <1>1, <1>2, <1>3

(* The sequence of the values that step makes of the one before.           *)
Iterates(f, base, step) ==
    \A k \in Nat : f[k] = IF k = 0 THEN base ELSE step[<<k, f[k - 1]>>]

(* Recursion over the naturals defines one.                                *)
LEMMA Recursion ==
    ASSUME NEW S, NEW base \in S, NEW step \in [Nat \X S -> S]
    PROVE  \E f \in [Nat -> S] : Iterates(f, base, step)
<1> DEFINE Upto(n) ==
        { f \in [0..n -> S] :
            /\ f[0] = base
            /\ \A k \in 1..n : f[k] = step[<<k, f[k - 1]>>] }
           Some_ == { n \in Nat : Upto(n) # {} }
<1>1. Nat \subseteq Some_
  <2>1. 0 \in Some_
    <3>1. [k \in 0..0 |-> base] \in Upto(0)
      OBVIOUS
    <3> QED BY <3>1
  <2>2. ASSUME NEW n \in Nat, n \in Some_
        PROVE  n + 1 \in Some_
    <3>1. PICK f : f \in Upto(n)
      BY <2>2
    <3> DEFINE g == [k \in 0..(n + 1) |-> IF k = n + 1 THEN step[<<k, f[n]>>] ELSE f[k]]
    <3>2. g \in [0..(n + 1) -> S]
      BY <3>1
    <3>3. g[0] = base
      BY <3>1
    <3>4. ASSUME NEW k \in 1..(n + 1)
          PROVE  g[k] = step[<<k, g[k - 1]>>]
      BY <3>1
    <3>5. g \in Upto(n + 1)
      BY <3>2, <3>3, <3>4
    <3> HIDE DEF Upto
    <3> QED BY <3>5
  <2> HIDE DEF Some_
  <2> QED BY <2>1, <2>2, NatSet
<1>2. ASSUME NEW n \in Nat, NEW m \in Nat, n <= m, NEW f \in Upto(n), NEW g \in Upto(m)
      PROVE  \A k \in 0..n : f[k] = g[k]
  <2> DEFINE Agree == { k \in Nat : k <= n => f[k] = g[k] }
  <2>1. 0 \in Agree
    OBVIOUS
  <2>2. ASSUME NEW k \in Nat, k \in Agree
        PROVE  k + 1 \in Agree
    <3>1. SUFFICES ASSUME k + 1 <= n PROVE f[k + 1] = g[k + 1]
      OBVIOUS
    <3>2. k + 1 \in 1..n /\ k + 1 \in 1..m /\ (k + 1) - 1 = k
      BY <1>2, <3>1
    <3>3. f[k] = g[k]
      BY <2>2, <3>1
    <3> QED BY <3>2, <3>3
  <2>3. Nat \subseteq Agree
    <3> HIDE DEF Agree
    <3> QED BY <2>1, <2>2, NatSet
  <2> QED BY <2>3
<1> DEFINE part(n) == CHOOSE f : f \in Upto(n)
           F == [k \in Nat |-> part(k)[k]]
<1>3. \A n \in Nat : part(n) \in Upto(n)
  BY <1>1
<1>4. F \in [Nat -> S]
  <2>1. \A k \in Nat : part(k)[k] \in S
    <3>1. \A k \in Nat : \A f \in Upto(k) : f[k] \in S
      OBVIOUS
    <3> HIDE DEF part, Upto
    <3> QED BY <1>3, <3>1
  <2> HIDE DEF part
  <2> QED BY <2>1
<1>5. ASSUME NEW k \in Nat
      PROVE  F[k] = IF k = 0 THEN base ELSE step[<<k, F[k - 1]>>]
  <2>1. CASE k = 0
    BY <1>3, <2>1
  <2>2. CASE k # 0
    <3>1. k - 1 \in Nat /\ k - 1 <= k /\ k - 1 \in 0..(k - 1) /\ k \in 1..k
      BY <2>2
    <3>2. part(k - 1)[k - 1] = part(k)[k - 1]
      <4> HIDE DEF part
      <4> QED BY <1>2, <1>3, <3>1
    <3>3. part(k)[k] = step[<<k, part(k)[k - 1]>>]
      <4> HIDE DEF part
      <4> QED BY <1>3, <3>1
    <3> HIDE DEF part
    <3> QED BY <2>2, <3>1, <3>2, <3>3
  <2> QED BY <2>1, <2>2
<1> HIDE DEF F
<1>6. Iterates(F, base, step)
  BY <1>5 DEF Iterates
<1> QED BY <1>4, <1>6

-----------------------------------------------------------------------------
(* What is kept of a sequence.                                             *)
AreKept(kept, s, T, L) ==
    kept = [i \in 0..L |-> IF i = 0 THEN << >>
                           ELSE IF s[i] \in T THEN Append(kept[i - 1], s[i]) ELSE kept[i - 1]]

LEMMA KeptExists ==
    ASSUME NEW s, NEW T, NEW L \in Nat
    PROVE  \E kept : AreKept(kept, s, T, L)
<1> DEFINE S == {m \in Nat : \E kept : AreKept(kept, s, T, m)}
<1>1. 0 \in S
  <2>1. AreKept([i \in 0..0 |-> << >>], s, T, 0)
    BY DEF AreKept
  <2> QED BY <2>1
<1>2. ASSUME NEW m \in Nat, m \in S
      PROVE  m + 1 \in S
  <2>1. PICK f : AreKept(f, s, T, m)
    BY <1>2
  <2> DEFINE next == IF s[m + 1] \in T THEN Append(f[m], s[m + 1]) ELSE f[m]
             g == [i \in 0..(m + 1) |-> IF i = m + 1 THEN next ELSE f[i]]
  <2>2. ASSUME NEW i \in 0..(m + 1)
        PROVE  g[i] = IF i = 0 THEN << >>
                      ELSE IF s[i] \in T THEN Append(g[i - 1], s[i]) ELSE g[i - 1]
    <3>1. CASE i = m + 1
      <4>1. g[i] = next /\ i # 0 /\ i - 1 = m /\ g[i - 1] = f[m]
        BY <3>1
      <4> QED BY <3>1, <4>1
    <3>2. CASE i # m + 1
      <4>1. i \in 0..m /\ g[i] = f[i] /\ (i # 0 => i - 1 \in 0..(m + 1) /\ i - 1 # m + 1)
        BY <3>2
      <4>2. i # 0 => g[i - 1] = f[i - 1]
        BY <4>1
      <4>3. f[i] = IF i = 0 THEN << >>
                   ELSE IF s[i] \in T THEN Append(f[i - 1], s[i]) ELSE f[i - 1]
        BY <2>1, <4>1 DEF AreKept
      <4> HIDE DEF g
      <4> QED BY <4>1, <4>2, <4>3
    <3> QED BY <3>1, <3>2
  <2>3. g = [i \in 0..(m + 1) |-> g[i]]
    OBVIOUS
  <2> HIDE DEF g
  <2>4. AreKept(g, s, T, m + 1)
    BY <2>2, <2>3 DEF AreKept
  <2> QED BY <2>4
<1>3. L \in S
  <2> HIDE DEF S
  <2> QED BY <1>1, <1>2, NatSet
<1> QED BY <1>3

LEMMA KeptStep ==
    ASSUME NEW s, NEW T, NEW L \in Nat, NEW kept, AreKept(kept, s, T, L)
    PROVE  /\ kept[0] = << >>
           /\ \A m \in Nat : m + 1 \in 1..L =>
                kept[m + 1] = IF s[m + 1] \in T THEN Append(kept[m], s[m + 1]) ELSE kept[m]
<1>1. \A i \in 0..L : kept[i] = IF i = 0 THEN << >>
                        ELSE IF s[i] \in T THEN Append(kept[i - 1], s[i]) ELSE kept[i - 1]
  BY Zenon DEF AreKept
<1>2. 0 \in 0..L
  OBVIOUS
<1>3. ASSUME NEW m \in Nat, m + 1 \in 1..L
      PROVE  kept[m + 1] = IF s[m + 1] \in T THEN Append(kept[m], s[m + 1]) ELSE kept[m]
  <2>1. m + 1 \in 0..L /\ m + 1 # 0 /\ (m + 1) - 1 = m
    BY <1>3
  <2> QED BY <1>1, <2>1
<1> QED BY <1>1, <1>2, <1>3

LEMMA KeepUnfolds ==
    ASSUME NEW s, NEW T, Len(s) \in Nat
    PROVE  \E kept : AreKept(kept, s, T, Len(s)) /\ Keep(s, T) = kept[Len(s)]
<1> DEFINE F == CHOOSE g : g = [i \in 0..Len(s) |-> IF i = 0 THEN << >>
                           ELSE IF s[i] \in T THEN Append(g[i - 1], s[i]) ELSE g[i - 1]]
<1>1. Keep(s, T) = F[Len(s)]
  BY Zenon DEF Keep
<1>2. PICK kept : AreKept(kept, s, T, Len(s))
  BY KeptExists
<1>3. AreKept(F, s, T, Len(s))
  BY <1>2, Zenon DEF AreKept
<1> HIDE DEF F
<1> QED BY <1>1, <1>3

(* What is kept is what was there and was asked for.                       *)
LEMMA KeepIsSound ==
    ASSUME NEW s, NEW T, Len(s) \in Nat
    PROVE  Keep(s, T) \in Seq({s[i] : i \in 1..Len(s)} \cap T)
<1> DEFINE V == {s[i] : i \in 1..Len(s)} \cap T
<1>1. PICK kept : AreKept(kept, s, T, Len(s)) /\ Keep(s, T) = kept[Len(s)]
  BY KeepUnfolds
<1> DEFINE S == {m \in Nat : m <= Len(s) => kept[m] \in Seq(V)}
<1>2. 0 \in S
  BY <1>1 DEF AreKept
<1>3. ASSUME NEW m \in Nat, m \in S
      PROVE  m + 1 \in S
  <2> SUFFICES ASSUME m + 1 <= Len(s) PROVE kept[m + 1] \in Seq(V)
    OBVIOUS
  <2>1. m + 1 \in 1..Len(s) /\ kept[m] \in Seq(V)
    BY <1>3
  <2>2. kept[m + 1] = IF s[m + 1] \in T THEN Append(kept[m], s[m + 1]) ELSE kept[m]
    BY <1>1, <2>1, KeptStep
  <2>3. s[m + 1] \in T => s[m + 1] \in V
    BY <2>1
  <2> HIDE DEF V
  <2> QED BY <2>1, <2>2, <2>3
<1>4. Len(s) \in S
  <2> HIDE DEF S
  <2> QED BY <1>2, <1>3, NatSet
<1> QED BY <1>1, <1>4

(* Nothing asked for is dropped.                                           *)
LEMMA KeepIsComplete ==
    ASSUME NEW s, NEW T, Len(s) \in Nat, NEW j \in 1..Len(s), s[j] \in T
    PROVE  \E i \in 1..Len(Keep(s, T)) : Keep(s, T)[i] = s[j]
<1> DEFINE V == {s[i] : i \in 1..Len(s)} \cap T
           Kept(q) == \E i \in 1..Len(q) : q[i] = s[j]
<1>1. PICK kept : AreKept(kept, s, T, Len(s)) /\ Keep(s, T) = kept[Len(s)]
  BY KeepUnfolds
<1> DEFINE S == {m \in Nat : m <= Len(s) => /\ kept[m] \in Seq(V)
                                            /\ j <= m => Kept(kept[m])}
<1>2. 0 \in S
  BY <1>1 DEF AreKept
<1>3. ASSUME NEW m \in Nat, m \in S
      PROVE  m + 1 \in S
  <2> SUFFICES ASSUME m + 1 <= Len(s)
               PROVE  kept[m + 1] \in Seq(V) /\ (j <= m + 1 => Kept(kept[m + 1]))
    OBVIOUS
  <2>1. m + 1 \in 1..Len(s) /\ kept[m] \in Seq(V) /\ (j <= m => Kept(kept[m]))
    BY <1>3
  <2>2. kept[m + 1] = IF s[m + 1] \in T THEN Append(kept[m], s[m + 1]) ELSE kept[m]
    BY <1>1, <2>1, KeptStep
  <2>3. s[m + 1] \in T => s[m + 1] \in V
    BY <2>1
  <2>4. j <= m + 1 => j <= m \/ j = m + 1
    OBVIOUS
  <2> HIDE DEF V
  <2>5. s[m + 1] \in T =>
          /\ kept[m + 1] \in Seq(V)
          /\ Len(kept[m + 1]) = Len(kept[m]) + 1 /\ Len(kept[m]) \in Nat
          /\ kept[m + 1][Len(kept[m]) + 1] = s[m + 1]
          /\ \A i \in 1..Len(kept[m]) : kept[m + 1][i] = kept[m][i]
    BY <2>1, <2>2, <2>3
  <2>6. CASE s[m + 1] \in T
    BY <2>1, <2>4, <2>5, <2>6
  <2>7. CASE s[m + 1] \notin T
    BY <2>1, <2>2, <2>4, <2>7
  <2> QED BY <2>6, <2>7
<1>4. Len(s) \in S
  <2> HIDE DEF S
  <2> QED BY <1>2, <1>3, NatSet
<1> QED BY <1>1, <1>4

-----------------------------------------------------------------------------
(* Keys: every spelling of a key either parser knows is in the map's order. *)
LEMMA KnownKeys ==
    ASSUME NEW k, Canonical(k) \in ZoneKeys \cup EdgeKeys
    PROVE  \E j \in 1..Len(KeyOrder) : KeyOrder[j] = k
<1>1. CASE k \in DOMAIN Alias
  BY <1>1 DEF Alias, KeyOrder
<1>2. CASE k \notin DOMAIN Alias
  <2>1. k \in ZoneKeys \cup EdgeKeys
    BY <1>2 DEF Canonical
  <2> QED BY <2>1 DEF KeyOrder, ZoneKeys, EdgeKeys, CountKeys, KeywordKeys, ZoneBools, ZoneTexts,
        ZoneNumbers, EdgeBools, EdgeTexts, EdgeNumbers, PositiveKeys, LaneKeys, DirectionKeys,
        SharedBools, SharedTexts
<1> QED BY <1>1, <1>2

LEMMA KeyOrderLength == Len(KeyOrder) = 53
BY DEF KeyOrder

(* The keys of a map are read once in the order, the known ones all of them.*)
LEMMA KeysInOrder ==
    ASSUME NEW props
    PROVE  /\ InOrder(props) \in Seq(DOMAIN props)
           /\ \A k \in DOMAIN props : Canonical(k) \in ZoneKeys \cup EdgeKeys =>
                \E i \in 1..Len(InOrder(props)) : InOrder(props)[i] = k
<1>1. Len(KeyOrder) \in Nat
  BY KeyOrderLength
<1>2. InOrder(props) \in Seq({KeyOrder[i] : i \in 1..Len(KeyOrder)} \cap DOMAIN props)
  BY <1>1, KeepIsSound DEF InOrder
<1>3. InOrder(props) \in Seq(DOMAIN props)
  BY <1>2
<1>4. ASSUME NEW k \in DOMAIN props, Canonical(k) \in ZoneKeys \cup EdgeKeys
      PROVE  \E i \in 1..Len(InOrder(props)) : InOrder(props)[i] = k
  <2>1. PICK j \in 1..Len(KeyOrder) : KeyOrder[j] = k
    BY <1>4, KnownKeys
  <2> QED BY <1>1, <2>1, KeepIsComplete DEF InOrder
<1> QED BY <1>3, <1>4

-----------------------------------------------------------------------------
(* Zone policies.                                                          *)
OptionFields == {"priority", "speed_limit", "waiting_allowed", "stop_allowed", "blocked",
                 "replan_trigger", "entry_rule", "exit_rule", "robot_class",
                 "schedule_window", "access_group"}

PolicyFields == {"kind", "capacity", "capacity_is_explicit", "requires_claim",
                 "blocks_traversal_without_grant", "blocks_entry_without_grant"} \cup OptionFields

IsPolicy(p) ==
    /\ DOMAIN p = PolicyFields
    /\ p = [f \in PolicyFields |-> p[f]]
    /\ p.capacity \in Nat \ {0}
    /\ p.capacity_is_explicit \in BOOLEAN
    /\ p.capacity_is_explicit \/ p.capacity = 1

(* What reading a key keeps: a field once set stays set.                   *)
PolicyGrows(p, q) ==
    /\ IsPolicy(q)
    /\ p.capacity_is_explicit => q.capacity_is_explicit
    /\ \A f \in OptionFields : p[f] # None => q[f] # None

LEMMA EmptyPolicyIsPolicy == IsPolicy(EmptyPolicy)
BY DEF IsPolicy, EmptyPolicy, PolicyFields, OptionFields

LEMMA CapacityGrows ==
    ASSUME NEW p, IsPolicy(p), NEW n \in Nat \ {0}
    PROVE  /\ PolicyGrows(p, SetCapacity(p, n))
           /\ SetCapacity(p, n).capacity_is_explicit
           /\ SetCapacity(p, n).blocked = p.blocked
BY DEF IsPolicy, PolicyGrows, SetCapacity, PolicyFields, OptionFields

LEMMA KindGrows ==
    ASSUME NEW p, IsPolicy(p), NEW v
    PROVE  /\ PolicyGrows(p, [p EXCEPT !.kind = v])
           /\ [p EXCEPT !.kind = v].blocked = p.blocked
BY DEF IsPolicy, PolicyGrows, PolicyFields, OptionFields

LEMMA OptionGrows ==
    ASSUME NEW p, IsPolicy(p), NEW f \in OptionFields, NEW v, v # None
    PROVE  /\ PolicyGrows(p, [p EXCEPT ![f] = v])
           /\ [p EXCEPT ![f] = v][f] # None
           /\ f # "blocked" => [p EXCEPT ![f] = v].blocked = p.blocked
BY DEF IsPolicy, PolicyGrows, PolicyFields, OptionFields

LEMMA FlagGrows ==
    ASSUME NEW p, IsPolicy(p),
           NEW f \in {"requires_claim", "blocks_traversal_without_grant",
                      "blocks_entry_without_grant"}, NEW v
    PROVE  /\ PolicyGrows(p, [p EXCEPT ![f] = v])
           /\ [p EXCEPT ![f] = v].blocked = p.blocked
BY DEF IsPolicy, PolicyGrows, PolicyFields, OptionFields

LEMMA GrowsOn ==
    ASSUME NEW p, NEW q, NEW r, IsPolicy(p), PolicyGrows(p, q), PolicyGrows(q, r)
    PROVE  PolicyGrows(p, r)
BY Zenon DEF PolicyGrows

LEMMA RestrictedGrows ==
    ASSUME NEW p, IsPolicy(p)
    PROVE  /\ PolicyGrows(p, MakeRestricted(p))
           /\ MakeRestricted(p).kind = "Restricted"
           /\ MakeRestricted(p).blocks_entry_without_grant = TRUE
           /\ MakeRestricted(p).blocks_traversal_without_grant = TRUE
           /\ MakeRestricted(p).blocked = p.blocked
           /\ MakeRestricted(p).replan_trigger = p.replan_trigger
BY DEF IsPolicy, PolicyGrows, PolicyFields, OptionFields, MakeRestricted

(* A zone's flag that does not parse leaves the policy; one that does sets  *)
(* the field it is about.                                                  *)
LEMMA ZoneBoolGrows ==
    ASSUME NEW p, IsPolicy(p), NEW field \in ZoneBools, NEW b \in BOOLEAN
    PROVE  /\ PolicyGrows(p, SetZoneBool(p, field, b))
           /\ field \in OptionFields => SetZoneBool(p, field, b)[field] # None
           /\ field # "blocked" => SetZoneBool(p, field, b).blocked = p.blocked
           /\ field = "blocked" /\ b => Holds(SetZoneBool(p, field, b).blocked)
<1> DEFINE q == SetZoneBool(p, field, b)
<1>0. Some(b) # None /\ Some(~b) # None /\ (b => Holds(Some(b)))
  BY Zenon DEF Some, None, Holds
<1>1. CASE field = "claim_required"
  <2> DEFINE r == [p EXCEPT !["requires_claim"] = b]
  <2>1. q = [r EXCEPT !["blocks_entry_without_grant"] = b]
    BY <1>1 DEF SetZoneBool
  <2>2. PolicyGrows(p, r) /\ r.blocked = p.blocked
    BY FlagGrows
  <2> HIDE DEF r
  <2>3. PolicyGrows(r, q) /\ q.blocked = r.blocked
    <3>1. IsPolicy(r)
      BY <2>2 DEF PolicyGrows
    <3> HIDE DEF q
    <3> QED BY <2>1, <3>1, FlagGrows
  <2>4. PolicyGrows(p, q)
    BY <2>2, <2>3, GrowsOn, Zenon
  <2>5. field \notin OptionFields
    BY <1>1 DEF OptionFields
  <2> QED BY <1>1, <2>2, <2>3, <2>4, <2>5
<1>2. CASE field = "blocked"
  <2> DEFINE r == [p EXCEPT !["blocked"] = Some(b)]
  <2>1. q = IF b THEN MakeRestricted(r) ELSE r
    BY <1>2, Zenon DEF SetZoneBool
  <2>2. PolicyGrows(p, r) /\ r.blocked = Some(b)
    <3>1. "blocked" \in OptionFields
      BY DEF OptionFields
    <3>2. PolicyGrows(p, r)
      BY <1>0, <3>1, OptionGrows, Zenon
    <3>3. "blocked" \in DOMAIN p
      BY DEF IsPolicy, PolicyFields, OptionFields
    <3> QED BY <3>2, <3>3
  <2> HIDE DEF r
  <2>3. IsPolicy(r)
    BY <2>2 DEF PolicyGrows
  <2>4. PolicyGrows(p, q) /\ q.blocked = Some(b)
    <3>1. CASE b
      <4>1. PolicyGrows(r, q) /\ q.blocked = r.blocked
        BY <2>1, <2>3, <3>1, RestrictedGrows
      <4> QED BY <2>2, <4>1, GrowsOn, Zenon
    <3>2. CASE ~b
      BY <2>1, <2>2, <3>2
    <3> QED BY <3>1, <3>2
  <2>5. PolicyGrows(p, q) /\ q[field] # None /\ (b => Holds(q.blocked))
    BY <1>0, <1>2, <2>4, Zenon
  <2> QED BY <1>2, <2>5, Zenon
<1>3. CASE field = "no_stop"
  <2> DEFINE r == [p EXCEPT !["stop_allowed"] = Some(~b)]
  <2>1. q = [r EXCEPT !.kind = IF b THEN "NoStop" ELSE p.kind]
    BY <1>3 DEF SetZoneBool, IsPolicy
  <2>2. PolicyGrows(p, r) /\ r.blocked = p.blocked
    <3>1. "stop_allowed" \in OptionFields /\ "stop_allowed" # "blocked"
      BY DEF OptionFields
    <3> QED BY <1>0, <3>1, OptionGrows, Zenon
  <2> HIDE DEF r
  <2>3. PolicyGrows(r, q) /\ q.blocked = r.blocked
    <3>1. IsPolicy(r)
      BY <2>2 DEF PolicyGrows
    <3> HIDE DEF q
    <3> QED BY <2>1, <3>1, KindGrows
  <2>4. PolicyGrows(p, q)
    BY <2>2, <2>3, GrowsOn, Zenon
  <2>5. field \notin OptionFields
    BY <1>3 DEF OptionFields
  <2> QED BY <1>3, <2>2, <2>3, <2>4, <2>5
<1>4. CASE field = "replan_trigger"
  <2> DEFINE r == [p EXCEPT !["replan_trigger"] = Some(b)]
  <2>1. q = [r EXCEPT !.kind = IF b THEN "Replanning" ELSE p.kind]
    BY <1>4 DEF SetZoneBool, IsPolicy
  <2>2. PolicyGrows(p, r) /\ r.blocked = p.blocked /\ r.replan_trigger # None
    <3>1. "replan_trigger" \in OptionFields /\ "replan_trigger" # "blocked"
      BY DEF OptionFields
    <3> QED BY <1>0, <3>1, OptionGrows, Zenon
  <2> HIDE DEF r
  <2>3. PolicyGrows(r, q) /\ q.blocked = r.blocked
    <3>1. IsPolicy(r)
      BY <2>2 DEF PolicyGrows
    <3> HIDE DEF q
    <3> QED BY <2>1, <3>1, KindGrows
  <2>4. PolicyGrows(p, q)
    BY <2>2, <2>3, GrowsOn, Zenon
  <2>5. field \in OptionFields /\ q[field] # None
    BY <1>4, <2>2, <2>3 DEF OptionFields, PolicyGrows
  <2>6. q.blocked = p.blocked /\ field # "blocked"
    BY <1>4, <2>2, <2>3
  <2> QED BY <2>4, <2>5, <2>6, Zenon
<1>5. CASE field \in {"blocks_entry_without_grant", "blocks_traversal_without_grant"}
  <2>1. q = [p EXCEPT ![field] = b]
    BY <1>5 DEF SetZoneBool
  <2>2. PolicyGrows(p, q) /\ q.blocked = p.blocked
    <3> HIDE DEF q
    <3> QED BY <1>5, <2>1, FlagGrows
  <2>3. field \notin OptionFields /\ field # "blocked"
    BY <1>5 DEF OptionFields
  <2> QED BY <2>2, <2>3, Zenon
<1>6. CASE field \in {"waiting_allowed", "stop_allowed"}
  <2>1. q = [p EXCEPT ![field] = Some(b)]
    BY <1>6 DEF SetZoneBool
  <2>2. field \in OptionFields /\ field # "blocked"
    BY <1>6 DEF OptionFields
  <2>3. PolicyGrows(p, q) /\ q[field] # None /\ q.blocked = p.blocked
    <3> HIDE DEF q
    <3> QED BY <1>0, <2>1, <2>2, OptionGrows
  <2> QED BY <2>2, <2>3, Zenon
<1> QED BY <1>1, <1>2, <1>3, <1>4, <1>5, <1>6 DEF ZoneBools, SharedBools

LEMMA ParsedCount ==
    ASSUME NEW v, \E n \in ParseU64(v) : n >= 1
    PROVE  (CHOOSE n \in ParseU64(v) : TRUE) \in Nat \ {0}
<1>1. PICK n \in ParseU64(v) : n >= 1
  OBVIOUS
<1>2. \A m \in ParseU64(v) : m \in Nat /\ m * Unit \in ParseF64(v)
  BY DEF ParseU64
<1>3. \A m \in ParseU64(v) : m = n
  BY <1>1, <1>2 DEF ParseF64, Some, None, Unit
<1>4. (CHOOSE m \in ParseU64(v) : TRUE) \in ParseU64(v)
  BY <1>1, Zenon
<1> HIDE DEF ParseU64
<1> QED BY <1>1, <1>2, <1>3, <1>4

(* The field a key is about, and whether the value is one for it.          *)
Settable(field) == field \in (ZoneBools \cup ZoneNumbers \cup ZoneTexts) \cap OptionFields

LEMMA ReadZoneKeyGrows ==
    ASSUME NEW p, IsPolicy(p), NEW k, NEW v
    PROVE  LET q == ReadZoneKey(p, k, v) IN
           /\ PolicyGrows(p, q)
           /\ ~ZoneError(k, v) =>
                /\ Canonical(k) \in CountKeys => q.capacity_is_explicit
                /\ Settable(Canonical(k)) => q[Canonical(k)] # None
           /\ Canonical(k) # "blocked" => q.blocked = p.blocked
           /\ Canonical(k) = "blocked" /\ Holds(ParseBool(v)) => Holds(q.blocked)
<1> DEFINE field == Canonical(k)
           q == ReadZoneKey(p, k, v)
<1>0. /\ Holds(ParseBool(v)) \in BOOLEAN
      /\ Holds(ParseBool(v)) => ParseBool(v) # None
      /\ PolicyGrows(p, p)
  <2>1. PolicyGrows(p, p)
    BY DEF PolicyGrows
  <2>2. Holds(ParseBool(v)) => ParseBool(v) # None
    BY DEF Holds, None
  <2>3. Holds(ParseBool(v)) \in BOOLEAN
    BY DEF Holds
  <2> QED BY <2>1, <2>2, <2>3
<1>1. CASE field \in KeywordKeys
  <2>0. field \notin CountKeys /\ field \notin ZoneBools /\ field \notin ZoneNumbers
        /\ field \notin ZoneTexts
    BY <1>1 DEF CountKeys, KeywordKeys, ZoneBools, ZoneNumbers, ZoneTexts, SharedBools, SharedTexts
  <2>1. q = [p EXCEPT !.kind = KindOf(v)]
    BY <1>1, <2>0 DEF ReadZoneKey
  <2>2. PolicyGrows(p, q) /\ q.blocked = p.blocked
    <3> HIDE DEF q
    <3> QED BY <2>1, KindGrows
  <2>3. field # "blocked" /\ field \notin CountKeys /\ ~ Settable(field)
    BY <1>1 DEF KeywordKeys, CountKeys, Settable, OptionFields
  <2> QED BY <2>2, <2>3, Zenon
<1>2. CASE field \in CountKeys
  <2>1. field # "blocked" /\ ~ Settable(field) /\ field \notin KeywordKeys /\ field \notin ZoneBools
        /\ field \notin ZoneNumbers /\ field \notin ZoneTexts
    BY <1>2 DEF CountKeys, Settable, OptionFields, KeywordKeys, ZoneBools, ZoneNumbers, ZoneTexts,
        SharedBools, SharedTexts
  <2>2. CASE \E n \in ParseU64(v) : n >= 1
    <3> DEFINE c == CHOOSE n \in ParseU64(v) : TRUE
    <3>1. q = SetCapacity(p, c)
      BY <1>2, <2>1, <2>2 DEF ReadZoneKey
    <3>2. c \in Nat \ {0}
      BY <2>2, ParsedCount, Zenon
    <3>3. PolicyGrows(p, q) /\ q.capacity_is_explicit /\ q.blocked = p.blocked
      <4> HIDE DEF q, c
      <4> QED BY <3>1, <3>2, CapacityGrows
    <3> QED BY <2>1, <3>3, Zenon
  <2>3. CASE ~ \E n \in ParseU64(v) : n >= 1
    <3>1. q = p
      BY <1>2, <2>1, <2>3 DEF ReadZoneKey
    <3>2. ZoneError(k, v)
      BY <1>2, <2>3 DEF ZoneError
    <3> QED BY <1>0, <2>1, <3>1, <3>2, Zenon
  <2> QED BY <2>2, <2>3
<1>3. CASE field \in ZoneBools
  <2>1. field \notin KeywordKeys /\ field \notin CountKeys
        /\ field \notin ZoneNumbers /\ field \notin ZoneTexts
    BY <1>3 DEF CountKeys, KeywordKeys, ZoneBools, ZoneNumbers, ZoneTexts, SharedBools, SharedTexts
  <2>2. CASE ParseBool(v) # None
    <3> DEFINE b == Holds(ParseBool(v))
    <3>1. q = SetZoneBool(p, field, b)
      BY <1>3, <2>1, <2>2 DEF ReadZoneKey
    <3>2. /\ PolicyGrows(p, q)
          /\ field \in OptionFields => q[field] # None
          /\ field # "blocked" => q.blocked = p.blocked
          /\ field = "blocked" /\ b => Holds(q.blocked)
      <4> HIDE DEF q, field
      <4> QED BY <1>0, <1>3, <3>1, ZoneBoolGrows, Zenon
    <3>3. Settable(field) => field \in OptionFields
      BY DEF Settable
    <3> QED BY <2>1, <3>2, <3>3, Zenon
  <2>3. CASE ParseBool(v) = None
    <3>1. q = p
      BY <1>3, <2>1, <2>3 DEF ReadZoneKey
    <3>2. ZoneError(k, v)
      BY <1>3, <2>3 DEF ZoneError
    <3> QED BY <1>0, <2>3, <3>1, <3>2, Zenon
  <2> QED BY <2>2, <2>3
<1>4. CASE field \in ZoneNumbers
  <2>1. field # "blocked" /\ field \notin KeywordKeys /\ field \notin CountKeys
        /\ field \notin ZoneBools /\ field \notin ZoneTexts /\ field \in OptionFields
    BY <1>4 DEF CountKeys, KeywordKeys, ZoneBools, ZoneNumbers, ZoneTexts, SharedBools,
        SharedTexts, OptionFields
  <2>2. CASE ParseF64(v) # None
    <3>1. q = [p EXCEPT ![field] = ParseF64(v)]
      BY <1>4, <2>1, <2>2 DEF ReadZoneKey
    <3>2. PolicyGrows(p, q) /\ q[field] # None /\ q.blocked = p.blocked
      <4> HIDE DEF q, field
      <4> QED BY <2>1, <2>2, <3>1, OptionGrows, Zenon
    <3> QED BY <2>1, <3>2, Zenon
  <2>3. CASE ParseF64(v) = None
    <3>1. q = p
      BY <1>4, <2>1, <2>3 DEF ReadZoneKey
    <3>2. ZoneError(k, v)
      BY <1>4, <2>3 DEF ZoneError, ZoneNumbers, None
    <3> QED BY <1>0, <2>1, <3>1, <3>2, Zenon
  <2> QED BY <2>2, <2>3
<1>5. CASE field \in ZoneTexts
  <2>1. field # "blocked" /\ field \notin KeywordKeys /\ field \notin CountKeys
        /\ field \notin ZoneBools /\ field \notin ZoneNumbers /\ field \in OptionFields
    BY <1>5 DEF CountKeys, KeywordKeys, ZoneBools, ZoneNumbers, ZoneTexts, SharedBools,
        SharedTexts, OptionFields
  <2>2. CASE ParseText(v) # None
    <3>1. q = [p EXCEPT ![field] = ParseText(v)]
      BY <1>5, <2>1, <2>2 DEF ReadZoneKey
    <3>2. PolicyGrows(p, q) /\ q[field] # None /\ q.blocked = p.blocked
      <4> HIDE DEF q, field
      <4> QED BY <2>1, <2>2, <3>1, OptionGrows, Zenon
    <3> QED BY <2>1, <3>2, Zenon
  <2>3. CASE ParseText(v) = None
    <3>1. q = p
      BY <1>5, <2>1, <2>3 DEF ReadZoneKey
    <3>2. ZoneError(k, v)
      BY <1>5, <2>3 DEF ZoneError
    <3> QED BY <1>0, <2>1, <3>1, <3>2, Zenon
  <2> QED BY <2>2, <2>3
<1>6. CASE field \notin KeywordKeys \cup CountKeys \cup ZoneBools \cup ZoneNumbers \cup ZoneTexts
  <2>1. q = p
    BY <1>6 DEF ReadZoneKey
  <2>2. field # "blocked" /\ field \notin CountKeys /\ ~ Settable(field)
    BY <1>6 DEF Settable, ZoneBools, SharedBools
  <2> QED BY <1>0, <2>1, <2>2, Zenon
<1> QED BY <1>1, <1>2, <1>3, <1>4, <1>5, <1>6

(* The readings of a map, one key after the other.                         *)
AreZoneReads(read, keys, props, L) ==
    read = [n \in 0..L |-> IF n = 0 THEN EmptyPolicy
                           ELSE ReadZoneKey(read[n - 1], keys[n], props[keys[n]])]

LEMMA ZoneReadStep ==
    ASSUME NEW keys, NEW props, NEW L \in Nat, NEW read, AreZoneReads(read, keys, props, L)
    PROVE  /\ read[0] = EmptyPolicy
           /\ \A m \in Nat : m + 1 \in 1..L =>
                read[m + 1] = ReadZoneKey(read[m], keys[m + 1], props[keys[m + 1]])
<1>1. \A n \in 0..L : read[n] = IF n = 0 THEN EmptyPolicy
                                ELSE ReadZoneKey(read[n - 1], keys[n], props[keys[n]])
  BY Zenon DEF AreZoneReads
<1>2. 0 \in 0..L
  OBVIOUS
<1>3. ASSUME NEW m \in Nat, m + 1 \in 1..L
      PROVE  read[m + 1] = ReadZoneKey(read[m], keys[m + 1], props[keys[m + 1]])
  <2>1. m + 1 \in 0..L /\ m + 1 # 0 /\ (m + 1) - 1 = m
    BY <1>3
  <2> QED BY <1>1, <2>1
<1> QED BY <1>1, <1>2, <1>3

LEMMA ZoneReadsExist ==
    ASSUME NEW keys, NEW props, NEW L \in Nat
    PROVE  \E read : AreZoneReads(read, keys, props, L)
<1> DEFINE S == {m \in Nat : \E read : AreZoneReads(read, keys, props, m)}
<1>1. 0 \in S
  <2>1. AreZoneReads([i \in 0..0 |-> EmptyPolicy], keys, props, 0)
    BY DEF AreZoneReads
  <2> QED BY <2>1
<1>2. ASSUME NEW m \in Nat, m \in S
      PROVE  m + 1 \in S
  <2>1. PICK f : AreZoneReads(f, keys, props, m)
    BY <1>2
  <2> DEFINE next == ReadZoneKey(f[m], keys[m + 1], props[keys[m + 1]])
             g == [i \in 0..(m + 1) |-> IF i = m + 1 THEN next ELSE f[i]]
  <2>2. ASSUME NEW i \in 0..(m + 1)
        PROVE  g[i] = IF i = 0 THEN EmptyPolicy
                      ELSE ReadZoneKey(g[i - 1], keys[i], props[keys[i]])
    <3>1. CASE i = m + 1
      <4>1. g[i] = next /\ i # 0 /\ i - 1 = m /\ g[i - 1] = f[m]
        BY <3>1
      <4> QED BY <3>1, <4>1
    <3>2. CASE i # m + 1
      <4>1. i \in 0..m /\ g[i] = f[i] /\ (i # 0 => i - 1 \in 0..(m + 1) /\ i - 1 # m + 1)
        BY <3>2
      <4>2. i # 0 => g[i - 1] = f[i - 1]
        BY <4>1
      <4>3. f[i] = IF i = 0 THEN EmptyPolicy
                   ELSE ReadZoneKey(f[i - 1], keys[i], props[keys[i]])
        BY <2>1, <4>1 DEF AreZoneReads
      <4> HIDE DEF g
      <4> QED BY <4>1, <4>2, <4>3
    <3> QED BY <3>1, <3>2
  <2>3. g = [i \in 0..(m + 1) |-> g[i]]
    OBVIOUS
  <2> HIDE DEF g
  <2>4. AreZoneReads(g, keys, props, m + 1)
    BY <2>2, <2>3 DEF AreZoneReads
  <2> QED BY <2>4
<1>3. L \in S
  <2> HIDE DEF S
  <2> QED BY <1>1, <1>2, NatSet
<1> QED BY <1>3

LEMMA ZonePolicyUnfolds ==
    ASSUME NEW props, Len(InOrder(props)) \in Nat
    PROVE  \E read : /\ AreZoneReads(read, InOrder(props), props, Len(InOrder(props)))
                     /\ ParseZonePolicy(props) = SettleZone(read[Len(InOrder(props))])
<1> DEFINE keys == InOrder(props)
           F == CHOOSE g : g = [n \in 0..Len(InOrder(props)) |->
                    IF n = 0 THEN EmptyPolicy
                    ELSE ReadZoneKey(g[n - 1], InOrder(props)[n], props[InOrder(props)[n]])]
<1>1. ParseZonePolicy(props) = SettleZone(F[Len(InOrder(props))])
  BY Zenon DEF ParseZonePolicy
<1>2. PICK read : AreZoneReads(read, InOrder(props), props, Len(InOrder(props)))
  BY ZoneReadsExist
<1>3. AreZoneReads(F, InOrder(props), props, Len(InOrder(props)))
  BY <1>2, Zenon DEF AreZoneReads
<1> HIDE DEF F
<1> QED BY <1>1, <1>3

(* The last word keeps what was read, and walls off what is blocked.       *)
LEMMA SettledZone ==
    ASSUME NEW p, IsPolicy(p)
    PROVE  LET q == SettleZone(p) IN
           /\ PolicyGrows(p, q)
           /\ Holds(p.blocked) => /\ q.kind = "Restricted"
                                  /\ q.blocks_entry_without_grant = TRUE
                                  /\ q.blocks_traversal_without_grant = TRUE
<1>1. CASE Holds(p.blocked)
  BY <1>1, RestrictedGrows DEF SettleZone
<1>2. CASE ~Holds(p.blocked)
  <2>1. PolicyGrows(p, p)
    BY DEF PolicyGrows
  <2>2. PolicyGrows(p, [p EXCEPT !.kind = "Replanning"])
        /\ PolicyGrows(p, [p EXCEPT !.kind = "NoStop"])
    BY KindGrows, Zenon
  <2>3. PolicyGrows(p, SettleZone(p))
    BY <1>2, <2>1, <2>2, Zenon DEF SettleZone
  <2> QED BY <1>2, <2>3
<1> QED BY <1>1, <1>2

(* What parse_zone_policy makes of a map: a policy in which every key       *)
(* without an error has taken effect, and which walls a blocked zone off.  *)
LEMMA ParsedZonePolicy ==
    ASSUME NEW props
    PROVE  LET p == ParseZonePolicy(props) IN
           /\ IsPolicy(p)
           /\ "blocked" \in DOMAIN props /\ Holds(ParseBool(props["blocked"])) =>
                /\ p.kind = "Restricted"
                /\ p.blocks_entry_without_grant = TRUE
                /\ p.blocks_traversal_without_grant = TRUE
           /\ \A k \in DOMAIN props : ~ZoneError(k, props[k]) =>
                /\ Canonical(k) \in CountKeys => p.capacity_is_explicit
                /\ Settable(Canonical(k)) => p[Canonical(k)] # None
<1> DEFINE keys == InOrder(props)
           L == Len(keys)
<1>1. keys \in Seq(DOMAIN props) /\ L \in Nat /\ \A i \in 1..L : keys[i] \in DOMAIN props
  BY KeysInOrder
<1>2. PICK read : AreZoneReads(read, keys, props, L) /\ ParseZonePolicy(props) = SettleZone(read[L])
  BY <1>1, ZonePolicyUnfolds
<1>3. /\ read[0] = EmptyPolicy
      /\ \A m \in Nat : m + 1 \in 1..L =>
            read[m + 1] = ReadZoneKey(read[m], keys[m + 1], props[keys[m + 1]])
  <2> HIDE DEF L, keys
  <2> QED BY <1>1, <1>2, ZoneReadStep
<1> DEFINE Blocks(k) == k = "blocked" /\ Holds(ParseBool(props[k]))
           Applied(p, k) == ~ZoneError(k, props[k]) =>
                                /\ Canonical(k) \in CountKeys => p.capacity_is_explicit
                                /\ Settable(Canonical(k)) => p[Canonical(k)] # None
           Good(m) == /\ IsPolicy(read[m])
                      /\ \A i \in 1..m : /\ Applied(read[m], keys[i])
                                         /\ Blocks(keys[i]) => Holds(read[m].blocked)
           S == {m \in Nat : m <= L => Good(m)}
<1>4. ASSUME NEW p, NEW q, PolicyGrows(p, q), NEW k, Applied(p, k)
      PROVE  Applied(q, k)
  <2>1. Settable(Canonical(k)) => Canonical(k) \in OptionFields
    BY DEF Settable
  <2> QED BY <1>4, <2>1, Zenon DEF PolicyGrows
<1>5. 0 \in S
  BY <1>3, EmptyPolicyIsPolicy
<1>6. ASSUME NEW m \in Nat, m \in S
      PROVE  m + 1 \in S
  <2> SUFFICES ASSUME m + 1 <= L PROVE Good(m + 1)
    OBVIOUS
  <2> DEFINE k == keys[m + 1]
  <2>1. Good(m) /\ m + 1 \in 1..L
    BY <1>1, <1>6
  <2>2. read[m + 1] = ReadZoneKey(read[m], k, props[k])
    BY <1>3, <2>1
  <2>3. /\ PolicyGrows(read[m], read[m + 1])
        /\ Applied(read[m + 1], k)
        /\ Canonical(k) # "blocked" => read[m + 1].blocked = read[m].blocked
        /\ Canonical(k) = "blocked" /\ Holds(ParseBool(props[k])) => Holds(read[m + 1].blocked)
    <3>1. IsPolicy(read[m])
      BY <2>1
    <3> HIDE DEF k
    <3> QED BY <2>2, <3>1, ReadZoneKeyGrows
  <2>4. Canonical(k) = "blocked" <=> k = "blocked"
    BY DEF Canonical, Alias
  <2>5. ASSUME NEW i \in 1..(m + 1)
        PROVE  Applied(read[m + 1], keys[i]) /\ (Blocks(keys[i]) => Holds(read[m + 1].blocked))
    <3>1. CASE i = m + 1
      <4>1. keys[i] = k
        BY <3>1
      <4> HIDE DEF k
      <4> QED BY <2>3, <2>4, <4>1, Zenon
    <3>2. CASE i # m + 1
      <4>1. i \in 1..m
        BY <3>2
      <4>2. Applied(read[m], keys[i]) /\ (Blocks(keys[i]) => Holds(read[m].blocked))
        BY <2>1, <4>1
      <4>3. Applied(read[m + 1], keys[i])
        <5> HIDE DEF Applied, k
        <5> QED BY <1>4, <2>3, <4>2
      <4>4. ASSUME Blocks(keys[i]) PROVE Holds(read[m + 1].blocked)
        <5>1. keys[i] = "blocked" /\ Holds(ParseBool(props["blocked"])) /\ Holds(read[m].blocked)
          BY <4>2, <4>4
        <5>2. CASE k = "blocked"
          <6> HIDE DEF k
          <6> QED BY <2>3, <2>4, <5>1, <5>2, Zenon
        <5>3. CASE k # "blocked"
          <6> HIDE DEF k
          <6> QED BY <2>3, <2>4, <5>1, <5>3, Zenon
        <5> QED BY <5>2, <5>3
      <4> QED BY <4>3, <4>4
    <3> QED BY <3>1, <3>2
  <2>6. IsPolicy(read[m + 1])
    BY <2>3 DEF PolicyGrows
  <2> QED BY <2>5, <2>6
<1>7. Good(L)
  <2>1. L \in S
    <3> HIDE DEF S
    <3> QED BY <1>1, <1>5, <1>6, NatSet
  <2> QED BY <2>1
<1> DEFINE p == ParseZonePolicy(props)
<1>8. /\ PolicyGrows(read[L], p)
      /\ Holds(read[L].blocked) => /\ p.kind = "Restricted"
                                   /\ p.blocks_entry_without_grant = TRUE
                                   /\ p.blocks_traversal_without_grant = TRUE
  BY <1>2, <1>7, SettledZone, Zenon
<1>9. ASSUME NEW k \in DOMAIN props, Canonical(k) \in ZoneKeys
      PROVE  Applied(p, k) /\ (Blocks(k) => Holds(read[L].blocked))
  <2>1. PICK i \in 1..L : keys[i] = k
    BY <1>9, KeysInOrder
  <2>2. Applied(read[L], k) /\ (Blocks(k) => Holds(read[L].blocked))
    BY <1>7, <2>1
  <2> HIDE DEF Blocks, p, L, keys
  <2> QED BY <1>4, <1>8, <2>2
<1>10. ASSUME NEW k \in DOMAIN props
       PROVE  Applied(p, k)
  <2>1. CASE Canonical(k) \in ZoneKeys
    BY <1>9, <2>1
  <2>2. CASE Canonical(k) \notin ZoneKeys
    <3>1. Canonical(k) \notin CountKeys /\ ~ Settable(Canonical(k))
      BY <2>2 DEF ZoneKeys, Settable
    <3> QED BY <3>1, Zenon
  <2> QED BY <2>1, <2>2
<1>11. ASSUME "blocked" \in DOMAIN props, Holds(ParseBool(props["blocked"]))
       PROVE  Holds(read[L].blocked)
  <2>1. Canonical("blocked") \in ZoneKeys
    BY DEF Canonical, Alias, ZoneKeys, ZoneBools, SharedBools
  <2> QED BY <1>9, <1>11, <2>1
<1>12. IsPolicy(p)
  BY <1>8 DEF PolicyGrows
<1> HIDE DEF p, L, keys
<1> QED BY <1>8, <1>10, <1>11, <1>12 DEF p

-----------------------------------------------------------------------------
(* Edge semantics.                                                         *)
SemanticsOptions ==
    {"speed_limit", "lane_type", "reversible", "passing_allowed", "requires_claim",
     "waiting_allowed", "stop_allowed", "blocked", "priority", "capacity", "clearance_width",
     "clearance_height", "surface_type", "robot_class", "allowed_payload", "cost_bias",
     "no_stop", "preferred_direction", "schedule_window", "access_group"}

SemanticsFields == SemanticsOptions \cup {"capacity_is_explicit"}

IsSemantics(s) ==
    /\ DOMAIN s = SemanticsFields
    /\ s.capacity \subseteq Nat

(* A field once set stays set, and no capacity becomes zero.               *)
SemanticsGrow(s, t) ==
    /\ IsSemantics(t)
    /\ \A f \in SemanticsOptions : s[f] # None => t[f] # None

LEMMA EmptySemanticsIsSemantics == IsSemantics(EmptySemantics) /\ 0 \notin EmptySemantics.capacity
BY DEF IsSemantics, EmptySemantics, SemanticsFields, SemanticsOptions, None

LEMMA EdgeFieldIsOption ==
    ASSUME NEW k, Canonical(k) \in EdgeKeys
    PROVE  /\ EdgeField(k) \in SemanticsOptions
           /\ EdgeField(k) = "capacity" <=> Canonical(k) \in CountKeys
BY DEF EdgeField, SemanticsOptions, EdgeKeys, CountKeys, EdgeBools, EdgeTexts, EdgeNumbers,
    PositiveKeys, LaneKeys, DirectionKeys, SharedBools, SharedTexts

LEMMA EdgeValueOfCount ==
    ASSUME NEW k, NEW v, Canonical(k) \in CountKeys
    PROVE  /\ EdgeValue(k, v) = ParseU64(v)
           /\ EdgeValue(k, v) \subseteq Nat
           /\ ~EdgeError(k, v) => EdgeValue(k, v) # None /\ 0 \notin EdgeValue(k, v)
<1>1. EdgeValue(k, v) = ParseU64(v)
  BY DEF EdgeValue, CountKeys, EdgeBools, EdgeTexts, EdgeNumbers, PositiveKeys, LaneKeys,
    DirectionKeys, SharedBools, SharedTexts
<1>2. ParseU64(v) \subseteq Nat
  BY DEF ParseU64
<1>3. ASSUME ~EdgeError(k, v)
      PROVE  ParseU64(v) # None /\ 0 \notin ParseU64(v)
  <2>1. PICK n \in ParseU64(v) : n >= 1
    BY <1>3, Zenon DEF EdgeError
  <2>2. \A m \in ParseU64(v) : m \in Nat /\ m * Unit \in ParseF64(v)
    BY DEF ParseU64
  <2>3. \A m \in ParseU64(v) : m = n
    BY <2>1, <2>2 DEF ParseF64, Some, None, Unit
  <2> HIDE DEF ParseU64
  <2> QED BY <2>1, <2>2, <2>3 DEF None
<1> QED BY <1>1, <1>2, <1>3, Zenon

LEMMA EdgeValueOfError ==
    ASSUME NEW k, NEW v, Canonical(k) \in EdgeKeys, EdgeValue(k, v) = None
    PROVE  EdgeError(k, v)
<1>1. CASE Canonical(k) \in CountKeys
  BY <1>1, EdgeValueOfCount, Zenon
<1>2. CASE Canonical(k) \in EdgeBools
  <2>1. EdgeValue(k, v) = ParseBool(v)
    BY <1>2 DEF EdgeValue, CountKeys, EdgeBools, EdgeTexts, EdgeNumbers, PositiveKeys, LaneKeys,
        DirectionKeys, SharedBools, SharedTexts
  <2> QED BY <1>2, <2>1, Zenon DEF EdgeError
<1>3. CASE Canonical(k) \in EdgeNumbers
  <2>1. EdgeValue(k, v) = ParseF64(v)
    BY <1>3 DEF EdgeValue, CountKeys, EdgeBools, EdgeTexts, EdgeNumbers, PositiveKeys, LaneKeys,
        DirectionKeys, SharedBools, SharedTexts
  <2> QED BY <1>3, <2>1, Zenon DEF EdgeError
<1>4. CASE Canonical(k) \in EdgeTexts
  <2>1. EdgeValue(k, v) = ParseText(v)
    BY <1>4 DEF EdgeValue, CountKeys, EdgeBools, EdgeTexts, EdgeNumbers, PositiveKeys, LaneKeys,
        DirectionKeys, SharedBools, SharedTexts
  <2> QED BY <1>4, <2>1, Zenon DEF EdgeError
<1> QED BY <1>1, <1>2, <1>3, <1>4 DEF EdgeKeys

LEMMA UnknownEdgeKey ==
    ASSUME NEW k, NEW v, Canonical(k) \notin EdgeKeys
    PROVE  EdgeValue(k, v) = None
BY DEF EdgeValue, EdgeKeys

LEMMA ReadEdgeKeyGrows ==
    ASSUME NEW s, IsSemantics(s), NEW k, NEW v
    PROVE  LET t == ReadEdgeKey(s, k, v) IN
           /\ SemanticsGrow(s, t)
           /\ ~EdgeError(k, v) =>
                /\ Canonical(k) \in EdgeKeys => t[EdgeField(k)] # None
                /\ 0 \notin s.capacity => 0 \notin t.capacity
<1> DEFINE t == ReadEdgeKey(s, k, v)
           f == EdgeField(k)
           w == EdgeValue(k, v)
<1>1. CASE w = None
  <2>1. t = s
    BY <1>1, Zenon DEF ReadEdgeKey
  <2>2. SemanticsGrow(s, s)
    BY DEF SemanticsGrow
  <2>3. ~EdgeError(k, v) => Canonical(k) \notin EdgeKeys
    BY <1>1, EdgeValueOfError, Zenon
  <2> QED BY <2>1, <2>2, <2>3, Zenon
<1>2. CASE w # None
  <2>1. Canonical(k) \in EdgeKeys
    BY <1>2, UnknownEdgeKey, Zenon
  <2>2. f \in SemanticsOptions /\ (f = "capacity" <=> Canonical(k) \in CountKeys)
    BY <2>1, EdgeFieldIsOption, Zenon
  <2>3. Canonical(k) \in CountKeys =>
            w \subseteq Nat /\ (~EdgeError(k, v) => 0 \notin w)
    BY EdgeValueOfCount, Zenon
  <2> DEFINE r == [s EXCEPT ![f] = w]
  <2>4. t = [r EXCEPT !.capacity_is_explicit = s.capacity_is_explicit
                                                 \/ Canonical(k) \in CountKeys]
    BY <1>2, Zenon DEF ReadEdgeKey
  <2> HIDE DEF w, f
  <2>5. /\ DOMAIN r = SemanticsFields /\ r[f] = w
        /\ \A g \in SemanticsOptions : g # f => r[g] = s[g]
    BY <2>2 DEF IsSemantics, SemanticsFields
  <2> HIDE DEF r
  <2>6. /\ DOMAIN t = SemanticsFields
        /\ \A g \in SemanticsOptions : t[g] = r[g]
    <3> DEFINE b == s.capacity_is_explicit \/ Canonical(k) \in CountKeys
    <3>1. t = [r EXCEPT !.capacity_is_explicit = b]
      BY <2>4
    <3> HIDE DEF b, t
    <3> QED BY <2>5, <3>1 DEF SemanticsFields, SemanticsOptions
  <2> HIDE DEF t
  <2>7. "capacity" \in SemanticsOptions
    BY DEF SemanticsOptions
  <2>8. t.capacity \subseteq Nat /\ (~EdgeError(k, v) /\ 0 \notin s.capacity => 0 \notin t.capacity)
    BY <2>2, <2>3, <2>5, <2>6, <2>7 DEF IsSemantics
  <2>9. SemanticsGrow(s, t) /\ t[f] # None
    BY <1>2, <2>2, <2>5, <2>6, <2>8 DEF SemanticsGrow, IsSemantics
  <2> QED BY <2>8, <2>9 DEF t, f
<1> QED BY <1>1, <1>2

AreEdgeReads(read, keys, props, L) ==
    read = [n \in 0..L |-> IF n = 0 THEN EmptySemantics
                           ELSE ReadEdgeKey(read[n - 1], keys[n], props[keys[n]])]

LEMMA EdgeReadStep ==
    ASSUME NEW keys, NEW props, NEW L \in Nat, NEW read, AreEdgeReads(read, keys, props, L)
    PROVE  /\ read[0] = EmptySemantics
           /\ \A m \in Nat : m + 1 \in 1..L =>
                read[m + 1] = ReadEdgeKey(read[m], keys[m + 1], props[keys[m + 1]])
<1>1. \A n \in 0..L : read[n] = IF n = 0 THEN EmptySemantics
                                ELSE ReadEdgeKey(read[n - 1], keys[n], props[keys[n]])
  BY Zenon DEF AreEdgeReads
<1>2. 0 \in 0..L
  OBVIOUS
<1>3. ASSUME NEW m \in Nat, m + 1 \in 1..L
      PROVE  read[m + 1] = ReadEdgeKey(read[m], keys[m + 1], props[keys[m + 1]])
  <2>1. m + 1 \in 0..L /\ m + 1 # 0 /\ (m + 1) - 1 = m
    BY <1>3
  <2> QED BY <1>1, <2>1
<1> QED BY <1>1, <1>2, <1>3

LEMMA EdgeReadsExist ==
    ASSUME NEW keys, NEW props, NEW L \in Nat
    PROVE  \E read : AreEdgeReads(read, keys, props, L)
<1> DEFINE S == {m \in Nat : \E read : AreEdgeReads(read, keys, props, m)}
<1>1. 0 \in S
  <2>1. AreEdgeReads([i \in 0..0 |-> EmptySemantics], keys, props, 0)
    BY DEF AreEdgeReads
  <2> QED BY <2>1
<1>2. ASSUME NEW m \in Nat, m \in S
      PROVE  m + 1 \in S
  <2>1. PICK f : AreEdgeReads(f, keys, props, m)
    BY <1>2
  <2> DEFINE next == ReadEdgeKey(f[m], keys[m + 1], props[keys[m + 1]])
             g == [i \in 0..(m + 1) |-> IF i = m + 1 THEN next ELSE f[i]]
  <2>2. ASSUME NEW i \in 0..(m + 1)
        PROVE  g[i] = IF i = 0 THEN EmptySemantics
                      ELSE ReadEdgeKey(g[i - 1], keys[i], props[keys[i]])
    <3>1. CASE i = m + 1
      <4>1. g[i] = next /\ i # 0 /\ i - 1 = m /\ g[i - 1] = f[m]
        BY <3>1
      <4> QED BY <3>1, <4>1
    <3>2. CASE i # m + 1
      <4>1. i \in 0..m /\ g[i] = f[i] /\ (i # 0 => i - 1 \in 0..(m + 1) /\ i - 1 # m + 1)
        BY <3>2
      <4>2. i # 0 => g[i - 1] = f[i - 1]
        BY <4>1
      <4>3. f[i] = IF i = 0 THEN EmptySemantics
                   ELSE ReadEdgeKey(f[i - 1], keys[i], props[keys[i]])
        BY <2>1, <4>1 DEF AreEdgeReads
      <4> HIDE DEF g
      <4> QED BY <4>1, <4>2, <4>3
    <3> QED BY <3>1, <3>2
  <2>3. g = [i \in 0..(m + 1) |-> g[i]]
    OBVIOUS
  <2> HIDE DEF g
  <2>4. AreEdgeReads(g, keys, props, m + 1)
    BY <2>2, <2>3 DEF AreEdgeReads
  <2> QED BY <2>4
<1>3. L \in S
  <2> HIDE DEF S
  <2> QED BY <1>1, <1>2, NatSet
<1> QED BY <1>3

LEMMA EdgeSemanticsUnfolds ==
    ASSUME NEW props, Len(InOrder(props)) \in Nat
    PROVE  \E read : LET s == read[Len(InOrder(props))] IN
             /\ AreEdgeReads(read, InOrder(props), props, Len(InOrder(props)))
             /\ ParseEdgeSemantics(props) =
                    IF Holds(s.no_stop) THEN [s EXCEPT !.stop_allowed = Some(FALSE)] ELSE s
<1> DEFINE F == CHOOSE g : g = [n \in 0..Len(InOrder(props)) |->
                    IF n = 0 THEN EmptySemantics
                    ELSE ReadEdgeKey(g[n - 1], InOrder(props)[n], props[InOrder(props)[n]])]
           s == F[Len(InOrder(props))]
<1>1. ParseEdgeSemantics(props) = IF Holds(s.no_stop)
                                  THEN [s EXCEPT !.stop_allowed = Some(FALSE)] ELSE s
  BY Zenon DEF ParseEdgeSemantics
<1>2. PICK read : AreEdgeReads(read, InOrder(props), props, Len(InOrder(props)))
  BY EdgeReadsExist
<1>3. AreEdgeReads(F, InOrder(props), props, Len(InOrder(props)))
  BY <1>2, Zenon DEF AreEdgeReads
<1> HIDE DEF F
<1> QED BY <1>1, <1>3

(* What parse_edge_semantics makes of a map: a capacity that is a number,   *)
(* and of a map without errors a positive one, every known key applied.    *)
LEMMA ParsedEdgeSemantics ==
    ASSUME NEW props
    PROVE  LET s == ParseEdgeSemantics(props) IN
           /\ IsSemantics(s)
           /\ EdgeErrors(props) = {} =>
                /\ 0 \notin s.capacity
                /\ \A k \in DOMAIN props : Canonical(k) \in EdgeKeys => s[EdgeField(k)] # None
<1> DEFINE keys == InOrder(props)
           L == Len(keys)
<1>1. keys \in Seq(DOMAIN props) /\ L \in Nat /\ \A i \in 1..L : keys[i] \in DOMAIN props
  BY KeysInOrder
<1>2. PICK read : LET s == read[L] IN
             /\ AreEdgeReads(read, keys, props, L)
             /\ ParseEdgeSemantics(props) =
                    IF Holds(s.no_stop) THEN [s EXCEPT !.stop_allowed = Some(FALSE)] ELSE s
  BY <1>1, EdgeSemanticsUnfolds, Zenon
<1>3. /\ read[0] = EmptySemantics
      /\ \A m \in Nat : m + 1 \in 1..L =>
            read[m + 1] = ReadEdgeKey(read[m], keys[m + 1], props[keys[m + 1]])
  <2> HIDE DEF L, keys
  <2> QED BY <1>1, <1>2, EdgeReadStep
<1> DEFINE Clean == EdgeErrors(props) = {}
           Applied(s, k) == Canonical(k) \in EdgeKeys => s[EdgeField(k)] # None
           Good(m) == /\ IsSemantics(read[m])
                      /\ Clean => /\ 0 \notin read[m].capacity
                                  /\ \A i \in 1..m : Applied(read[m], keys[i])
           S == {m \in Nat : m <= L => Good(m)}
<1>4. ASSUME NEW s, NEW t, SemanticsGrow(s, t), NEW k, Applied(s, k)
      PROVE  Applied(t, k)
  <2>1. Canonical(k) \in EdgeKeys => EdgeField(k) \in SemanticsOptions
    BY EdgeFieldIsOption, Zenon
  <2> QED BY <1>4, <2>1, Zenon DEF SemanticsGrow
<1>5. 0 \in S
  BY <1>3, EmptySemanticsIsSemantics
<1>6. ASSUME NEW m \in Nat, m \in S
      PROVE  m + 1 \in S
  <2> SUFFICES ASSUME m + 1 <= L PROVE Good(m + 1)
    OBVIOUS
  <2> DEFINE k == keys[m + 1]
  <2>1. Good(m) /\ m + 1 \in 1..L /\ k \in DOMAIN props
    BY <1>1, <1>6
  <2>2. read[m + 1] = ReadEdgeKey(read[m], k, props[k])
    BY <1>3, <2>1
  <2>3. Clean => ~EdgeError(k, props[k])
    BY <2>1, Zenon DEF EdgeErrors
  <2>4. /\ SemanticsGrow(read[m], read[m + 1])
        /\ Clean => /\ Applied(read[m + 1], k)
                    /\ 0 \notin read[m].capacity => 0 \notin read[m + 1].capacity
    <3>1. IsSemantics(read[m])
      BY <2>1
    <3> HIDE DEF k, Clean
    <3> QED BY <2>2, <2>3, <3>1, ReadEdgeKeyGrows
  <2>5. ASSUME Clean, NEW i \in 1..(m + 1)
        PROVE  Applied(read[m + 1], keys[i])
    <3>1. CASE i = m + 1
      BY <2>4, <2>5, <3>1
    <3>2. CASE i # m + 1
      <4>1. i \in 1..m
        BY <3>2
      <4>2. Applied(read[m], keys[i])
        BY <2>1, <2>5, <4>1
      <4> HIDE DEF Applied, k
      <4> QED BY <1>4, <2>4, <4>2
    <3> QED BY <3>1, <3>2
  <2>6. IsSemantics(read[m + 1])
    BY <2>4 DEF SemanticsGrow
  <2>7. Clean => 0 \notin read[m + 1].capacity
    BY <2>1, <2>4
  <2> HIDE DEF Clean, Applied
  <2> QED BY <2>5, <2>6, <2>7
<1>7. Good(L)
  <2>1. L \in S
    <3> HIDE DEF S
    <3> QED BY <1>1, <1>5, <1>6, NatSet
  <2> QED BY <2>1
<1> DEFINE s == ParseEdgeSemantics(props)
<1>8. SemanticsGrow(read[L], s) /\ s.capacity = read[L].capacity
  <2> DEFINE r == read[L]
  <2>1. s = IF Holds(r.no_stop) THEN [r EXCEPT !.stop_allowed = Some(FALSE)] ELSE r
    BY <1>2
  <2>2. IsSemantics(r)
    BY <1>7
  <2>3. Some(FALSE) # None
    BY DEF Some, None
  <2> HIDE DEF r, s
  <2>4. SemanticsGrow(r, s) /\ s.capacity = r.capacity
    BY <2>1, <2>2, <2>3 DEF SemanticsGrow, IsSemantics, SemanticsFields, SemanticsOptions
  <2> QED BY <2>4 DEF r
<1>9. ASSUME Clean, NEW k \in DOMAIN props, Canonical(k) \in EdgeKeys
      PROVE  s[EdgeField(k)] # None
  <2>1. PICK i \in 1..L : keys[i] = k
    BY <1>9, KeysInOrder
  <2>2. Applied(read[L], k)
    BY <1>7, <1>9, <2>1
  <2>3. Applied(s, k)
    <3> HIDE DEF Applied, s, L, keys
    <3> QED BY <1>4, <1>8, <2>2
  <2> QED BY <1>9, <2>3
<1>10. IsSemantics(s)
  BY <1>8 DEF SemanticsGrow
<1>11. Clean => 0 \notin s.capacity
  BY <1>7, <1>8
<1> HIDE DEF s, L, keys
<1> QED BY <1>9, <1>10, <1>11 DEF s

-----------------------------------------------------------------------------
(* An edge under the zones around it.                                      *)
LEMMA UnderZoneBlocked ==
    ASSUME NEW s, DOMAIN s = SemanticsFields, NEW p
    PROVE  /\ DOMAIN UnderZone(s, p) = SemanticsFields
           /\ Walls(p)  => UnderZone(s, p).blocked = Some(TRUE)
           /\ ~Walls(p) => UnderZone(s, p).blocked = s.blocked
<1>1. DOMAIN UnderZone(s, p) = SemanticsFields
  BY DEF UnderZone
<1>2. "blocked" \in DOMAIN s
  BY DEF SemanticsFields, SemanticsOptions
<1> DEFINE wall == IF Walls(p) THEN Some(TRUE) ELSE s.blocked
<1>3. UnderZone(s, p).blocked = wall
  BY <1>2 DEF UnderZone
<1> QED BY <1>1, <1>3

AreUnder(under, props, policies, L) ==
    under = [n \in 0..L |-> IF n = 0 THEN ParseEdgeSemantics(props)
                            ELSE UnderZone(under[n - 1], policies[n])]

LEMMA UnderStep ==
    ASSUME NEW props, NEW policies, NEW L \in Nat, NEW under, AreUnder(under, props, policies, L)
    PROVE  /\ under[0] = ParseEdgeSemantics(props)
           /\ \A m \in Nat : m + 1 \in 1..L => under[m + 1] = UnderZone(under[m], policies[m + 1])
<1>1. \A n \in 0..L : under[n] = IF n = 0 THEN ParseEdgeSemantics(props)
                                 ELSE UnderZone(under[n - 1], policies[n])
  BY Zenon DEF AreUnder
<1>2. 0 \in 0..L
  OBVIOUS
<1>3. ASSUME NEW m \in Nat, m + 1 \in 1..L
      PROVE  under[m + 1] = UnderZone(under[m], policies[m + 1])
  <2>1. m + 1 \in 0..L /\ m + 1 # 0 /\ (m + 1) - 1 = m
    BY <1>3
  <2> QED BY <1>1, <2>1
<1> QED BY <1>1, <1>2, <1>3

LEMMA UnderExists ==
    ASSUME NEW props, NEW policies, NEW L \in Nat
    PROVE  \E under : AreUnder(under, props, policies, L)
<1> DEFINE S == {m \in Nat : \E under : AreUnder(under, props, policies, m)}
<1>1. 0 \in S
  <2>1. AreUnder([i \in 0..0 |-> ParseEdgeSemantics(props)], props, policies, 0)
    BY DEF AreUnder
  <2> QED BY <2>1
<1>2. ASSUME NEW m \in Nat, m \in S
      PROVE  m + 1 \in S
  <2>1. PICK f : AreUnder(f, props, policies, m)
    BY <1>2
  <2> DEFINE next == UnderZone(f[m], policies[m + 1])
             g == [i \in 0..(m + 1) |-> IF i = m + 1 THEN next ELSE f[i]]
  <2>2. ASSUME NEW i \in 0..(m + 1)
        PROVE  g[i] = IF i = 0 THEN ParseEdgeSemantics(props)
                      ELSE UnderZone(g[i - 1], policies[i])
    <3>1. CASE i = m + 1
      <4>1. g[i] = next /\ i # 0 /\ i - 1 = m /\ g[i - 1] = f[m]
        BY <3>1
      <4> QED BY <3>1, <4>1
    <3>2. CASE i # m + 1
      <4>1. i \in 0..m /\ g[i] = f[i] /\ (i # 0 => i - 1 \in 0..(m + 1) /\ i - 1 # m + 1)
        BY <3>2
      <4>2. i # 0 => g[i - 1] = f[i - 1]
        BY <4>1
      <4>3. f[i] = IF i = 0 THEN ParseEdgeSemantics(props)
                   ELSE UnderZone(f[i - 1], policies[i])
        BY <2>1, <4>1 DEF AreUnder
      <4> HIDE DEF g
      <4> QED BY <4>1, <4>2, <4>3
    <3> QED BY <3>1, <3>2
  <2>3. g = [i \in 0..(m + 1) |-> g[i]]
    OBVIOUS
  <2> HIDE DEF g
  <2>4. AreUnder(g, props, policies, m + 1)
    BY <2>2, <2>3 DEF AreUnder
  <2> QED BY <2>4
<1>3. L \in S
  <2> HIDE DEF S
  <2> QED BY <1>1, <1>2, NatSet
<1> QED BY <1>3

(* An edge is blocked by its own map or by a wall among its zones.         *)
LEMMA EffectivelyBlocked ==
    ASSUME NEW props, NEW policies, Len(policies) \in Nat
    PROVE  Holds(DeriveEffectiveSemantics(props, policies).blocked) <=>
                \/ Holds(ParseEdgeSemantics(props).blocked)
                \/ \E i \in 1..Len(policies) : Walls(policies[i])
<1> DEFINE L == Len(policies)
           F == CHOOSE g : g = [n \in 0..Len(policies) |->
                    IF n = 0 THEN ParseEdgeSemantics(props)
                    ELSE UnderZone(g[n - 1], policies[n])]
<1>1. DeriveEffectiveSemantics(props, policies) = F[Len(policies)]
  BY Zenon DEF DeriveEffectiveSemantics
<1>2. PICK under : AreUnder(under, props, policies, Len(policies))
  BY UnderExists
<1>3. AreUnder(F, props, policies, Len(policies))
  BY <1>2, Zenon DEF AreUnder
<1> HIDE DEF F
<1>4. PICK f :
        /\ DeriveEffectiveSemantics(props, policies) = f[L]
        /\ f[0] = ParseEdgeSemantics(props)
        /\ \A m \in Nat : m + 1 \in 1..L => f[m + 1] = UnderZone(f[m], policies[m + 1])
  <2>1. /\ F[0] = ParseEdgeSemantics(props)
        /\ \A m \in Nat : m + 1 \in 1..L => F[m + 1] = UnderZone(F[m], policies[m + 1])
    BY <1>3, UnderStep
  <2> QED BY <1>1, <2>1
<1> DEFINE own == Holds(ParseEdgeSemantics(props).blocked)
           S == {m \in Nat : m <= L =>
                    /\ DOMAIN f[m] = SemanticsFields
                    /\ Holds(f[m].blocked) <=> own \/ \E i \in 1..m : Walls(policies[i])}
<1>5. 0 \in S
  <2>1. DOMAIN ParseEdgeSemantics(props) = SemanticsFields
    BY ParsedEdgeSemantics DEF IsSemantics
  <2> QED BY <1>4, <2>1
<1>6. ASSUME NEW m \in Nat, m \in S
      PROVE  m + 1 \in S
  <2> DEFINE wall(n) == own \/ \E i \in 1..n : Walls(policies[i])
  <2> SUFFICES ASSUME m + 1 <= L
               PROVE  /\ DOMAIN f[m + 1] = SemanticsFields
                      /\ Holds(f[m + 1].blocked) <=> wall(m + 1)
    OBVIOUS
  <2>1. DOMAIN f[m] = SemanticsFields /\ (Holds(f[m].blocked) <=> wall(m)) /\ m + 1 \in 1..L
    BY <1>6
  <2>2. f[m + 1] = UnderZone(f[m], policies[m + 1])
    BY <1>4, <2>1
  <2>3. /\ DOMAIN f[m + 1] = SemanticsFields
        /\ Walls(policies[m + 1])  => f[m + 1].blocked = Some(TRUE)
        /\ ~Walls(policies[m + 1]) => f[m + 1].blocked = f[m].blocked
    <3>1. \A s, z : DOMAIN s = SemanticsFields =>
            /\ DOMAIN UnderZone(s, z) = SemanticsFields
            /\ Walls(z)  => UnderZone(s, z).blocked = Some(TRUE)
            /\ ~Walls(z) => UnderZone(s, z).blocked = s.blocked
      BY UnderZoneBlocked
    <3>2. DOMAIN f[m] = SemanticsFields
      BY <2>1
    <3> DEFINE p == policies[m + 1]
               s == f[m]
               r == f[m + 1]
    <3>3. r = UnderZone(s, p) /\ DOMAIN s = SemanticsFields
      BY <2>2, <3>2
    <3> HIDE DEF p, s, r
    <3>4. DOMAIN r = SemanticsFields /\ (Walls(p)  => r.blocked = Some(TRUE))
          /\ (~Walls(p) => r.blocked = s.blocked)
      BY <3>1, <3>3
    <3> QED BY <3>4 DEF p, s, r
  <2>4. wall(m + 1) <=> wall(m) \/ Walls(policies[m + 1])
    <3>1. \A i : i \in 1..(m + 1) <=> i \in 1..m \/ i = m + 1
      OBVIOUS
    <3> QED BY <3>1, Zenon
  <2>5. Holds(Some(TRUE))
    BY DEF Holds, Some
  <2> HIDE DEF wall
  <2>6. CASE Walls(policies[m + 1])
    BY <2>3, <2>4, <2>5, <2>6
  <2>7. CASE ~Walls(policies[m + 1])
    BY <2>1, <2>3, <2>4, <2>7
  <2> QED BY <2>6, <2>7
<1>7. L \in S
  <2> HIDE DEF S
  <2> QED BY <1>5, <1>6, NatSet
<1> QED BY <1>4, <1>7

-----------------------------------------------------------------------------
(* The walk of the zone tree.                                              *)
WalkChildren(doc, i) == Keep([j \in DOMAIN doc.zones |-> j],
                             {j \in DOMAIN doc.zones : doc.zones[j].parent = i})

WalkStep(doc, s) ==
    IF s.pending = << >> THEN s
    ELSE [pending |-> Front(s.pending) \o WalkChildren(doc, Last(s.pending)),
          out     |-> Append(s.out, Last(s.pending))]

AreWalked(step, doc, L) ==
    step = [k \in 0..L |-> IF k = 0 THEN [pending |-> WalkChildren(doc, 0), out |-> << >>]
                           ELSE WalkStep(doc, step[k - 1])]

LEMMA WalkedStep ==
    ASSUME NEW doc, NEW L \in Nat, NEW step, AreWalked(step, doc, L)
    PROVE  /\ step[0] = [pending |-> WalkChildren(doc, 0), out |-> << >>]
           /\ \A m \in Nat : m + 1 \in 1..L => step[m + 1] = WalkStep(doc, step[m])
<1>1. \A k \in 0..L : step[k] = IF k = 0 THEN [pending |-> WalkChildren(doc, 0), out |-> << >>]
                                ELSE WalkStep(doc, step[k - 1])
  BY Zenon DEF AreWalked
<1>2. 0 \in 0..L
  OBVIOUS
<1>3. ASSUME NEW m \in Nat, m + 1 \in 1..L
      PROVE  step[m + 1] = WalkStep(doc, step[m])
  <2>1. m + 1 \in 0..L /\ m + 1 # 0 /\ (m + 1) - 1 = m
    BY <1>3
  <2> QED BY <1>1, <2>1
<1> QED BY <1>1, <1>2, <1>3

LEMMA WalkedExists ==
    ASSUME NEW doc, NEW L \in Nat
    PROVE  \E step : AreWalked(step, doc, L)
<1> DEFINE base == [pending |-> WalkChildren(doc, 0), out |-> << >>]
           S == {m \in Nat : \E step : AreWalked(step, doc, m)}
<1>1. 0 \in S
  <2>1. AreWalked([i \in 0..0 |-> base], doc, 0)
    BY DEF AreWalked
  <2> QED BY <2>1
<1>2. ASSUME NEW m \in Nat, m \in S
      PROVE  m + 1 \in S
  <2>1. PICK f : AreWalked(f, doc, m)
    BY <1>2
  <2> DEFINE next == WalkStep(doc, f[m])
             g == [i \in 0..(m + 1) |-> IF i = m + 1 THEN next ELSE f[i]]
  <2> HIDE DEF base
  <2>2. ASSUME NEW i \in 0..(m + 1)
        PROVE  g[i] = IF i = 0 THEN base ELSE WalkStep(doc, g[i - 1])
    <3>1. CASE i = m + 1
      <4>1. g[i] = next /\ i # 0 /\ i - 1 = m /\ g[i - 1] = f[m]
        BY <3>1
      <4> QED BY <3>1, <4>1
    <3>2. CASE i # m + 1
      <4>1. i \in 0..m /\ g[i] = f[i] /\ (i # 0 => i - 1 \in 0..(m + 1) /\ i - 1 # m + 1)
        BY <3>2
      <4>2. i # 0 => g[i - 1] = f[i - 1]
        BY <4>1
      <4>3. f[i] = IF i = 0 THEN base ELSE WalkStep(doc, f[i - 1])
        BY <2>1, <4>1 DEF AreWalked, base
      <4> HIDE DEF g
      <4> QED BY <4>1, <4>2, <4>3
    <3> QED BY <3>1, <3>2
  <2>3. g = [i \in 0..(m + 1) |-> g[i]]
    OBVIOUS
  <2> HIDE DEF g
  <2>4. AreWalked(g, doc, m + 1)
    BY <2>2, <2>3 DEF AreWalked, base
  <2> QED BY <2>4
<1>3. L \in S
  <2> HIDE DEF S
  <2> QED BY <1>1, <1>2, NatSet
<1> QED BY <1>3

(* The walk visits positions of the tree, whatever ids they bear.          *)
LEMMA WalkVisitsZones ==
    ASSUME NEW doc, IsDocument(doc)
    PROVE  Walk(doc) \in Seq(DOMAIN doc.zones)
<1> DEFINE n == Len(doc.zones)
           D == DOMAIN doc.zones
<1>1. n \in Nat /\ D = 1..n
  BY DEF IsDocument
<1>2. ASSUME NEW i
      PROVE  WalkChildren(doc, i) \in Seq(D)
  <2> DEFINE s == [j \in D |-> j]
             T == {j \in D : doc.zones[j].parent = i}
  <2>1. s \in Seq(D) /\ Len(s) = n
    BY <1>1
  <2>2. Keep(s, T) \in Seq({s[j] : j \in 1..Len(s)} \cap T)
    <3> HIDE DEF s, T, n
    <3> QED BY <1>1, <2>1, KeepIsSound
  <2>3. {s[j] : j \in 1..Len(s)} \cap T \subseteq D
    OBVIOUS
  <2>4. Keep(s, T) \in Seq(D)
    <3> HIDE DEF s, T, D
    <3> QED BY <2>2, <2>3
  <2> QED BY <2>4 DEF WalkChildren
<1> DEFINE F == CHOOSE g : g = [k \in 0..Len(doc.zones) |->
                    IF k = 0 THEN [pending |-> WalkChildren(doc, 0), out |-> << >>]
                    ELSE WalkStep(doc, g[k - 1])]
<1>3. Walk(doc) = F[n].out
  BY Zenon DEF Walk, WalkStep, WalkChildren
<1>4. PICK step : AreWalked(step, doc, n)
  BY <1>1, WalkedExists
<1>5. AreWalked(F, doc, n)
  BY <1>4, Zenon DEF AreWalked
<1> HIDE DEF F
<1>6. PICK f : /\ Walk(doc) = f[n].out
               /\ f[0] = [pending |-> WalkChildren(doc, 0), out |-> << >>]
               /\ \A m \in Nat : m + 1 \in 1..n => f[m + 1] = WalkStep(doc, f[m])
  <2>1. /\ F[0] = [pending |-> WalkChildren(doc, 0), out |-> << >>]
        /\ \A m \in Nat : m + 1 \in 1..n => F[m + 1] = WalkStep(doc, F[m])
    BY <1>1, <1>5, WalkedStep
  <2> QED BY <1>3, <2>1
<1> HIDE DEF D, n
<1> DEFINE Good(s) == s = [pending |-> s.pending, out |-> s.out]
                        /\ s.pending \in Seq(D) /\ s.out \in Seq(D)
<1>7. ASSUME NEW s, Good(s)
      PROVE  Good(WalkStep(doc, s))
  <2>1. CASE s.pending = << >>
    BY <1>7, <2>1 DEF WalkStep
  <2>2. CASE s.pending # << >>
    <3> DEFINE p == s.pending  o == s.out
               t == WalkStep(doc, s)
    <3>1. p \in Seq(D) /\ p # << >> /\ o \in Seq(D)
      BY <1>7, <2>2
    <3>2. Last(p) \in D /\ Front(p) \in Seq(D)
      <4> HIDE DEF p
      <4> QED BY <3>1 DEF Last, Front
    <3>3. t = [pending |-> Front(p) \o WalkChildren(doc, Last(p)), out |-> Append(o, Last(p))]
      BY <2>2 DEF WalkStep
    <3>4. WalkChildren(doc, Last(p)) \in Seq(D)
      BY <1>2
    <3> HIDE DEF p, o, t
    <3>5. Front(p) \o WalkChildren(doc, Last(p)) \in Seq(D) /\ Append(o, Last(p)) \in Seq(D)
      BY <3>1, <3>2, <3>4
    <3>6. Good(t)
      BY <3>3, <3>5
    <3> QED BY <3>6 DEF t
  <2> QED BY <2>1, <2>2
<1> DEFINE S == {m \in Nat : m <= n => Good(f[m])}
<1>8. 0 \in S
  <2> DEFINE c == WalkChildren(doc, 0)
  <2>1. f[0] = [pending |-> c, out |-> << >>] /\ c \in Seq(D) /\ << >> \in Seq(D)
    BY <1>2, <1>6
  <2> HIDE DEF c
  <2>2. f[0].pending = c /\ f[0].out = << >>
    BY <2>1
  <2>3. Good(f[0])
    BY <2>1, <2>2
  <2> HIDE DEF Good
  <2> QED BY <2>3
<1>9. ASSUME NEW m \in Nat, m \in S
      PROVE  m + 1 \in S
  <2> SUFFICES ASSUME m + 1 <= n PROVE Good(f[m + 1])
    OBVIOUS
  <2>1. Good(f[m]) /\ m + 1 \in 1..n
    BY <1>1, <1>9
  <2>2. f[m + 1] = WalkStep(doc, f[m])
    BY <1>6, <2>1
  <2> HIDE DEF Good
  <2> QED BY <1>7, <2>1, <2>2
<1>10. n \in S
  <2> HIDE DEF S
  <2> QED BY <1>1, <1>8, <1>9, NatSet
<1> QED BY <1>1, <1>6, <1>10 DEF D

-----------------------------------------------------------------------------
(* Parents and ancestors.                                                  *)
LEMMA LastMet ==
    ASSUME NEW n \in Nat, NEW K, K \subseteq 1..n, K # {}
    PROVE  (CHOOSE k \in K : \A j \in K : j <= k) \in K
<1> DEFINE M == {m \in Nat : n - m \in K}
<1>1. M \subseteq Nat /\ M # {}
  <2>1. PICK k : k \in K
    OBVIOUS
  <2>2. n - k \in Nat /\ n - (n - k) = k
    BY <2>1
  <2> QED BY <2>1, <2>2
<1>2. PICK m \in M : \A j \in M : m <= j
  <2> HIDE DEF M
  <2> QED BY <1>1, LeastNat
<1>3. n - m \in K
  BY <1>2
<1>4. ASSUME NEW j \in K PROVE j <= n - m
  <2>1. j \in 1..n /\ n - j \in Nat /\ n - (n - j) = j
    OBVIOUS
  <2>2. m <= n - j /\ m \in Nat
    BY <1>2, <2>1
  <2> QED BY <2>1, <2>2
<1>5. \E k \in K : \A j \in K : j <= k
  BY <1>3, <1>4
<1> QED BY <1>5, Zenon

(* A zone's parent is an entry that stands before one of the zone's own.    *)
LEMMA ParentsComeFirst ==
    ASSUME NEW doc, IsDocument(doc)
    PROVE  /\ DOMAIN Parents(doc) \subseteq Ids(doc.zones)
           /\ \A z \in DOMAIN Parents(doc) :
                \E i \in DOMAIN doc.zones : \E p \in 1..(i - 1) :
                    /\ doc.zones[i].id = z
                    /\ p \in DOMAIN doc.zones /\ doc.zones[p].id = Parents(doc)[z]
<1> DEFINE walk == Walk(doc)
           met(z) == {k \in DOMAIN walk : /\ doc.zones[walk[k]].id = z
                                          /\ doc.zones[walk[k]].parent # 0}
           last(z) == CHOOSE k \in met(z) : \A j \in met(z) : j <= k
           up(z) == doc.zones[doc.zones[walk[last(z)]].parent].id
           P == {y \in Ids(doc.zones) : met(y) # {}}
<1>1. Parents(doc) = [z \in P |-> up(z)]
  <2> DEFINE Met == [z \in Ids(doc.zones) |-> met(z)]
             chosen(z) == CHOOSE k \in Met[z] : \A j \in Met[z] : j <= k
  <2>1. Parents(doc) = [z \in {y \in Ids(doc.zones) : Met[y] # {}} |->
                            doc.zones[doc.zones[walk[chosen(z)]].parent].id]
    BY Zenon DEF Parents
  <2>2. \A z \in Ids(doc.zones) : Met[z] = met(z)
    <3> HIDE DEF met
    <3> QED OBVIOUS
  <2> HIDE DEF met, Met
  <2>3. P = {y \in Ids(doc.zones) : Met[y] # {}}
    BY <2>2
  <2>4. \A z \in P : chosen(z) = last(z)
    BY <2>2, Zenon
  <2> HIDE DEF P, chosen, last
  <2> QED BY <2>1, <2>3, <2>4
<1>2. walk \in Seq(DOMAIN doc.zones) /\ Len(walk) \in Nat /\ DOMAIN walk = 1..Len(walk)
      /\ \A k \in DOMAIN walk : walk[k] \in DOMAIN doc.zones
  BY WalkVisitsZones
<1>3. ASSUME NEW z \in P
      PROVE  \E i \in DOMAIN doc.zones : \E p \in 1..(i - 1) :
                    /\ doc.zones[i].id = z
                    /\ p \in DOMAIN doc.zones /\ doc.zones[p].id = up(z)
  <2> DEFINE K == met(z)
  <2>1. K \subseteq 1..Len(walk) /\ K # {}
    BY <1>2
  <2>2. last(z) \in K
    <3> HIDE DEF K, walk
    <3> QED BY <1>2, <2>1, LastMet DEF K
  <2> DEFINE i == walk[last(z)]
             p == doc.zones[i].parent
  <2>3. i \in DOMAIN doc.zones /\ doc.zones[i].id = z /\ p # 0
    <3> HIDE DEF walk, last
    <3> QED BY <1>2, <2>2
  <2>4. DOMAIN doc.zones = 1..Len(doc.zones) /\ Len(doc.zones) \in Nat /\ p \in 0..(i - 1)
    <3> HIDE DEF i
    <3> QED BY <2>3 DEF IsDocument
  <2>5. up(z) = doc.zones[p].id
    OBVIOUS
  <2> HIDE DEF up, p, i
  <2>6. p \in 1..(i - 1) /\ p \in DOMAIN doc.zones
    BY <2>3, <2>4
  <2> QED BY <2>3, <2>5, <2>6
<1> HIDE DEF up, met
<1> QED BY <1>1, <1>3

(* The parents of a set of zones.                                          *)
Above(parents, U) == {parents[y] : y \in U \cap DOMAIN parents}

AreUp(up, parents, z, L) ==
    up = [k \in 0..L |-> IF k = 0 THEN {z}
                         ELSE Above(parents, up[k - 1])]

Climbs(up, parents, z, L) ==
    /\ up[0] = {z}
    /\ \A m \in Nat : m + 1 \in 1..L => up[m + 1] = Above(parents, up[m])

Climbed(up, L) == UNION {up[k] : k \in 1..L}

LEMMA UpStep ==
    ASSUME NEW parents, NEW z, NEW L \in Nat, NEW up, AreUp(up, parents, z, L)
    PROVE  Climbs(up, parents, z, L)
<1>1. \A k \in 0..L : up[k] = IF k = 0 THEN {z}
                              ELSE Above(parents, up[k - 1])
  BY Zenon DEF AreUp
<1>2. 0 \in 0..L
  OBVIOUS
<1>3. ASSUME NEW m \in Nat, m + 1 \in 1..L
      PROVE  up[m + 1] = Above(parents, up[m])
  <2>1. m + 1 \in 0..L /\ m + 1 # 0 /\ (m + 1) - 1 = m
    BY <1>3
  <2> QED BY <1>1, <2>1
<1> QED BY <1>1, <1>2, <1>3 DEF Climbs

LEMMA UpExists ==
    ASSUME NEW parents, NEW z, NEW L \in Nat
    PROVE  \E up : AreUp(up, parents, z, L)
<1> DEFINE S == {m \in Nat : \E up : AreUp(up, parents, z, m)}
<1>1. 0 \in S
  <2>1. AreUp([i \in 0..0 |-> {z}], parents, z, 0)
    BY DEF AreUp
  <2> QED BY <2>1
<1>2. ASSUME NEW m \in Nat, m \in S
      PROVE  m + 1 \in S
  <2>1. PICK f : AreUp(f, parents, z, m)
    BY <1>2
  <2> DEFINE g == [i \in 0..(m + 1) |-> IF i = m + 1 THEN Above(parents, f[m]) ELSE f[i]]
  <2>2. ASSUME NEW i \in 0..(m + 1)
        PROVE  g[i] = IF i = 0 THEN {z} ELSE Above(parents, g[i - 1])
    <3>1. CASE i = m + 1
      <4>1. g[i] = Above(parents, f[m]) /\ i # 0 /\ i - 1 = m /\ g[i - 1] = f[m]
        BY <3>1
      <4> QED BY <3>1, <4>1
    <3>2. CASE i # m + 1
      <4>1. i \in 0..m /\ g[i] = f[i] /\ (i # 0 => i - 1 \in 0..(m + 1) /\ i - 1 # m + 1)
        BY <3>2
      <4>2. i # 0 => g[i - 1] = f[i - 1]
        BY <4>1
      <4>3. f[i] = IF i = 0 THEN {z} ELSE Above(parents, f[i - 1])
        BY <2>1, <4>1 DEF AreUp
      <4> HIDE DEF g
      <4> QED BY <4>1, <4>2, <4>3
    <3> QED BY <3>1, <3>2
  <2>3. g = [i \in 0..(m + 1) |-> g[i]]
    OBVIOUS
  <2> HIDE DEF g
  <2>4. AreUp(g, parents, z, m + 1)
    BY <2>2, <2>3 DEF AreUp
  <2> QED BY <2>4
<1>3. L \in S
  <2> HIDE DEF S
  <2> QED BY <1>1, <1>2, NatSet
<1> QED BY <1>3

LEMMA AncestorsUnfold ==
    ASSUME NEW parents, NEW zones, NEW C \in Nat, C = Cardinality(zones), NEW z
    PROVE  \E up : AncestorsIn(parents, zones, z) = Climbed(up, C) /\ Climbs(up, parents, z, C)
<1> DEFINE F == CHOOSE g : g = [k \in 0..Cardinality(zones) |->
                    IF k = 0 THEN {z} ELSE Above(parents, g[k - 1])]
<1>1. AncestorsIn(parents, zones, z) = Climbed(F, Cardinality(zones))
  BY Zenon DEF AncestorsIn, Above, Climbed
<1>2. PICK up : AreUp(up, parents, z, C)
  BY UpExists
<1>3. AreUp(F, parents, z, C)
  <2>1. AreUp(up, parents, z, Cardinality(zones))
    BY <1>2
  <2>2. AreUp(F, parents, z, Cardinality(zones))
    BY <2>1, Zenon DEF AreUp
  <2> HIDE DEF F
  <2> QED BY <2>2
<1> HIDE DEF F
<1>4. Climbs(F, parents, z, C)
  BY <1>3, UpStep, Zenon
<1> QED BY <1>1, <1>4, Zenon

(* When every parent stands before its child and there are no fewer zones   *)
(* than places, a zone's ancestors are its parent and the parent's, and no  *)
(* zone is among its own: `at' is where a zone stands.                     *)
LEMMA AncestorsOfAForest ==
    ASSUME NEW zones, NEW C \in Nat, C = Cardinality(zones),
           NEW at \in [zones -> 1..C],
           NEW parents, DOMAIN parents \subseteq zones,
           \A z \in DOMAIN parents : parents[z] \in zones /\ at[parents[z]] < at[z]
    PROVE  \A z \in zones :
             LET anc(y) == AncestorsIn(parents, zones, y) IN
             /\ anc(z) \subseteq zones
             /\ z \notin anc(z)
             /\ anc(z) = IF z \in DOMAIN parents THEN {parents[z]} \cup anc(parents[z]) ELSE {}
<1> DEFINE anc(y) == AncestorsIn(parents, zones, y)
<1>1. ASSUME NEW z
      PROVE  \E up : anc(z) = Climbed(up, C) /\ Climbs(up, parents, z, C)
  BY AncestorsUnfold, Zenon
<1> USE DEF Climbs, Climbed
(* Each step up goes at least one place down.                              *)
<1>2. ASSUME NEW z \in zones, NEW up, Climbs(up, parents, z, C)
      PROVE  \A m \in 0..C : up[m] \subseteq {y \in zones : at[y] <= at[z] - m}
  <2> DEFINE S == {m \in Nat : m <= C => up[m] \subseteq {y \in zones : at[y] <= at[z] - m}}
  <2>1. 0 \in S
    BY <1>2
  <2>2. ASSUME NEW m \in Nat, m \in S
        PROVE  m + 1 \in S
    <3> SUFFICES ASSUME m + 1 <= C, NEW x \in up[m + 1]
                 PROVE  x \in zones /\ at[x] <= at[z] - (m + 1)
      OBVIOUS
    <3>1. m + 1 \in 1..C /\ up[m] \subseteq {y \in zones : at[y] <= at[z] - m}
      BY <2>2
    <3>2. up[m + 1] = Above(parents, up[m])
      BY <1>2, <3>1
    <3>3. PICK y \in up[m] \cap DOMAIN parents : x = parents[y]
      BY <3>2 DEF Above
    <3>4. x \in zones /\ at[x] < at[y] /\ at[y] <= at[z] - m /\ y \in zones
      BY <3>1, <3>3
    <3>5. at[x] \in Nat /\ at[y] \in Nat /\ at[z] \in Nat
      BY <3>4
    <3> QED BY <3>4, <3>5
  <2>3. Nat \subseteq S
    <3> HIDE DEF S
    <3> QED BY <2>1, <2>2, NatSet
  <2> QED BY <2>3
<1> SUFFICES ASSUME NEW z \in zones
             PROVE  /\ anc(z) \subseteq zones
                    /\ z \notin anc(z)
                    /\ anc(z) = IF z \in DOMAIN parents
                                THEN {parents[z]} \cup anc(parents[z]) ELSE {}
  BY Zenon
<1>3. PICK up : anc(z) = Climbed(up, C) /\ Climbs(up, parents, z, C)
  BY <1>1
<1>4. \A m \in 0..C : up[m] \subseteq {y \in zones : at[y] <= at[z] - m}
  BY <1>2, <1>3
<1>5. \A x \in anc(z) : x \in zones /\ at[x] < at[z]
  <2> SUFFICES ASSUME NEW k \in 1..C, NEW x \in up[k]
               PROVE  x \in zones /\ at[x] < at[z]
    BY <1>3, Zenon
  <2>1. k \in 0..C /\ x \in zones /\ at[x] <= at[z] - k
    BY <1>4
  <2>2. at[x] \in Nat /\ at[z] \in Nat
    BY <2>1
  <2> QED BY <2>1, <2>2
<1>6. at[z] \in 1..C
  OBVIOUS
<1>7. CASE z \notin DOMAIN parents
  <2> DEFINE S == {m \in Nat : m + 1 <= C => up[m + 1] = {}}
  <2>1. 0 \in S
    <3>1. Above(parents, {z}) = {}
      BY <1>7 DEF Above
    <3>2. 0 + 1 <= C => 0 + 1 \in 1..C /\ 0 \in Nat
      OBVIOUS
    <3>3. 0 + 1 <= C => up[0 + 1] = Above(parents, {z})
      BY <1>3, <3>2
    <3> QED BY <3>1, <3>3
  <2>2. ASSUME NEW m \in Nat, m \in S
        PROVE  m + 1 \in S
    <3> SUFFICES ASSUME (m + 1) + 1 <= C PROVE up[(m + 1) + 1] = {}
      OBVIOUS
    <3>1. Above(parents, {}) = {}
      BY DEF Above
    <3>2. m + 1 \in Nat /\ (m + 1) + 1 \in 1..C /\ up[m + 1] = {}
      BY <2>2
    <3> QED BY <1>3, <3>1, <3>2
  <2>3. Nat \subseteq S
    <3> HIDE DEF S
    <3> QED BY <2>1, <2>2, NatSet
  <2>4. \A k \in 1..C : up[k] = {}
    <3> SUFFICES ASSUME NEW k \in 1..C PROVE up[k] = {}
      OBVIOUS
    <3>1. k - 1 \in Nat /\ (k - 1) + 1 = k /\ k <= C
      OBVIOUS
    <3>2. k - 1 \in S
      BY <2>3, <3>1
    <3> QED BY <3>1, <3>2
  <2>5. anc(z) = {}
    BY <1>3, <2>4
  <2> HIDE DEF anc
  <2> QED BY <1>7, <2>5
<1>8. CASE z \in DOMAIN parents
  <2> DEFINE w == parents[z]
  <2>1. w \in zones /\ at[w] < at[z]
    BY <1>8
  <2>2. PICK wp : anc(w) = Climbed(wp, C) /\ Climbs(wp, parents, w, C)
    BY <1>1
  <2>3. \A m \in 0..C : wp[m] \subseteq {y \in zones : at[y] <= at[w] - m}
    BY <1>2, <2>1, <2>2
  <2> DEFINE S == {m \in Nat : m + 1 <= C => up[m + 1] = wp[m]}
  <2>4. 0 \in S
    <3> SUFFICES ASSUME 0 + 1 <= C PROVE up[0 + 1] = wp[0]
      OBVIOUS
    <3>1. 0 + 1 \in 1..C /\ up[0] = {z}
      BY <1>3
    <3>2. up[0 + 1] = Above(parents, {z})
      BY <1>3, <3>1
    <3>3. Above(parents, {z}) = {w}
      BY <1>8 DEF Above
    <3> QED BY <2>2, <3>2, <3>3
  <2>5. ASSUME NEW m \in Nat, m \in S
        PROVE  m + 1 \in S
    <3> SUFFICES ASSUME (m + 1) + 1 <= C PROVE up[(m + 1) + 1] = wp[m + 1]
      OBVIOUS
    <3>1. m + 1 \in Nat /\ (m + 1) + 1 \in 1..C /\ m + 1 \in 1..C /\ up[m + 1] = wp[m]
      BY <2>5
    <3>2. up[(m + 1) + 1] = Above(parents, up[m + 1])
      BY <1>3, <3>1
    <3>3. wp[m + 1] = Above(parents, wp[m])
      BY <2>2, <3>1
    <3> QED BY <3>1, <3>2, <3>3
  <2>6. Nat \subseteq S
    <3> HIDE DEF S
    <3> QED BY <2>4, <2>5, NatSet
  <2>7. \A m \in Nat : m + 1 <= C => up[m + 1] = wp[m]
    BY <2>6
  <2>8. wp[C] = {}
    <3>1. C \in 0..C /\ at[w] \in 1..C
      BY <2>1
    <3>2. \A y \in zones : at[y] \in 1..C
      OBVIOUS
    <3> QED BY <2>3, <3>1, <3>2
  <2>9. anc(z) = {w} \cup anc(w)
    <3>1. ASSUME NEW x \in anc(z) PROVE x \in {w} \cup anc(w)
      <4>1. PICK k \in 1..C : x \in up[k]
        BY <1>3
      <4>2. k - 1 \in Nat /\ (k - 1) + 1 = k /\ k <= C
        OBVIOUS
      <4>3. x \in wp[k - 1]
        BY <2>7, <4>1, <4>2
      <4>4. CASE k = 1
        BY <2>2, <4>3, <4>4
      <4>5. CASE k # 1
        <5>1. k - 1 \in 1..C
          BY <4>5
        <5> QED BY <2>2, <4>3, <5>1
      <4> QED BY <4>4, <4>5
    <3>2. w \in anc(z)
      <4>1. 1 \in 1..C /\ 0 + 1 = 1
        BY <1>6
      <4>2. up[1] = wp[0]
        BY <2>7, <4>1
      <4> QED BY <1>3, <2>2, <4>1, <4>2
    <3>3. ASSUME NEW x \in anc(w) PROVE x \in anc(z)
      <4>1. PICK k \in 1..C : x \in wp[k]
        BY <2>2
      <4>2. k # C
        BY <2>8, <4>1
      <4>3. k \in Nat /\ k + 1 \in 1..C
        BY <4>2
      <4>4. x \in up[k + 1]
        BY <2>7, <4>1, <4>3
      <4> QED BY <1>3, <4>3, <4>4
    <3> HIDE DEF anc
    <3> QED BY <3>1, <3>2, <3>3
  <2> HIDE DEF anc
  <2> QED BY <1>5, <1>6, <1>8, <2>9
<1>9. anc(z) \subseteq zones /\ z \notin anc(z)
  <2> HIDE DEF anc
  <2> QED BY <1>5, <1>6
<1>10. anc(z) = IF z \in DOMAIN parents THEN {parents[z]} \cup anc(parents[z]) ELSE {}
  BY <1>7, <1>8
<1> QED BY <1>9, <1>10

-----------------------------------------------------------------------------
(* What validation is good for: every id and every number names one entry.  *)
LEMMA IdsAreFinite ==
    ASSUME NEW entries, IsFiniteSet(DOMAIN entries)
    PROVE  IsFiniteSet(Ids(entries))
<1> DEFINE f == [i \in DOMAIN entries |-> entries[i].id]
<1>1. f \in Surjection(DOMAIN entries, Ids(entries))
  BY DEF Surjection, Ids
<1> QED BY <1>1, FS_Surjection

LEMMA TwoOfThem ==
    ASSUME NEW S, IsFiniteSet(S), NEW x \in S, NEW y \in S, x # y
    PROVE  Cardinality(S) > 1
<1>1. Cardinality({x, y}) = 2
  <2>1. IsFiniteSet({x}) /\ Cardinality({x}) = 1
    BY FS_Singleton
  <2>2. Cardinality({x} \cup {y}) = Cardinality({x}) + 1
    <3>1. y \notin {x}
      OBVIOUS
    <3> QED BY <2>1, <3>1, FS_AddElement
  <2>3. {x} \cup {y} = {x, y}
    OBVIOUS
  <2>4. Cardinality({x, y}) = Cardinality({x}) + 1
    BY <2>2, <2>3, Zenon
  <2> QED BY <2>1, <2>4
<1>2. {x, y} \in SUBSET S
  OBVIOUS
<1>3. Cardinality({x, y}) <= Cardinality(S) /\ Cardinality(S) \in Nat
  BY <1>2, FS_Subset, FS_CardinalityType
<1> QED BY <1>1, <1>3

IsList(entries) == Len(entries) \in Nat /\ DOMAIN entries = 1..Len(entries)

LEMMA NoTwins ==
    ASSUME NEW entries, IsList(entries),
           Repeated(entries) \subseteq {Nil}, Nil \notin Ids(entries)
    PROVE  \A i, j \in DOMAIN entries : entries[i].id = entries[j].id => i = j
<1> SUFFICES ASSUME NEW i \in DOMAIN entries, NEW j \in DOMAIN entries,
                    entries[i].id = entries[j].id, i # j
             PROVE  FALSE
  OBVIOUS
<1> DEFINE id == entries[i].id
           named == Named(entries, id)
<1>1. id \in Ids(entries) /\ id \notin Repeated(entries)
  BY DEF Ids
<1>2. ~(Cardinality(named) > 1)
  BY <1>1 DEF Repeated
<1>3. named \in SUBSET (1..Len(entries)) /\ i \in named /\ j \in named
  BY DEF Named, IsList
<1>4. IsFiniteSet(named)
  <2>1. IsFiniteSet(1..Len(entries))
    BY FS_Interval DEF IsList
  <2> HIDE DEF named
  <2> QED BY <1>3, <2>1, FS_Subset
<1> HIDE DEF named
<1> QED BY <1>2, <1>3, <1>4, TwoOfThem

LEMMA NoSharedNumber ==
    ASSUME NEW entries, IsList(entries), RepeatedAliases(entries) = {},
           NEW i \in DOMAIN entries, NEW j \in DOMAIN entries, entries[i].id # entries[j].id
    PROVE  entries[i].numeric \cap entries[j].numeric = {}
<1> SUFFICES ASSUME NEW n \in entries[i].numeric, n \in entries[j].numeric PROVE FALSE
  OBVIOUS
<1> DEFINE bearers == Bearers(entries, n)
<1>1. ~(Cardinality(bearers) > 1)
  BY DEF RepeatedAliases
<1>2. entries[i].id \in bearers /\ entries[j].id \in bearers /\ bearers \in SUBSET Ids(entries)
  BY DEF Bearers, Ids
<1>3. IsFiniteSet(bearers)
  <2>1. IsFiniteSet(1..Len(entries))
    BY FS_Interval DEF IsList
  <2>2. IsFiniteSet(DOMAIN entries)
    BY <2>1, Zenon DEF IsList
  <2>3. IsFiniteSet(Ids(entries))
    BY <2>2, IdsAreFinite
  <2> HIDE DEF bearers
  <2> QED BY <1>2, <2>3, FS_Subset
<1> HIDE DEF bearers
<1> QED BY <1>1, <1>2, <1>3, TwoOfThem

LEMMA EmptyProduct ==
    ASSUME NEW c, NEW S, {c} \X S = {}
    PROVE  S = {}
<1> SUFFICES ASSUME NEW x \in S PROVE FALSE
  OBVIOUS
<1>1. <<c, x>> \in {c} \X S
  OBVIOUS
<1> QED BY <1>1

(* Ids and numbers name at most one entry of each list.                    *)
NamesAreUnique(entries) ==
    \A i, j \in DOMAIN entries :
        i # j => /\ entries[i].id # entries[j].id
                 /\ entries[i].numeric \cap entries[j].numeric = {}

LEMMA ValidNames ==
    ASSUME NEW doc, IsDocument(doc), IdErrors(doc) = {}
    PROVE  \A entries \in {doc.zones, doc.nodes, doc.edges} :
                IsList(entries) /\ Nil \notin Ids(entries) /\ NamesAreUnique(entries)
<1> DEFINE twice == Repeated(doc.zones) \cup ((Repeated(doc.nodes) \cup Repeated(doc.edges)) \ {Nil})
           again == RepeatedAliases(doc.zones) \cup RepeatedAliases(doc.nodes)
                        \cup RepeatedAliases(doc.edges)
           nil == {Nil} \cap (Ids(doc.zones) \cup Ids(doc.nodes) \cup Ids(doc.edges))
<1>1. IdErrors(doc) = ({"duplicate_id"} \X twice) \cup ({"duplicate_numeric_id"} \X again)
                        \cup ({"missing_id"} \X nil)
  BY Zenon DEF IdErrors
<1>2. twice = {} /\ again = {} /\ nil = {}
  <2> HIDE DEF twice, again, nil
  <2>1. {"duplicate_id"} \X twice = {} /\ {"duplicate_numeric_id"} \X again = {}
        /\ {"missing_id"} \X nil = {}
    BY <1>1
  <2> QED BY <2>1, EmptyProduct
<1> SUFFICES ASSUME NEW entries \in {doc.zones, doc.nodes, doc.edges}
             PROVE  IsList(entries) /\ Nil \notin Ids(entries) /\ NamesAreUnique(entries)
  OBVIOUS
<1>3. IsList(entries)
  BY Zenon DEF IsDocument, IsList
<1>4. /\ Repeated(entries) \subseteq {Nil} /\ Nil \notin Ids(entries)
      /\ RepeatedAliases(entries) = {}
  BY <1>2
<1>5. \A i, j \in DOMAIN entries : entries[i].id = entries[j].id => i = j
  BY <1>3, <1>4, NoTwins, Zenon
<1>6. \A i, j \in DOMAIN entries : i # j => entries[i].numeric \cap entries[j].numeric = {}
  BY <1>3, <1>4, <1>5, NoSharedNumber
<1> QED BY <1>3, <1>4, <1>5, <1>6, Zenon DEF NamesAreUnique

(* The first of a name is then the only one.                               *)
LEMMA TheOneNamed ==
    ASSUME NEW entries, IsList(entries), NamesAreUnique(entries), NEW i \in DOMAIN entries
    PROVE  FirstNamed(entries, entries[i].id) = entries[i]
<1>1. Named(entries, entries[i].id) = {i}
  BY DEF Named, NamesAreUnique
<1>2. i \in Nat
  BY DEF IsList
<1>3. (CHOOSE k \in {i} : \A j \in {i} : k <= j) = i
  BY <1>2
<1> QED BY <1>1, <1>3, Zenon DEF FirstNamed

-----------------------------------------------------------------------------
(* The zones of a valid document are a forest.                             *)
LEMMA ZonesAreAForest ==
    ASSUME NEW doc, IsDocument(doc), IdErrors(doc) = {}
    PROVE  LET zones == Ids(doc.zones)  parents == Parents(doc)
               anc(z) == AncestorsIn(parents, zones, z)
           IN  /\ DOMAIN parents \subseteq zones
               /\ \A z \in DOMAIN parents : parents[z] \in zones
               /\ \A z \in zones :
                    /\ anc(z) \subseteq zones
                    /\ z \notin anc(z)
                    /\ anc(z) = IF z \in DOMAIN parents
                                THEN {parents[z]} \cup anc(parents[z]) ELSE {}
<1> DEFINE zones == Ids(doc.zones)
           parents == Parents(doc)
           n == Len(doc.zones)
           f == [i \in 1..n |-> doc.zones[i].id]
           at == [z \in zones |-> CHOOSE i \in 1..n : doc.zones[i].id = z]
<1>1. n \in Nat /\ DOMAIN doc.zones = 1..n
  BY ValidNames DEF IsList
<1>2. \A i, j \in 1..n : doc.zones[i].id = doc.zones[j].id => i = j
  BY <1>1, ValidNames DEF NamesAreUnique
<1>3. zones = {doc.zones[i].id : i \in 1..n}
  BY <1>1 DEF Ids
<1>4. Cardinality(zones) = n
  <2>1. f \in Injection(1..n, zones) /\ f \in Surjection(1..n, zones)
    BY <1>2, <1>3 DEF Injection, IsInjective, Surjection
  <2>2. IsFiniteSet(1..n) /\ Cardinality(1..n) = n
    <3> HIDE DEF n
    <3>1. IsFiniteSet(1..n) /\ Cardinality(1..n) = IF 1 > n THEN 0 ELSE n - 1 + 1
      BY <1>1, FS_Interval
    <3>2. (IF 1 > n THEN 0 ELSE n - 1 + 1) = n
      BY <1>1
    <3> QED BY <3>1, <3>2
  <2>3. ExistsBijection(1..n, zones)
    <3> HIDE DEF f, zones, n
    <3> QED BY <2>1 DEF ExistsBijection, Bijection
  <2> HIDE DEF f, zones
  <2>4. Cardinality(zones) = Cardinality(1..n)
    BY <2>2, <2>3, FS_Bijection
  <2> QED BY <2>2, <2>4
<1>5. at \in [zones -> 1..n] /\ \A i \in 1..n : at[doc.zones[i].id] = i
  <2>1. \A z \in zones : \E i \in 1..n : doc.zones[i].id = z
    BY <1>3
  <2>2. \A z \in zones : at[z] \in 1..n /\ doc.zones[at[z]].id = z
    <3> HIDE DEF zones, n
    <3> QED BY <2>1
  <2>3. at = [z \in zones |-> at[z]]
    OBVIOUS
  <2>4. \A i \in 1..n : doc.zones[i].id \in zones
    BY <1>3
  <2> HIDE DEF at, zones, n
  <2>5. at \in [zones -> 1..n]
    BY <2>2, <2>3
  <2> QED BY <1>2, <2>2, <2>4, <2>5
<1>6. DOMAIN parents \subseteq zones
  BY ParentsComeFirst
<1>7. \A z \in DOMAIN parents : parents[z] \in zones /\ at[parents[z]] < at[z]
  <2> SUFFICES ASSUME NEW z \in DOMAIN parents
               PROVE  parents[z] \in zones /\ at[parents[z]] < at[z]
    OBVIOUS
  <2>1. PICK i \in DOMAIN doc.zones : \E p \in 1..(i - 1) :
                    /\ doc.zones[i].id = z
                    /\ p \in DOMAIN doc.zones /\ doc.zones[p].id = parents[z]
    BY ParentsComeFirst
  <2>2. PICK p \in 1..(i - 1) : /\ doc.zones[i].id = z
                                /\ p \in DOMAIN doc.zones /\ doc.zones[p].id = parents[z]
    BY <2>1
  <2>3. at[z] = i /\ at[parents[z]] = p /\ p < i
    <3> HIDE DEF at, parents, n
    <3> QED BY <1>1, <1>5, <2>1, <2>2
  <2>4. parents[z] \in zones
    BY <2>2 DEF Ids
  <2> QED BY <2>3, <2>4
<1> HIDE DEF at, zones, parents, n
<1>8. \A z \in zones :
             LET anc(y) == AncestorsIn(parents, zones, y) IN
             /\ anc(z) \subseteq zones
             /\ z \notin anc(z)
             /\ anc(z) = IF z \in DOMAIN parents THEN {parents[z]} \cup anc(parents[z]) ELSE {}
  BY <1>1, <1>4, <1>5, <1>6, <1>7, AncestorsOfAForest
<1> QED BY <1>6, <1>7, <1>8, Zenon DEF zones, parents

(* What claims read of a zone's policy.                                    *)
LEMMA PolicyForClaims ==
    ASSUME NEW p, IsPolicy(p)
    PROVE  [exclusive |-> p.kind = "ExclusiveAccess", explicit |-> p.capacity_is_explicit,
            capacity |-> p.capacity] \in ZonePolicy
<1>1. (p.kind = "ExclusiveAccess") \in BOOLEAN
  BY Zenon
<1> DEFINE x == p.kind = "ExclusiveAccess"
           r == [exclusive |-> x, explicit |-> p.capacity_is_explicit, capacity |-> p.capacity]
<1>2. x \in BOOLEAN
  BY <1>1
<1> HIDE DEF x
<1>3. r \in [exclusive : BOOLEAN, explicit : BOOLEAN, capacity : Nat \ {0}]
      /\ (r.explicit \/ r.capacity = 1)
  BY <1>2 DEF IsPolicy
<1>4. r \in ZonePolicy
  BY <1>3 DEF ZonePolicy
<1> QED BY <1>4 DEF x

LEMMA UnknownZonePolicyIsNone == UnknownZonePolicy \notin ZonePolicy
BY DEF UnknownZonePolicy, ZonePolicy

(* The zones of an edge are those of its list that exist.                  *)
LEMMA EdgeZones ==
    ASSUME NEW doc, IsDocument(doc), NEW e
    PROVE  LET index == Rebuild(doc) IN
           /\ ZonesOfEdge(index, e) \in Seq(index.zones)
           /\ ToSet(ZonesOfEdge(index, e)) \subseteq index.zones
<1> DEFINE index == Rebuild(doc)
           zs == ZonesOfEdge(index, e)
<1>1. zs \in Seq(index.zones)
  <2>1. CASE e \notin DOMAIN index.edges
    BY <2>1 DEF ZonesOfEdge
  <2>2. CASE e \in DOMAIN index.edges
    <3> DEFINE q == index.edges[e].zones
    <3>1. e \in Ids(doc.edges) /\ index.edges[e] = FirstNamed(doc.edges, e)
      BY <2>2 DEF Rebuild
    <3>2. PICK i \in DOMAIN doc.edges : FirstNamed(doc.edges, e) = doc.edges[i]
      <4> DEFINE K == Named(doc.edges, e)
                 first == CHOOSE i \in K : \A j \in K : i <= j
      <4>1. Len(doc.edges) \in Nat /\ DOMAIN doc.edges = 1..Len(doc.edges)
        BY Zenon DEF IsDocument
      <4>2. K \subseteq Nat /\ K # {} /\ K \subseteq DOMAIN doc.edges
        BY <3>1, <4>1 DEF Named, Ids
      <4>3. \E i \in K : \A j \in K : i <= j
        <5> HIDE DEF K
        <5> QED BY <4>2, LeastNat
      <4>4. first \in K
        BY <4>3, Zenon
      <4>5. FirstNamed(doc.edges, e) = doc.edges[first]
        BY Zenon DEF FirstNamed
      <4> HIDE DEF first, K
      <4> QED BY <4>2, <4>4, <4>5
    <3>3. Len(q) \in Nat
      BY <3>1, <3>2 DEF IsDocument
    <3>4. zs = Keep(q, index.zones)
      BY <2>2 DEF ZonesOfEdge
    <3> HIDE DEF q, zs, index
    <3>5. Keep(q, index.zones) \in Seq({q[j] : j \in 1..Len(q)} \cap index.zones)
      BY <3>3, KeepIsSound
    <3> QED BY <3>4, <3>5
  <2> QED BY <2>1, <2>2
<1>2. ToSet(zs) \subseteq index.zones
  <2> HIDE DEF zs, index
  <2> QED BY <1>1 DEF ToSet
<1> QED BY <1>1, <1>2

(* A document that passes validation makes an index the claim rules can     *)
(* rely on.                                                                *)
THEOREM ValidDocumentIsAWorkspace ==
    ASSUME NEW doc, IsDocument(doc), ValidationErrors(Rebuild(doc)) = {}
    PROVE  /\ IsWorkspace(AsWorkspace(Rebuild(doc)))
           /\ \A entries \in {doc.zones, doc.nodes, doc.edges} : NamesAreUnique(entries)
<1> DEFINE index == Rebuild(doc)
           ws == AsWorkspace(index)
           zones == Ids(doc.zones)
           parents == Parents(doc)
           anc(z) == AncestorsIn(parents, zones, z)
<1>1. /\ index.doc = doc /\ index.zones = zones /\ index.parents = parents
      /\ index.ancestors = [z \in zones |-> anc(z)]
      /\ index.policies = [z \in zones |-> ParseZonePolicy(FirstNamed(doc.zones, z).props)]
      /\ DOMAIN index.nodes = Ids(doc.nodes) /\ DOMAIN index.edges = Ids(doc.edges)
      /\ index.semantics = [e \in Ids(doc.edges) |->
                                ParseEdgeSemantics(FirstNamed(doc.edges, e).props)]
  BY DEF Rebuild
<1>2. IdErrors(doc) = {}
  BY <1>1 DEF ValidationErrors
<1>3. \A entries \in {doc.zones, doc.nodes, doc.edges} :
            IsList(entries) /\ Nil \notin Ids(entries) /\ NamesAreUnique(entries)
  BY <1>2, ValidNames
<1>4. zones \subseteq Zones /\ Ids(doc.nodes) \subseteq Nodes /\ Ids(doc.edges) \subseteq Edges
  BY <1>3 DEF IsDocument, Ids
<1>5. /\ DOMAIN parents \subseteq zones
      /\ \A z \in DOMAIN parents : parents[z] \in zones
      /\ \A z \in zones :
            /\ anc(z) \subseteq zones
            /\ z \notin anc(z)
            /\ anc(z) = IF z \in DOMAIN parents
                        THEN {parents[z]} \cup anc(parents[z]) ELSE {}
  BY <1>2, ZonesAreAForest
<1>6. ASSUME NEW z \in zones
      PROVE  /\ [exclusive |-> index.policies[z].kind = "ExclusiveAccess",
                 explicit  |-> index.policies[z].capacity_is_explicit,
                 capacity  |-> index.policies[z].capacity] \in ZonePolicy
  <2>1. IsPolicy(index.policies[z])
    <3>1. index.policies[z] = ParseZonePolicy(FirstNamed(doc.zones, z).props)
      BY <1>1
    <3>2. IsPolicy(ParseZonePolicy(FirstNamed(doc.zones, z).props))
      BY ParsedZonePolicy
    <3> HIDE DEF index
    <3> QED BY <3>1, <3>2, Zenon
  <2> QED BY <2>1, PolicyForClaims, Zenon
<1>7. ASSUME NEW e \in Ids(doc.edges)
      PROVE  Default(index.semantics[e].capacity, 0) \in Nat
  <2>1. index.semantics[e].capacity \subseteq Nat
    BY <1>1, ParsedEdgeSemantics DEF IsSemantics
  <2> QED BY <2>1 DEF Default, None
<1> DEFINE policy(z) == [exclusive |-> index.policies[z].kind = "ExclusiveAccess",
                         explicit  |-> index.policies[z].capacity_is_explicit,
                         capacity  |-> index.policies[z].capacity]
           capacity(e) == Default(index.semantics[e].capacity, 0)
           present   == zones \cup Ids(doc.nodes) \cup Ids(doc.edges)
           parent    == [z \in Zones |-> IF z \in DOMAIN parents THEN parents[z] ELSE NoZone]
           ancestors == [z \in Zones |-> IF z \in zones THEN index.ancestors[z] ELSE {}]
           zonesOf   == [t \in Spatial |-> IF t \in Nodes THEN ZonesOfNode(index, t)
                                           ELSE ToSet(ZonesOfEdge(index, t))]
           policies  == [z \in Zones |-> IF z \in zones THEN policy(z) ELSE UnknownZonePolicy]
           capacities == [e \in Edges |-> IF e \in Ids(doc.edges) THEN capacity(e) ELSE 0]
<1>8. ws = [ present |-> present, parent |-> parent, ancestors |-> ancestors,
             zonesOf |-> zonesOf, policy |-> policies, edgeCapacity |-> capacities ]
  <2> HIDE DEF index, parents, zones
  <2> QED BY <1>1, Zenon DEF AsWorkspace
<1>9. /\ ws.present = present /\ ws.parent = parent /\ ws.ancestors = ancestors
      /\ ws.zonesOf = zonesOf /\ ws.policy = policies /\ ws.edgeCapacity = capacities
  <2> HIDE DEF ws, present, parent, ancestors, zonesOf, policies, capacities
  <2> QED BY <1>8
<1>10. /\ \A z \in zones : policy(z) \in ZonePolicy
       /\ \A e \in Ids(doc.edges) : capacity(e) \in Nat
       /\ UnknownZonePolicy \notin ZonePolicy
  BY <1>6, <1>7, UnknownZonePolicyIsNone
<1>11. \A z \in Zones : z \in ws.present <=> z \in zones
  BY <1>4, <1>9, KindsAssumption DEF Spatial
<1>12. \A n : ZonesOfNode(index, n) \subseteq zones
  BY <1>1 DEF ZonesOfNode
<1>13. \A e : ToSet(ZonesOfEdge(index, e)) \subseteq zones
  BY <1>1, EdgeZones
<1>14. \A z \in zones : index.ancestors[z] = anc(z)
  BY <1>1
<1> HIDE DEF index, ws, zones, parents, anc, policy, capacity
<1>15. ws.present \subseteq Resources
  BY <1>4, <1>9 DEF Resources, Spatial
<1>16. ws.parent \in [Zones -> Zones \cup {NoZone}]
  BY <1>4, <1>5, <1>9
<1>17. ws.ancestors \in [Zones -> SUBSET Zones]
  BY <1>4, <1>5, <1>9, <1>14
<1>18. ws.zonesOf \in [Spatial -> SUBSET (Zones \cap ws.present)]
  <2>1. zones \subseteq Zones \cap ws.present
    BY <1>4, <1>9
  <2> QED BY <1>9, <1>12, <1>13, <2>1
<1>19. ws.policy \in [Zones -> ZonePolicy \cup {UnknownZonePolicy}]
  BY <1>9, <1>10
<1>20. ws.edgeCapacity \in [Edges -> Nat]
  BY <1>9, <1>10
<1>21. ASSUME NEW z \in Zones
       PROVE  /\ z \notin ws.ancestors[z]
              /\ ws.ancestors[z] = IF ws.parent[z] = NoZone
                                   THEN {}
                                   ELSE {ws.parent[z]} \cup ws.ancestors[ws.parent[z]]
              /\ z \in ws.present <=> ws.policy[z] \in ZonePolicy
              /\ z \notin ws.present => ws.parent[z] = NoZone
              /\ ws.parent[z] # NoZone => ws.parent[z] \in ws.present
  <2>1. NoZone \notin Zones
    BY KindsAssumption DEF Resources
  <2>2. z \in ws.present <=> ws.policy[z] \in ZonePolicy
    BY <1>9, <1>10, <1>11
  <2>3. CASE z \notin DOMAIN parents
    <3>1. ws.parent[z] = NoZone
      BY <1>9, <2>3
    <3>2. ws.ancestors[z] = {}
      BY <1>5, <1>9, <1>14, <2>3
    <3> QED BY <2>2, <3>1, <3>2
  <2>4. CASE z \in DOMAIN parents
    <3> DEFINE p == parents[z]
    <3>1. ws.parent[z] = p /\ z \in zones /\ p \in zones /\ p \in Zones /\ p # NoZone
      BY <1>4, <1>5, <1>9, <2>1, <2>4
    <3>2. ws.ancestors[z] = anc(z) /\ ws.ancestors[p] = anc(p)
      BY <1>9, <1>14, <3>1
    <3>3. z \notin anc(z) /\ anc(z) = {p} \cup anc(p)
      BY <1>5, <2>4, <3>1
    <3>4. p \in ws.present /\ z \in ws.present
      BY <1>11, <3>1
    <3> HIDE DEF p
    <3> QED BY <2>2, <3>1, <3>2, <3>3, <3>4
  <2> QED BY <2>3, <2>4
<1>22. IsWorkspace(ws)
  BY <1>15, <1>16, <1>17, <1>18, <1>19, <1>20, <1>21, Zenon DEF IsWorkspace
<1> QED BY <1>3, <1>22 DEF ws, index

=============================================================================
