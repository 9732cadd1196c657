----------------------------- MODULE EngineProofs -----------------------------
(***************************************************************************)
(* Lemmas about numbers, sequences and the engine's operators, for the     *)
(* proofs about the modules that ask it.                                   *)
(***************************************************************************)
EXTENDS Engine, FiniteSetTheorems, TLAPS

\* Some natural numbers have a least one among them.
LEMMA Least ==
    ASSUME NEW T \in SUBSET Nat, T # {}
    PROVE  \E i \in T : \A j \in T : i <= j
<1> DEFINE Below == {pair \in Nat \X Nat : pair[1] < pair[2]}
<1>1. IsWellFoundedOn(Below, Nat)
    <2>1. IsWellFoundedOn(OpToRel(<, Nat), Nat)
        BY NatLessThanWellFounded
    <2> QED
        BY <2>1 DEF OpToRel
<1>2. PICK i \in T : \A j \in T : ~(<<j, i>> \in Below)
    <2> HIDE DEF Below
    <2> QED
        BY <1>1, WFMin
<1>3. ASSUME NEW j \in T PROVE i <= j
    <2>1. <<j, i>> \in Nat \X Nat /\ i \in Nat /\ j \in Nat
        OBVIOUS
    <2>2. ~(<<j, i>>[1] < <<j, i>>[2])
        BY <1>2, <2>1, Zenon
    <2> QED
        BY <2>1, <2>2
<1> QED
    BY <1>3

\* A finite set has an element that no other precedes, in any order.
LEMMA Foremost ==
    ASSUME NEW S, IsFiniteSet(S), S # {}, NEW Precedes,
           \A i \in S : <<i, i>> \notin Precedes,
           \A i, j, k \in S : <<i, j>> \in Precedes /\ <<j, k>> \in Precedes
                                  => <<i, k>> \in Precedes
    PROVE  \E i \in S : \A j \in S : <<j, i>> \notin Precedes
<1> DEFINE Before(i) == {j \in S : <<j, i>> \in Precedes}
           size == [i \in S |-> Cardinality(Before(i))]
           Sizes == {size[i] : i \in S}
<1>1. ASSUME NEW i \in S
      PROVE  IsFiniteSet(Before(i)) /\ Cardinality(Before(i)) \in Nat
    <2>1. Before(i) \in SUBSET S
        OBVIOUS
    <2> HIDE DEF Before
    <2>2. IsFiniteSet(Before(i))
        BY <2>1, FS_Subset
    <2> QED
        BY <2>2, FS_CardinalityType
<1>a. \A i \in S : size[i] = Cardinality(Before(i)) /\ size[i] \in Nat
    <2> HIDE DEF Before
    <2> QED
        BY <1>1
<1>b. \A i \in S : size[i] \in Nat
    <2> HIDE DEF size
    <2> QED
        BY <1>a
<1>2. Sizes \in SUBSET Nat /\ Sizes # {}
    <2> HIDE DEF size
    <2>1. ASSUME NEW n \in Sizes PROVE n \in Nat
        <3>1. PICK i \in S : n = size[i]
            BY Zenon
        <3> QED
            BY <1>b, <3>1, Zenon
    <2>2. PICK i \in S : TRUE
        BY Zenon
    <2>3. size[i] \in Sizes
        BY Zenon
    <2> HIDE DEF Sizes
    <2> QED
        BY <2>1, <2>3
<1>3. PICK least \in Sizes : \A n \in Sizes : least <= n
    <2> HIDE DEF Sizes
    <2> QED
        BY <1>2, Least
<1>4. PICK i \in S : least = size[i]
    OBVIOUS
<1>5. ASSUME NEW j \in S, <<j, i>> \in Precedes PROVE FALSE
    <2>1. Before(j) \in SUBSET Before(i) /\ j \in Before(i) /\ j \notin Before(j)
        BY <1>5
    <2>2. Cardinality(Before(i)) <= Cardinality(Before(j))
        <3>1. size[j] \in Sizes
            OBVIOUS
        <3> HIDE DEF Before, size, Sizes
        <3> QED
            BY <1>a, <1>3, <1>4, <3>1
    <2> HIDE DEF Before
    <2>3. Cardinality(Before(j)) <= Cardinality(Before(i))
        BY <1>1, <2>1, FS_Subset
    <2>4. Cardinality(Before(j)) = Cardinality(Before(i))
        BY <1>1, <2>2, <2>3
    <2>5. Before(i) = Before(j)
        BY <1>1, <2>1, <2>4, FS_Subset
    <2> QED
        BY <2>1, <2>5
<1> QED
    BY <1>5

\* A sequence without repetition is as long as it has elements.
LEMMA AllDistinct ==
    ASSUME NEW S, NEW s \in Seq(S),
           \A i, j \in DOMAIN s : s[i] = s[j] => i = j
    PROVE  Cardinality({s[i] : i \in DOMAIN s}) = Len(s)
<1> DEFINE elements == {s[i] : i \in DOMAIN s}
<1>1. s \in Bijection(1 .. Len(s), elements)
    BY DEF Bijection, Injection, Surjection, IsInjective
<1>2. Len(s) \in Nat
    OBVIOUS
<1> HIDE DEF elements
<1>3. ExistsBijection(1 .. Len(s), elements)
    BY <1>1 DEF ExistsBijection
<1>4. Cardinality(elements) = Len(s)
    BY <1>2, <1>3, FS_CountingElements
<1> QED
    BY <1>4 DEF elements

-----------------------------------------------------------------------------
(* The item that speaks for a key.                                         *)

\* The item at i is the newest of the pool, the first of the newest.
IsNewest(manifest, pool, i) ==
    /\ i \in pool
    /\ \A j \in pool :
          \/ manifest[j].observed_at < manifest[i].observed_at
          \/ manifest[j].observed_at = manifest[i].observed_at /\ i <= j

\* A pool whose items have a time has a newest, and Newest finds it.
LEMMA NewestIsNewest ==
    ASSUME NEW manifest, NEW pool \in SUBSET Int, IsFiniteSet(pool), pool # {},
           \A i \in pool : manifest[i].observed_at \in Int
    PROVE  IsNewest(manifest, pool, Newest(manifest, pool))
<1> DEFINE Ahead == {pair \in pool \X pool :
               \/ manifest[pair[1]].observed_at > manifest[pair[2]].observed_at
               \/ /\ manifest[pair[1]].observed_at = manifest[pair[2]].observed_at
                  /\ pair[1] < pair[2]}
<1>1. ASSUME NEW i \in pool, NEW j \in pool
      PROVE  <<i, j>> \in Ahead <=>
                \/ manifest[i].observed_at > manifest[j].observed_at
                \/ manifest[i].observed_at = manifest[j].observed_at /\ i < j
    OBVIOUS
<1>2. /\ \A i \in pool : <<i, i>> \notin Ahead
      /\ \A i, j, k \in pool :
            <<i, j>> \in Ahead /\ <<j, k>> \in Ahead => <<i, k>> \in Ahead
    <2> HIDE DEF Ahead
    <2>1. \A i \in pool : <<i, i>> \notin Ahead
        BY <1>1
    <2>2. ASSUME NEW i \in pool, NEW j \in pool, NEW k \in pool,
                 <<i, j>> \in Ahead, <<j, k>> \in Ahead
          PROVE  <<i, k>> \in Ahead
        BY <1>1, <2>2
    <2> QED
        BY <2>1, <2>2
<1>3. PICK i \in pool : \A j \in pool : <<j, i>> \notin Ahead
    <2> HIDE DEF Ahead
    <2> QED
        BY <1>2, Foremost
<1>4. IsNewest(manifest, pool, i)
    <2> SUFFICES ASSUME NEW j \in pool
                 PROVE  \/ manifest[j].observed_at < manifest[i].observed_at
                        \/ /\ manifest[j].observed_at = manifest[i].observed_at
                           /\ i <= j
        BY DEF IsNewest
    <2>1. ~\/ manifest[j].observed_at > manifest[i].observed_at
           \/ manifest[j].observed_at = manifest[i].observed_at /\ j < i
        <3> HIDE DEF Ahead
        <3> QED
            BY <1>1, <1>3
    <2>2. /\ i \in Int /\ j \in Int
          /\ manifest[i].observed_at \in Int /\ manifest[j].observed_at \in Int
        OBVIOUS
    <2> QED
        BY <2>1, <2>2
<1> QED
    BY <1>4 DEF IsNewest, Newest

\* There is only one newest.
LEMMA NewestIsUnique ==
    ASSUME NEW manifest, NEW pool \in SUBSET Int,
           \A i \in pool : manifest[i].observed_at \in Int,
           NEW i, IsNewest(manifest, pool, i), NEW j, IsNewest(manifest, pool, j)
    PROVE  i = j
<1>1. /\ i \in Int /\ j \in Int
      /\ manifest[i].observed_at \in Int /\ manifest[j].observed_at \in Int
    BY DEF IsNewest
<1> QED
    BY <1>1 DEF IsNewest

\* A pool has the items of its key, and only observed ones if it has any.
LEMMA PoolFact ==
    ASSUME NEW manifest, NEW key
    PROVE  /\ Pool(manifest, key) \subseteq ByKey(manifest, key)
           /\ \A i \in ByKey(manifest, key) : manifest[i].observed =>
                 /\ i \in Pool(manifest, key)
                 /\ \A j \in Pool(manifest, key) : manifest[j].observed
           /\ Pool(manifest, key) = {} <=> ByKey(manifest, key) = {}
BY DEF Pool

-----------------------------------------------------------------------------
(* Verdicts.                                                               *)

\* The most restrictive of some effects is one of them, and none is stricter.
LEMMA MostRestrictiveIsStrictest ==
    ASSUME NEW effects \in SUBSET Effect, effects # {}
    PROVE  /\ MostRestrictive(effects) \in effects
           /\ \A f \in effects : Severity[f] <= Severity[MostRestrictive(effects)]
<1> DEFINE Strictest(e) == \A f \in effects : Severity[f] <= Severity[e]
<1>1. \E e \in effects : Strictest(e)
    <2>1. CASE "block" \in effects
        BY <2>1 DEF Effect, Severity
    <2>2. CASE "block" \notin effects /\ "review" \in effects
        BY <2>2 DEF Effect, Severity
    <2>3. CASE effects \subseteq {"allow", "restrict"} /\ "restrict" \in effects
        BY <2>3 DEF Effect, Severity
    <2>4. CASE effects = {"allow"}
        BY <2>4 DEF Effect, Severity
    <2> QED
        BY <2>1, <2>2, <2>3, <2>4 DEF Effect
<1> QED
    BY <1>1 DEF MostRestrictive

\* The effects of a rule are effects, the second one if it is set.
HasEffects(rule) ==
    /\ rule.effect_on_fail \in Effect
    /\ rule.effect_on_stale \in Effect \cup {None}

\* The engine answers with an effect or raises.
LEMMA EvaluateType ==
    ASSUME NEW policy, policy # None => \A rule \in policy : HasEffects(rule),
           NEW manifest, NEW time
    PROVE  Evaluate(policy, manifest, time) \in Effect \cup {"raises"}
<1> DEFINE effects == {RuleEffect(rule, manifest, time) : rule \in policy}
<1>1. CASE policy = None
    BY <1>1 DEF Evaluate, Effect
<1>2. CASE policy # None
    <2>1. \A rule \in policy : RuleEffect(rule, manifest, time) \in Effect
        BY <1>2 DEF RuleEffect, HasEffects, Effect
    <2>2. effects \in SUBSET Effect
        BY <2>1
    <2>3. MostRestrictive(effects) \in Effect
        <3>1. CASE effects = {}
            BY <3>1 DEF MostRestrictive, Effect
        <3>2. CASE effects # {}
            BY <2>2, <3>2, MostRestrictiveIsStrictest
        <3> QED
            BY <3>1, <3>2
    <2> QED
        BY <1>2, <2>3 DEF Evaluate, Aggregate
<1> QED
    BY <1>1, <1>2

=============================================================================
