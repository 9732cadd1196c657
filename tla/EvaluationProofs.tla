-------------------------- MODULE EvaluationProofs --------------------------
(***************************************************************************)
(* Proofs about the engine's verdicts, for any policies, any evidence and  *)
(* any clock.                                                              *)
(***************************************************************************)
EXTENDS Evaluation, EngineProofs

-----------------------------------------------------------------------------
(* Aggregation.                                                            *)

\* Whatever a rule decides is an effect.
LEMMA RuleEffectType ==
    ASSUME NEW rule, IsRule(rule), NEW m, NEW t
    PROVE  RuleEffect(rule, m, t) \in Effect
BY DEF RuleEffect, IsRule, Effect

\* Every item of the manifest is a piece of evidence.
LEMMA Collected ==
    ASSUME TypeOK, NEW i \in DOMAIN manifest
    PROVE  manifest[i] \in EvidenceItem
BY PoliciesAssumption DEF TypeOK

LEMMA ManifestType == TypeOK => manifest \in Seq(EvidenceItem)
BY Collected DEF TypeOK

\* The policy is one of Policies, the manifest holds evidence that Items allows
\* and the clock keeps to its bound.
THEOREM TypeCorrect == Spec => []TypeOK
<1>1. Init => TypeOK
    BY PoliciesAssumption DEF Init, TypeOK
<1>2. TypeOK /\ [Next]_vars => TypeOK'
    BY PoliciesAssumption DEF TypeOK, Next, Observe, Wait, vars
<1> QED
    BY <1>1, <1>2, PTL DEF Spec

\* Most-restrictive-wins: the verdict of a rule pack is the effect of one of its
\* rules, and no pack of fewer rules is stricter.
THEOREM RulesTighten == Spec => []RulesOnlyTighten
<1>1. TypeOK => RulesOnlyTighten
    <2> SUFFICES ASSUME TypeOK, policy # None, policy # {}, Verdict # "raises"
                 PROVE  /\ \E rule \in policy : Verdict = RuleEffect(rule, manifest, now)
                        /\ \A pack \in (SUBSET policy) \ {{}} :
                              Severity[Aggregate(pack, manifest, now)]
                                  <= Severity[Verdict]
        BY DEF RulesOnlyTighten
    <2> DEFINE Effects(pack) == {RuleEffect(rule, manifest, now) : rule \in pack}
    <2>1. ASSUME NEW pack \in SUBSET policy, pack # {}
          PROVE  Effects(pack) \in SUBSET Effect /\ Effects(pack) # {}
        BY <2>1, PoliciesAssumption, RuleEffectType DEF TypeOK
    <2>2. Verdict = MostRestrictive(Effects(policy))
        BY DEF Verdict, Evaluate, Aggregate
    <2>3. Verdict \in Effects(policy)
        BY <2>1, <2>2, MostRestrictiveIsStrictest
    <2>4. ASSUME NEW pack \in SUBSET policy, pack # {}
          PROVE  Severity[Aggregate(pack, manifest, now)] <= Severity[Verdict]
        <3>0. Effects(pack) \in SUBSET Effect /\ Effects(pack) # {}
            BY <2>1, <2>4, Zenon
        <3>1. MostRestrictive(Effects(pack)) \in Effects(pack)
            BY <3>0, MostRestrictiveIsStrictest
        <3>2. MostRestrictive(Effects(pack)) \in Effects(policy)
            BY <3>1
        <3>3. Severity[MostRestrictive(Effects(pack))]
                  <= Severity[MostRestrictive(Effects(policy))]
            BY <2>1, <3>2, MostRestrictiveIsStrictest
        <3> QED
            BY <2>2, <3>3 DEF Aggregate
    <2>5. \E rule \in policy : Verdict = RuleEffect(rule, manifest, now)
        BY <2>3
    <2> QED
        BY <2>4, <2>5
<1> QED
    BY <1>1, TypeCorrect, PTL

-----------------------------------------------------------------------------
(* Time.                                                                   *)

\* A requirement that was met may turn stale as the clock moves on; nothing
\* else about it changes.
LEMMA TimeStep == TypeOK /\ Next => (now' # now =>
    \A rule \in Rules : \A req \in Requirements(rule) :
        LET before == RequirementOutcome(req, manifest, now)
            after  == RequirementOutcome(req, manifest', now')
        IN  after = before \/ (before = "met" /\ after = "stale"))
<1> SUFFICES ASSUME TypeOK, Wait, NEW rule \in Rules, NEW req \in Requirements(rule)
             PROVE  LET before == RequirementOutcome(req, manifest, now)
                        after  == RequirementOutcome(req, manifest, now + 1)
                    IN  after = before \/ (before = "met" /\ after = "stale")
    BY DEF Next, Observe, Wait, TypeOK
<1>1. IsRequirement(req)
    BY PoliciesAssumption DEF TypeOK, Rules, Requirements, IsRule
<1>2. ASSUME req.max_age # None, NEW i \in DOMAIN manifest,
             Fresh(req, manifest[i], now + 1)
      PROVE  Fresh(req, manifest[i], now)
    <2>1. manifest[i].observed_at \in Int
        BY Collected DEF EvidenceItem
    <2>2. req.max_age \in Int /\ now \in Int
        BY <1>1, <1>2 DEF IsRequirement, OptionalInt, TypeOK
    <2> QED
        BY <1>2, <2>1, <2>2 DEF Fresh
<1> QED
    BY <1>2 DEF RequirementOutcome, ByKey

\* The clock only ever turns a met requirement stale.
THEOREM TimeStales == Spec => TimeOnlyStales
BY TypeCorrect, TimeStep, PTL DEF Spec, TimeOnlyStales

-----------------------------------------------------------------------------
(* Evidence.                                                               *)

\* The manifest is only ever extended.
LEMMA ManifestGrows ==
    ASSUME TypeOK, [Next]_vars
    PROVE  /\ policy' = policy
           /\ DOMAIN manifest \subseteq DOMAIN manifest'
           /\ \A i \in DOMAIN manifest : manifest'[i] = manifest[i]
BY DEF TypeOK, Next, Observe, Wait, vars

\* No requirement and no comparison reports a conflict.
LEMMA OnlyConflictsConflict ==
    ASSUME NEW rule, NEW m, NEW t, RuleOutcome(rule, m, t) = "conflict"
    PROVE  \E key \in rule.forbid_conflicts_on : Conflict(m, key)
<1>1. \A req : RequirementOutcome(req, m, t) # "conflict"
    BY DEF RequirementOutcome
<1>2. \A op, a, b : ValuesOutcome(op, a, b) # "conflict"
    BY DEF ValuesOutcome
<1>3. \A cmp : ComparisonOutcome(cmp, m) # "conflict"
    <2> TAKE cmp
    <2>1. CASE Unordered(m, Pool(m, cmp.left_key))
        BY <2>1 DEF ComparisonOutcome, Unordered
    <2>2. CASE ~Unordered(m, Pool(m, cmp.left_key))
        BY <1>2, <2>2 DEF ComparisonOutcome
    <2> QED
        BY <2>1, <2>2
<1> QED
    BY <1>1, <1>3 DEF RuleOutcome

LEMMA ConflictStep ==
    TypeOK /\ [Next]_vars =>
        \A rule \in Rules :
            RuleOutcome(rule, manifest, now) = "conflict" =>
                RuleOutcome(rule, manifest', now') = "conflict"
<1> SUFFICES ASSUME TypeOK, [Next]_vars, NEW rule \in Rules,
                    RuleOutcome(rule, manifest, now) = "conflict"
             PROVE  RuleOutcome(rule, manifest', now') = "conflict"
    OBVIOUS
<1>1. PICK key \in rule.forbid_conflicts_on : Conflict(manifest, key)
    BY OnlyConflictsConflict
<1>2. Conflict(manifest', key)
    BY <1>1, ManifestGrows DEF Conflict, ByKey
<1> QED
    BY <1>1, <1>2 DEF RuleOutcome

\* Nothing the agent adds, and no waiting, talks the engine out of a conflict.
THEOREM ConflictsStay == Spec => ConflictStays
<1>1. TypeOK /\ [Next]_vars => [\A rule \in Rules :
          RuleOutcome(rule, manifest, now) = "conflict" =>
              RuleOutcome(rule, manifest', now') = "conflict"]_vars
    BY ConflictStep
<1> QED
    BY <1>1, TypeCorrect, PTL DEF Spec, ConflictStays

LEMMA UnmeetStep ==
    TypeOK /\ Next => (manifest' # manifest =>
        \A rule \in Rules : \A req \in Requirements(rule) :
            (ByKey(manifest, req.key) # {}
                /\ RequirementOutcome(req, manifest, now) = "met")
            => RequirementOutcome(req, manifest', now') \in {"met", "raises"})
<1> SUFFICES ASSUME TypeOK, Observe, NEW req, ByKey(manifest, req.key) # {},
                    RequirementOutcome(req, manifest, now) = "met"
             PROVE  RequirementOutcome(req, manifest', now) \in {"met", "raises"}
    BY DEF Next, Observe, Wait
<1> DEFINE Fit(m) == {i \in ByKey(m, req.key) : Qualifies(req, m[i])}
<1>1. /\ DOMAIN manifest \subseteq DOMAIN manifest'
      /\ \A i \in DOMAIN manifest : manifest'[i] = manifest[i]
    BY ManifestGrows DEF Next
<1>2. ByKey(manifest, req.key) \subseteq ByKey(manifest', req.key)
      /\ Fit(manifest) \subseteq Fit(manifest')
    BY <1>1 DEF ByKey
<1>3. Fit(manifest) # {}
    BY DEF RequirementOutcome
<1>4. CASE req.max_age = None
    BY <1>2, <1>3, <1>4 DEF RequirementOutcome
<1>5. CASE req.max_age # None
    <2>1. \E i \in Fit(manifest) : Fresh(req, manifest[i], now)
        BY <1>3, <1>5 DEF RequirementOutcome
    <2>2. \E i \in Fit(manifest') : Fresh(req, manifest'[i], now)
        BY <1>1, <1>2, <2>1 DEF ByKey
    <2> QED
        BY <1>2, <1>3, <1>5, <2>2 DEF RequirementOutcome
<1> QED
    BY <1>4, <1>5

\* A fresh but wrong item never masks the one that met a requirement.
THEOREM EvidenceKeepsRequirements == Spec => EvidenceNeverUnmeets
BY TypeCorrect, UnmeetStep, PTL DEF Spec, EvidenceNeverUnmeets

-----------------------------------------------------------------------------
(* What an allow verdict vouches for.                                      *)

\* A pool is one of numbered items that have a time.
LEMMA PoolOfEvidence ==
    ASSUME NEW m \in Seq(EvidenceItem), NEW key
    PROVE  /\ Pool(m, key) \in SUBSET (1 .. Len(m)) /\ Len(m) \in Nat
           /\ Pool(m, key) \in SUBSET Int
           /\ \A i \in Pool(m, key) : m[i].observed_at \in Int
<1>1. Pool(m, key) \in SUBSET (1 .. Len(m)) /\ Len(m) \in Nat
    BY DEF Pool, ByKey
<1>2. ASSUME NEW i \in 1 .. Len(m) PROVE m[i].observed_at \in Int
    <2>1. m[i] \in EvidenceItem
        BY <1>1
    <2> QED
        BY <2>1 DEF EvidenceItem
<1> QED
    BY <1>1, <1>2

\* The item that speaks for a key is the newest of its pool.
LEMMA RepresentativeSpeaks ==
    ASSUME NEW m \in Seq(EvidenceItem), NEW key, Pool(m, key) # {}
    PROVE  IsNewest(m, Pool(m, key), Newest(m, Pool(m, key)))
<1>1. IsFiniteSet(Pool(m, key))
    <2>1. IsFiniteSet(1 .. Len(m))
        BY FS_Interval
    <2> QED
        BY <2>1, PoolOfEvidence, FS_Subset
<1> QED
    BY <1>1, PoolOfEvidence, NewestIsNewest

\* Whatever is the newest of the pool is the item that speaks.
LEMMA NewestSpeaks ==
    ASSUME NEW m \in Seq(EvidenceItem), NEW key, NEW i,
           IsNewest(m, Pool(m, key), i)
    PROVE  Representative(m, key) = m[i]
<1>1. Pool(m, key) # {}
    BY DEF IsNewest
<1>2. IsNewest(m, Pool(m, key), Newest(m, Pool(m, key)))
    BY <1>1, RepresentativeSpeaks
<1>3. Newest(m, Pool(m, key)) = i
    BY <1>2, PoolOfEvidence, NewestIsUnique
<1> QED
    BY <1>3 DEF Representative

\* What is compared for a key is a value of it, and one that it speaks.
LEMMA ComparedSpeaks ==
    ASSUME TypeOK, NEW key, Pool(manifest, key) # {}
    PROVE  /\ Representative(manifest, key).value \in Value
           /\ Representative(manifest, key).value \in Spoken(key)
<1> DEFINE i == Newest(manifest, Pool(manifest, key))
<1>1. IsNewest(manifest, Pool(manifest, key), i)
    BY ManifestType, RepresentativeSpeaks
<1>2. manifest[i] = Representative(manifest, key)
    BY DEF Representative
<1> HIDE DEF i
<1>3. i \in ByKey(manifest, key)
    BY <1>1, PoolFact DEF IsNewest
<1>4. ASSUME NEW j \in ByKey(manifest, key), Outranks(manifest[j], manifest[i])
      PROVE  FALSE
    <2>1. i \in Pool(manifest, key)
        BY <1>1 DEF IsNewest
    <2>2. manifest[i].observed_at \in Int /\ manifest[j].observed_at \in Int
        BY <1>3, <1>4, Collected DEF EvidenceItem, ByKey
    <2>3. manifest[j].observed => manifest[i].observed
        BY <1>4, <2>1, PoolFact
    <2>4. j \in Pool(manifest, key)
        <3>1. CASE manifest[i].observed
            BY <1>4, <2>1, <3>1, PoolFact DEF Outranks
        <3>2. CASE ~manifest[i].observed
            <4>1. \A k \in ByKey(manifest, key) : ~manifest[k].observed
                BY <2>1, <3>2, PoolFact
            <4> QED
                BY <4>1 DEF Pool
        <3> QED
            BY <3>1, <3>2
    <2> QED
        BY <1>1, <1>4, <2>2, <2>3, <2>4 DEF IsNewest, Outranks
<1>5. manifest[i].value \in Value
    BY <1>3, Collected DEF EvidenceItem, ByKey
<1> QED
    BY <1>2, <1>3, <1>4, <1>5 DEF Spoken

\* A comparison of two values that is met satisfies its operator.
LEMMA MetValuesSatisfy ==
    ASSUME NEW a \in Value, NEW b \in Value, NEW op \in Relational \cup {"==", "!="},
           ValuesOutcome(op, a, b) = "met"
    PROVE  Satisfies(op, a, b)
<1>1. Holds(op, a, b) /\ (op \in Relational => IsNumber(a) /\ IsNumber(b))
    BY DEF ValuesOutcome
<1>2. a.n \in Int /\ b.n \in Int
    BY DEF Value
<1>3. IsNumber(a) /\ IsNumber(b) => (PyEqual(a, b) <=> a.n = b.n)
    BY DEF IsNumber, PyEqual
<1>4. CASE op \in Relational
    <2>1. IsNumber(a) /\ IsNumber(b)
        BY <1>1, <1>4
    <2>2. /\ op = "<"  => a.n < b.n
          /\ op = "<=" => a.n <= b.n
          /\ op = ">"  => a.n > b.n
          /\ op = ">=" => a.n >= b.n
        BY <1>1, <1>4 DEF Holds
    <2>3. /\ op \in {"<", "<="} => a.n <= b.n
          /\ op \in {">", ">="} => b.n <= a.n
          /\ op \in {"<", ">"} => a.n # b.n
        BY <1>2, <2>2
    <2>4. op # "==" /\ op # "!="
        BY <1>4 DEF Relational
    <2>5. op \in {"<", ">", "!="} => ~PyEqual(a, b)
        BY <1>3, <2>1, <2>3, <2>4
    <2> QED
        BY <2>1, <2>3, <2>4, <2>5 DEF Satisfies
<1>5. CASE op = "==" \/ op = "!="
    BY <1>1, <1>5 DEF Holds, Relational, Satisfies
<1> QED
    BY <1>4, <1>5

\* A comparison that is met holds of what its keys speak (engine.py:199).
LEMMA MetComparisonHolds ==
    ASSUME TypeOK, NEW cmp, IsComparison(cmp), ComparisonOutcome(cmp, manifest) = "met"
    PROVE  \E left \in Spoken(cmp.left_key), right \in RightOperands(cmp) :
               Satisfies(cmp.op, left, right)
<1> DEFINE Value1(key) == Representative(manifest, key).value
           Met(right) == ValuesOutcome(cmp.op, Value1(cmp.left_key), right) = "met"
<1>1. ~Unordered(manifest, Pool(manifest, cmp.left_key)) /\ Pool(manifest, cmp.left_key) # {}
    BY DEF ComparisonOutcome
<1>2. Value1(cmp.left_key) \in Value /\ Value1(cmp.left_key) \in Spoken(cmp.left_key)
    BY <1>1, ComparedSpeaks
<1>3. ASSUME NEW right \in Value, right \in RightOperands(cmp), Met(right)
      PROVE  Satisfies(cmp.op, Value1(cmp.left_key), right)
    BY <1>2, <1>3, MetValuesSatisfy DEF IsComparison
<1>4. CASE cmp.right_key = None
    <2>1. cmp.right_value \in Value /\ cmp.right_value \in RightOperands(cmp)
        BY <1>4 DEF IsComparison, RightOperands
    <2>2. Met(cmp.right_value)
        BY <1>1, <1>4 DEF ComparisonOutcome
    <2> QED
        BY <1>2, <1>3, <2>1, <2>2
<1>5. CASE cmp.right_key # None
    <2>1. Pool(manifest, cmp.right_key) # {} /\ Met(Value1(cmp.right_key))
        BY <1>1, <1>5 DEF ComparisonOutcome
    <2>2. Value1(cmp.right_key) \in Value /\ Value1(cmp.right_key) \in RightOperands(cmp)
        BY <1>5, <2>1, ComparedSpeaks DEF RightOperands
    <2> QED
        BY <1>2, <1>3, <2>1, <2>2
<1> QED
    BY <1>4, <1>5

\* A requirement is met by one item, or by none if it does not insist on any.
LEMMA MetIsProved ==
    ASSUME TypeOK, NEW req, IsRequirement(req),
           RequirementOutcome(req, manifest, now) = "met"
    PROVE  \/ ~req.must_exist /\ ByKey(manifest, req.key) = {}
           \/ \E i \in DOMAIN manifest : Proves(req, manifest[i])
<1> DEFINE Fit == {i \in ByKey(manifest, req.key) : Qualifies(req, manifest[i])}
<1>1. CASE ByKey(manifest, req.key) = {}
    BY <1>1 DEF RequirementOutcome
<1>2. CASE ByKey(manifest, req.key) # {}
    <2>1. Fit # {}
        BY <1>2 DEF RequirementOutcome
    <2>2. CASE req.max_age = None
        BY <2>1, <2>2 DEF Proves, ByKey
    <2>3. CASE req.max_age # None
        <3>1. PICK i \in Fit : Fresh(req, manifest[i], now) /\ manifest[i].zoned
            <4>1. ~\E i \in Fit : ~manifest[i].zoned
                BY <1>2, <2>1, <2>3 DEF RequirementOutcome
            <4>2. \E i \in Fit : Fresh(req, manifest[i], now)
                BY <1>2, <2>1, <2>3 DEF RequirementOutcome
            <4> QED
                BY <4>1, <4>2
        <3>2. i \in DOMAIN manifest /\ manifest[i].key = req.key
              /\ Qualifies(req, manifest[i])
            BY DEF ByKey
        <3>3. manifest[i].observed_at >= now - req.max_age
            <4>1. manifest[i].observed_at \in Int /\ now \in Int
                BY <3>2, Collected DEF EvidenceItem, TypeOK
            <4>2. req.max_age \in Int
                BY <2>3 DEF IsRequirement, OptionalInt
            <4> QED
                BY <3>1, <4>1, <4>2 DEF Fresh
        <3> QED
            BY <3>1, <3>2, <3>3 DEF Proves
    <2> QED
        BY <2>2, <2>3
<1> QED
    BY <1>1, <1>2

\* A rule is met when nothing about it is in the way.
LEMMA RuleIsMet ==
    ASSUME NEW rule, IsRule(rule), NEW m, NEW t, RuleOutcome(rule, m, t) = "met"
    PROVE  /\ \A key \in rule.forbid_conflicts_on : ~Conflict(m, key)
           /\ \A i \in DOMAIN rule.requirements :
                 RequirementOutcome(rule.requirements[i], m, t) = "met"
           /\ rule.compare # None => ComparisonOutcome(rule.compare, m) = "met"
<1>1. ~\E key \in rule.forbid_conflicts_on : Conflict(m, key)
    BY DEF RuleOutcome
<1> DEFINE unmet == Unmet(rule, m, t)
           first == CHOOSE i \in unmet : \A j \in unmet : i <= j
<1>2. unmet = {}
    <2> SUFFICES ASSUME unmet # {} PROVE FALSE
        OBVIOUS
    <2>1. unmet \in SUBSET Nat
        BY DEF Unmet, IsRule
    <2>2. first \in unmet
        <3> HIDE DEF unmet
        <3> QED
            BY <2>1, Least
    <2>3. RequirementOutcome(rule.requirements[first], m, t) = "met"
        BY <1>1 DEF RuleOutcome
    <2> HIDE DEF first
    <2> QED
        BY <2>2, <2>3 DEF Unmet
<1>3. rule.compare # None => ComparisonOutcome(rule.compare, m) = "met"
    BY <1>1, <1>2 DEF RuleOutcome
<1> QED
    BY <1>1, <1>2, <1>3 DEF Unmet

\* A rule that neither fails open nor lets stale evidence pass allows only when
\* it is met.
LEMMA AllowedIsMet ==
    ASSUME NEW rule, ~FailsOpen(rule), rule.effect_on_stale # "allow", NEW m, NEW t,
           RuleEffect(rule, m, t) = "allow"
    PROVE  RuleOutcome(rule, m, t) = "met"
BY DEF RuleEffect, FailsOpen

\* Nothing is allowed unproved: not a requirement, not a conflict, and not a
\* comparison, whichever its operator and its right side.
THEOREM AllowsAreProved == Spec => []AllowIsProved
<1>1. TypeOK => AllowIsProved
    <2> SUFFICES ASSUME TypeOK, policy # None, Verdict = "allow", NEW rule \in Rules,
                        rule \notin Lint(policy).fails_open,
                        rule.effect_on_stale # "allow"
                 PROVE  /\ \A req \in Requirements(rule) :
                              \/ ~req.must_exist /\ ByKey(manifest, req.key) = {}
                              \/ \E i \in DOMAIN manifest : Proves(req, manifest[i])
                        /\ \A key \in rule.forbid_conflicts_on :
                              \A i, j \in {k \in ByKey(manifest, key) :
                                               manifest[k].observed} :
                                  PyEqual(manifest[i].value, manifest[j].value)
                        /\ rule.compare # None =>
                              \E left \in Spoken(rule.compare.left_key),
                                 right \in RightOperands(rule.compare) :
                                    Satisfies(rule.compare.op, left, right)
        BY DEF AllowIsProved
    <2>1. rule \in policy /\ IsRule(rule) /\ \A r \in policy : IsRule(r)
        BY PoliciesAssumption DEF TypeOK, Rules
    <2>2. RuleEffect(rule, manifest, now) = "allow"
        <3> DEFINE effects == {RuleEffect(r, manifest, now) : r \in policy}
        <3>1. effects \in SUBSET Effect /\ RuleEffect(rule, manifest, now) \in effects
            BY <2>1, RuleEffectType
        <3>2. MostRestrictive(effects) = "allow"
            BY DEF Verdict, Evaluate, Aggregate
        <3>3. Severity[RuleEffect(rule, manifest, now)] <= Severity["allow"]
            <4> HIDE DEF effects
            <4> QED
                BY <3>1, <3>2, MostRestrictiveIsStrictest
        <3>4. RuleEffect(rule, manifest, now) \in Effect
            BY <2>1, RuleEffectType
        <3> QED
            BY <3>3, <3>4 DEF Effect, Severity
    <2>3. ~FailsOpen(rule)
        BY <2>1 DEF Lint
    <2>4. RuleOutcome(rule, manifest, now) = "met"
        BY <2>2, <2>3, AllowedIsMet
    <2>5. \A req \in Requirements(rule) :
              \/ ~req.must_exist /\ ByKey(manifest, req.key) = {}
              \/ \E i \in DOMAIN manifest : Proves(req, manifest[i])
        BY <2>1, <2>4, RuleIsMet, MetIsProved DEF Requirements, IsRule
    <2>6. \A key \in rule.forbid_conflicts_on :
              \A i, j \in {k \in ByKey(manifest, key) : manifest[k].observed} :
                  PyEqual(manifest[i].value, manifest[j].value)
        BY <2>1, <2>4, RuleIsMet DEF Conflict
    <2>7. rule.compare # None =>
              \E left \in Spoken(rule.compare.left_key),
                 right \in RightOperands(rule.compare) :
                    Satisfies(rule.compare.op, left, right)
        BY <2>1, <2>4, RuleIsMet, MetComparisonHolds DEF IsRule
    <2> QED
        BY <2>5, <2>6, <2>7
<1> QED
    BY <1>1, TypeCorrect, PTL

-----------------------------------------------------------------------------
(* The same evidence, collected differently.                               *)

\* Refetching what is stale meets the requirement.
THEOREM RefreshesCure == Spec => []RefreshCures
<1>1. TypeOK => RefreshCures
    <2> SUFFICES ASSUME TypeOK, NEW rule \in Rules, NEW req \in Requirements(rule),
                        RequirementOutcome(req, manifest, now) = "stale",
                        req.max_age >= 0
                 PROVE  \E i \in ByKey(manifest, req.key) :
                            LET again == [manifest[i] EXCEPT !.observed_at = now]
                            IN  RequirementOutcome(req, Append(manifest, again), now)
                                    = "met"
        BY DEF RefreshCures
    <2> DEFINE Fit(m) == {i \in ByKey(m, req.key) : Qualifies(req, m[i])}
    <2>1. /\ Fit(manifest) # {} /\ req.max_age # None
          /\ \A i \in Fit(manifest) : manifest[i].zoned
        BY DEF RequirementOutcome
    <2>2. PICK i \in Fit(manifest) : TRUE
        BY <2>1
    <2> DEFINE again == [manifest[i] EXCEPT !.observed_at = now]
               more == Append(manifest, again)
               n == Len(manifest) + 1
    <2>3. manifest[i] \in EvidenceItem /\ manifest[i].key = req.key
          /\ manifest[i].zoned /\ Qualifies(req, manifest[i])
        BY <2>1, <2>2, Collected DEF ByKey
    <2>4. /\ again.key = req.key /\ again.zoned /\ again.observed_at = now
          /\ again.value = manifest[i].value /\ again.source = manifest[i].source
          /\ again.observed = manifest[i].observed
          /\ again.confidence = manifest[i].confidence
        BY <2>3 DEF EvidenceItem
    <2>5. Qualifies(req, again)
        BY <2>3, <2>4 DEF Qualifies
    <2>6. now \in Int /\ req.max_age \in Int
        <3>1. IsRequirement(req)
            BY PoliciesAssumption DEF TypeOK, Rules, Requirements, IsRule
        <3> QED
            BY <2>1, <3>1 DEF TypeOK, IsRequirement, OptionalInt
    <2>7. Fresh(req, again, now)
        BY <2>4, <2>6 DEF Fresh
    <2> HIDE DEF again
    <2>8. /\ DOMAIN more = 1 .. n /\ more[n] = again
          /\ DOMAIN manifest = 1 .. Len(manifest) /\ Len(manifest) \in Nat
          /\ \A j \in DOMAIN manifest : more[j] = manifest[j]
        BY DEF TypeOK
    <2> HIDE DEF more
    <2>9. n \in Fit(more) /\ \A j \in Fit(more) : more[j].zoned
        <3>1. n \in Fit(more)
            BY <2>4, <2>5, <2>8 DEF ByKey
        <3>2. ASSUME NEW j \in Fit(more) PROVE more[j].zoned
            <4>1. CASE j = n
                BY <2>4, <2>8, <4>1
            <4>2. CASE j # n
                <5>1. j \in DOMAIN manifest
                    BY <2>8, <4>2 DEF ByKey
                <5>2. j \in Fit(manifest)
                    BY <2>8, <5>1 DEF ByKey
                <5> QED
                    BY <2>1, <2>8, <5>1, <5>2
            <4> QED
                BY <4>1, <4>2
        <3> QED
            BY <3>1, <3>2
    <2>10. RequirementOutcome(req, more, now) = "met"
        BY <2>1, <2>7, <2>8, <2>9 DEF RequirementOutcome
    <2> QED
        BY <2>2, <2>10 DEF more, again
<1> QED
    BY <1>1, TypeCorrect, PTL

\* The two manifests hold the same items, in any order and number.
SameEvidence(m, q) ==
    /\ \A i \in DOMAIN m : \E j \in DOMAIN q : q[j] = m[i]
    /\ \A j \in DOMAIN q : \E i \in DOMAIN m : m[i] = q[j]

LEMMA SamePool ==
    ASSUME NEW m, NEW q, SameEvidence(m, q), NEW key
    PROVE  /\ \A i \in Pool(m, key) : \E j \in Pool(q, key) : q[j] = m[i]
           /\ \A j \in Pool(q, key) : \E i \in Pool(m, key) : m[i] = q[j]
<1>1. /\ \A i \in ByKey(m, key) : \E j \in ByKey(q, key) : q[j] = m[i]
      /\ \A j \in ByKey(q, key) : \E i \in ByKey(m, key) : m[i] = q[j]
    BY DEF SameEvidence, ByKey
<1>2. (\E i \in ByKey(m, key) : m[i].observed)
          <=> \E j \in ByKey(q, key) : q[j].observed
    BY <1>1
<1>3. CASE \E i \in ByKey(m, key) : m[i].observed
    BY <1>1, <1>2, <1>3 DEF Pool
<1>4. CASE ~\E i \in ByKey(m, key) : m[i].observed
    BY <1>1, <1>2, <1>4 DEF Pool
<1> QED
    BY <1>3, <1>4

LEMMA SameRequirementOutcome ==
    ASSUME NEW m, NEW q, SameEvidence(m, q), NEW req, NEW t
    PROVE  RequirementOutcome(req, m, t) = RequirementOutcome(req, q, t)
<1> DEFINE Fit(s) == {i \in ByKey(s, req.key) : Qualifies(req, s[i])}
<1>1. /\ \A i \in ByKey(m, req.key) : \E j \in ByKey(q, req.key) : q[j] = m[i]
      /\ \A j \in ByKey(q, req.key) : \E i \in ByKey(m, req.key) : m[i] = q[j]
    BY DEF SameEvidence, ByKey
<1>2. /\ \A i \in Fit(m) : \E j \in Fit(q) : q[j] = m[i]
      /\ \A j \in Fit(q) : \E i \in Fit(m) : m[i] = q[j]
    BY <1>1
<1>3. /\ ByKey(m, req.key) = {} <=> ByKey(q, req.key) = {}
      /\ Fit(m) = {} <=> Fit(q) = {}
      /\ (\E i \in Fit(m) : ~m[i].zoned) <=> \E j \in Fit(q) : ~q[j].zoned
      /\ (\E i \in Fit(m) : Fresh(req, m[i], t)) <=> \E j \in Fit(q) : Fresh(req, q[j], t)
    <2> HIDE DEF Fit
    <2> QED
        BY <1>1, <1>2
<1>4. CASE ByKey(m, req.key) = {}
    BY <1>3, <1>4 DEF RequirementOutcome
<1>5. CASE ByKey(m, req.key) # {} /\ Fit(m) = {}
    BY <1>3, <1>5 DEF RequirementOutcome
<1>6. CASE Fit(m) # {} /\ req.max_age = None
    BY <1>3, <1>6 DEF RequirementOutcome
<1>7. CASE ByKey(m, req.key) # {} /\ Fit(m) # {} /\ req.max_age # None
    BY <1>3, <1>7 DEF RequirementOutcome
<1> QED
    BY <1>4, <1>5, <1>6, <1>7

LEMMA SameConflict ==
    ASSUME NEW m, NEW q, SameEvidence(m, q), NEW key
    PROVE  Conflict(m, key) <=> Conflict(q, key)
BY DEF SameEvidence, Conflict, ByKey

\* Where no two of the newest of a key differ, the same value speaks for it.
LEMMA SameValue ==
    ASSUME NEW m \in Seq(EvidenceItem), NEW q \in Seq(EvidenceItem),
           SameEvidence(m, q), NEW key, Pool(m, key) # {},
           \A i, j \in Pool(m, key) :
               m[i].observed_at = m[j].observed_at => m[i].value = m[j].value
    PROVE  Representative(m, key).value = Representative(q, key).value
<1> DEFINE i == Newest(m, Pool(m, key))
           j == Newest(q, Pool(q, key))
<1>1. Pool(q, key) # {}
    BY SamePool
<1>2. IsNewest(m, Pool(m, key), i) /\ IsNewest(q, Pool(q, key), j)
    BY <1>1, RepresentativeSpeaks
<1>3. Representative(m, key) = m[i] /\ Representative(q, key) = q[j]
    BY DEF Representative
<1> HIDE DEF i, j
<1>4. i \in Pool(m, key) /\ j \in Pool(q, key)
    BY <1>2 DEF IsNewest
<1>5. PICK k \in Pool(m, key) : m[k] = q[j]
    BY <1>4, SamePool
<1>6. PICK l \in Pool(q, key) : q[l] = m[i]
    BY <1>4, SamePool
<1>7. m[i].observed_at \in Int /\ q[j].observed_at \in Int
    BY <1>4, PoolOfEvidence
<1>8. m[k].observed_at <= m[i].observed_at /\ q[l].observed_at <= q[j].observed_at
    BY <1>2, <1>5, <1>6, <1>7 DEF IsNewest
<1>9. m[k].observed_at = m[i].observed_at
    BY <1>5, <1>6, <1>7, <1>8
<1> QED
    BY <1>3, <1>4, <1>5, <1>9

\* Two manifests let the same value speak for a key.
SpeakAlike(m, q, key) ==
    /\ Unordered(m, Pool(m, key)) <=> Unordered(q, Pool(q, key))
    /\ Pool(m, key) = {} <=> Pool(q, key) = {}
    /\ Pool(m, key) # {} =>
          Representative(m, key).value = Representative(q, key).value

LEMMA SameComparison ==
    ASSUME NEW m, NEW q, NEW cmp, SpeakAlike(m, q, cmp.left_key),
           cmp.right_key # None => SpeakAlike(m, q, cmp.right_key)
    PROVE  ComparisonOutcome(cmp, m) = ComparisonOutcome(cmp, q)
<1>1. CASE Unordered(m, Pool(m, cmp.left_key))
    <2>1. Pool(m, cmp.left_key) # {}
        BY <1>1 DEF Unordered
    <2> QED
        BY <1>1, <2>1 DEF ComparisonOutcome, SpeakAlike
<1>2. CASE Pool(m, cmp.left_key) = {}
    <2>1. ~Unordered(m, Pool(m, cmp.left_key))
        BY <1>2 DEF Unordered
    <2> QED
        BY <1>2, <2>1 DEF ComparisonOutcome, SpeakAlike
<1>3. CASE Pool(m, cmp.left_key) # {} /\ ~Unordered(m, Pool(m, cmp.left_key))
    <2>1. CASE cmp.right_key = None
        BY <1>3, <2>1 DEF ComparisonOutcome, SpeakAlike
    <2>2. CASE cmp.right_key # None
        BY <1>3, <2>2 DEF ComparisonOutcome, SpeakAlike
    <2> QED
        BY <2>1, <2>2
<1> QED
    BY <1>1, <1>2, <1>3

\* The same evidence decides a rule alike, whatever the order it came in, where
\* no two of the newest of a compared key differ.
LEMMA SameEffect ==
    ASSUME NEW rule, IsRule(rule), NEW t,
           NEW m \in Seq(EvidenceItem), NEW q \in Seq(EvidenceItem),
           SameEvidence(m, q),
           \A key \in ComparedKeys(rule) : \A i, j \in Pool(m, key) :
               m[i].observed_at = m[j].observed_at => m[i].value = m[j].value
    PROVE  /\ RuleOutcome(rule, m, t) = RuleOutcome(rule, q, t)
           /\ RuleEffect(rule, m, t) = RuleEffect(rule, q, t)
<1>1. Unmet(rule, m, t) = Unmet(rule, q, t)
    BY SameRequirementOutcome DEF Unmet
<1>2. ASSUME NEW key \in ComparedKeys(rule) PROVE SpeakAlike(m, q, key)
    <2>1. Unordered(m, Pool(m, key)) <=> Unordered(q, Pool(q, key))
        BY SamePool DEF Unordered
    <2>2. Pool(m, key) = {} <=> Pool(q, key) = {}
        BY SamePool
    <2>3. Pool(m, key) # {} =>
              Representative(m, key).value = Representative(q, key).value
        BY SameValue
    <2> QED
        BY <2>1, <2>2, <2>3 DEF SpeakAlike
<1>3. rule.compare # None =>
          ComparisonOutcome(rule.compare, m) = ComparisonOutcome(rule.compare, q)
    <2> SUFFICES ASSUME rule.compare # None
                 PROVE  ComparisonOutcome(rule.compare, m)
                            = ComparisonOutcome(rule.compare, q)
        OBVIOUS
    <2>1. rule.compare.left_key \in ComparedKeys(rule)
        BY DEF ComparedKeys, IsRule, IsComparison
    <2>2. rule.compare.right_key # None =>
              rule.compare.right_key \in ComparedKeys(rule)
        BY DEF ComparedKeys
    <2> QED
        BY <1>2, <2>1, <2>2, SameComparison
<1>4. (\E key \in rule.forbid_conflicts_on : Conflict(m, key))
          <=> \E key \in rule.forbid_conflicts_on : Conflict(q, key)
    BY SameConflict
<1>5. RuleOutcome(rule, m, t) = RuleOutcome(rule, q, t)
    <2>1. \A req : RequirementOutcome(req, m, t) = RequirementOutcome(req, q, t)
        BY SameRequirementOutcome
    <2> QED
        BY <1>1, <1>3, <1>4, <2>1, Zenon DEF RuleOutcome
<1> QED
    BY <1>5 DEF RuleEffect

\* Another order of the manifest holds the same evidence.
LEMMA OrdersKeepEvidence ==
    ASSUME TypeOK, NEW p \in Orders
    PROVE  Permuted(p) \in Seq(EvidenceItem) /\ SameEvidence(manifest, Permuted(p))
<1> DEFINE places == DOMAIN manifest
<1>1. places = 1 .. Len(manifest) /\ Len(manifest) \in Nat
    BY DEF TypeOK
<1>2. p \in [places -> places] /\ \A i, j \in places : p[i] = p[j] => i = j
    BY DEF Orders
<1>3. /\ DOMAIN Permuted(p) = places
      /\ \A i \in places : Permuted(p)[i] = manifest[p[i]]
    BY DEF Permuted
<1>4. \A i \in places : p[i] \in places /\ manifest[p[i]] \in EvidenceItem
    BY <1>2, Collected
<1>5. Permuted(p) \in Seq(EvidenceItem)
    <2>1. Permuted(p) \in [1 .. Len(manifest) -> EvidenceItem]
        BY <1>1, <1>4 DEF Permuted
    <2> QED
        BY <1>1, <2>1
<1>6. \A j \in places : \E i \in places : p[i] = j
    <2> HIDE DEF places
    <2>1. p \in Injection(places, places)
        BY <1>2 DEF Injection, IsInjective
    <2>2. IsFiniteSet(places)
        BY <1>1, FS_Interval
    <2>3. p \in Surjection(places, places)
        BY <2>1, <2>2, FS_Injection
    <2> QED
        BY <2>3 DEF Surjection
<1>7. SameEvidence(manifest, Permuted(p))
    <2>1. \A j \in places : \E i \in places : Permuted(p)[i] = manifest[j]
        BY <1>3, <1>6
    <2>2. \A i \in places : \E j \in places : manifest[j] = Permuted(p)[i]
        BY <1>3, <1>4
    <2> QED
        BY <1>3, <2>1, <2>2 DEF SameEvidence
<1> QED
    BY <1>5, <1>7

\* The order in which evidence comes in does not matter but to ties.
THEOREM OrderHardlyMatters == Spec => []OrderMattersOnlyForTies
<1>1. TypeOK => OrderMattersOnlyForTies
    <2> SUFFICES ASSUME TypeOK,
                        \A rule \in Rules : \A key \in ComparedKeys(rule) : ~TiesFor(key),
                        NEW p \in Orders
                 PROVE  Evaluate(policy, Permuted(p), now) = Verdict
        BY DEF OrderMattersOnlyForTies
    <2> DEFINE q == Permuted(p)
    <2>1. CASE policy = None
        BY <2>1 DEF Evaluate, Verdict
    <2>2. CASE policy # None
        <3>1. ASSUME NEW rule \in policy
              PROVE  /\ RuleOutcome(rule, manifest, now) = RuleOutcome(rule, q, now)
                     /\ RuleEffect(rule, manifest, now) = RuleEffect(rule, q, now)
            <4>1. IsRule(rule)
                BY <2>2, PoliciesAssumption DEF TypeOK
            <4>2. \A key \in ComparedKeys(rule) : \A i, j \in Pool(manifest, key) :
                      manifest[i].observed_at = manifest[j].observed_at
                          => manifest[i].value = manifest[j].value
                BY <2>2 DEF Rules, TiesFor
            <4>3. /\ manifest \in Seq(EvidenceItem) /\ q \in Seq(EvidenceItem)
                  /\ SameEvidence(manifest, q)
                BY ManifestType, OrdersKeepEvidence
            <4> HIDE DEF q
            <4> QED
                BY <4>1, <4>2, <4>3, SameEffect
        <3> HIDE DEF q
        <3>2. Raises(policy, q, now) <=> Raises(policy, manifest, now)
            BY <3>1 DEF Raises
        <3>3. {RuleEffect(rule, q, now) : rule \in policy}
                  = {RuleEffect(rule, manifest, now) : rule \in policy}
            BY <3>1
        <3>4. Aggregate(policy, q, now) = Aggregate(policy, manifest, now)
            BY <3>3, Zenon DEF Aggregate
        <3>5. Evaluate(policy, q, now) = Evaluate(policy, manifest, now)
            BY <3>2, <3>4, Zenon DEF Evaluate
        <3> QED
            BY <3>5 DEF Verdict, q
    <2> QED
        BY <2>1, <2>2
<1> QED
    BY <1>1, TypeCorrect, PTL

-----------------------------------------------------------------------------
(* Evidence that is too weak to speak.                                     *)

\* Of a key that has an observed item, one more item that is inferred or no newer
\* changes neither whether there is an item nor the one that speaks.
LEMMA WeakerIsMute ==
    ASSUME NEW m \in Seq(EvidenceItem), NEW it \in EvidenceItem, NEW key,
           \E i \in ByKey(m, it.key) :
               /\ m[i].observed
               /\ it.observed => it.observed_at <= m[i].observed_at
    PROVE  /\ Pool(m, key) = {} <=> Pool(Append(m, it), key) = {}
           /\ Pool(m, key) # {} =>
                 Representative(Append(m, it), key) = Representative(m, key)
<1> DEFINE q == Append(m, it)
           n == Len(m) + 1
<1>1. /\ q \in Seq(EvidenceItem) /\ DOMAIN q = 1 .. n /\ q[n] = it
      /\ DOMAIN m = 1 .. Len(m) /\ Len(m) \in Nat
      /\ \A i \in DOMAIN m : q[i] = m[i]
    OBVIOUS
<1> HIDE DEF q
<1>2. ByKey(q, key) = IF it.key = key THEN ByKey(m, key) \cup {n} ELSE ByKey(m, key)
    <2>1. \A i : i \in 1 .. n <=> i \in 1 .. Len(m) \/ i = n
        BY <1>1
    <2> QED
        BY <1>1, <2>1 DEF ByKey
<1>3. ASSUME NEW i \in Pool(m, key)
      PROVE  i \in DOMAIN m /\ q[i] = m[i] /\ i \in Pool(q, key)
    <2>1. i \in ByKey(m, key) /\ i \in DOMAIN m /\ q[i] = m[i]
        BY <1>1 DEF Pool, ByKey
    <2>2. CASE it.key # key
        BY <1>1, <1>2, <2>1, <2>2 DEF Pool, ByKey
    <2>3. CASE it.key = key
        <3>1. m[i].observed
            BY <2>3, PoolFact
        <3>2. i \in ByKey(q, key) /\ q[i].observed
            BY <1>2, <2>1, <3>1
        <3> QED
            BY <2>1, <3>2, PoolFact
    <2> QED
        BY <2>1, <2>2, <2>3
<1>4. Pool(m, key) = {} <=> Pool(q, key) = {}
    <2>1. it.key = key => ByKey(m, key) # {}
        OBVIOUS
    <2> QED
        BY <1>2, <2>1, PoolFact
<1>5. ASSUME Pool(m, key) # {}
      PROVE  Representative(q, key) = Representative(m, key)
    <2> DEFINE i == Newest(m, Pool(m, key))
    <2>1. IsNewest(m, Pool(m, key), i)
        BY <1>5, RepresentativeSpeaks
    <2>2. Representative(m, key) = m[i]
        BY DEF Representative
    <2> HIDE DEF i
    <2>3. i \in Pool(m, key) /\ i \in Pool(q, key) /\ q[i] = m[i] /\ i \in DOMAIN m
        BY <1>3, <2>1 DEF IsNewest
    <2>4. ASSUME NEW j \in Pool(q, key)
          PROVE  \/ q[j].observed_at < q[i].observed_at
                 \/ q[j].observed_at = q[i].observed_at /\ i <= j
        <3>1. CASE j \in Pool(m, key)
            BY <1>3, <2>1, <2>3, <3>1 DEF IsNewest
        <3>2. CASE j \notin Pool(m, key)
            <4>1. it.key = key /\ j = n /\ it.observed
                <5>1. ASSUME it.key # key PROVE FALSE
                    <6>1. Pool(q, key) = Pool(m, key)
                        BY <1>1, <1>2, <5>1 DEF Pool, ByKey
                    <6> QED
                        BY <3>2, <6>1
                <5>2. q[j].observed
                    <6>1. \E k \in Pool(q, key) : q[k].observed
                        BY <1>3, <5>1, PoolFact
                    <6>2. \E k \in ByKey(q, key) : q[k].observed
                        BY <6>1, PoolFact
                    <6> QED
                        BY <6>2, PoolFact
                <5>3. j \in ByKey(m, key) \/ j = n
                    BY <1>2, <5>1, PoolFact
                <5>4. ASSUME j \in ByKey(m, key) PROVE FALSE
                    <6>1. m[j].observed
                        BY <1>1, <5>2, <5>4 DEF ByKey
                    <6> QED
                        BY <3>2, <5>4, <6>1, PoolFact
                <5> QED
                    BY <1>1, <5>1, <5>2, <5>3, <5>4
            <4>2. PICK k \in ByKey(m, key) :
                      m[k].observed /\ it.observed_at <= m[k].observed_at
                BY <4>1
            <4>3. k \in Pool(m, key)
                BY <4>2, PoolFact
            <4>4. /\ m[k].observed_at \in Int /\ m[i].observed_at \in Int
                  /\ it.observed_at \in Int
                BY <2>3, <4>3, PoolOfEvidence DEF EvidenceItem
            <4>5. m[k].observed_at <= m[i].observed_at
                BY <2>1, <4>3, <4>4 DEF IsNewest
            <4>6. i <= j
                BY <1>1, <2>3, <4>1
            <4> QED
                BY <1>1, <2>3, <4>1, <4>2, <4>4, <4>5, <4>6
        <3> QED
            BY <3>1, <3>2
    <2>5. IsNewest(q, Pool(q, key), i)
        BY <2>3, <2>4 DEF IsNewest
    <2>6. Representative(q, key) = q[i]
        BY <1>1, <2>5, NewestSpeaks
    <2> QED
        BY <2>2, <2>3, <2>6
<1> QED
    BY <1>4, <1>5 DEF q

\* Where every item has a time zone, no pool is without an order.
LEMMA ZonedIsOrdered ==
    ASSUME NEW m, \A i \in DOMAIN m : m[i].zoned = TRUE, NEW key
    PROVE  ~Unordered(m, Pool(m, key))
BY DEF Unordered, Pool, ByKey

LEMMA WeakerStep ==
    TypeOK /\ Next => (manifest' # manifest => LET it == manifest'[Len(manifest')] IN
        \A rule \in Rules :
            (/\ rule.compare # None
             /\ it.zoned /\ \A i \in DOMAIN manifest : manifest[i].zoned
             /\ \E i \in ByKey(manifest, it.key) :
                   /\ manifest[i].observed
                   /\ it.observed => it.observed_at <= manifest[i].observed_at)
            => ComparisonOutcome(rule.compare, manifest') =
               ComparisonOutcome(rule.compare, manifest))
<1> SUFFICES ASSUME TypeOK, NEW it \in Items, manifest' = Append(manifest, it),
                    NEW cmp, it.zoned, \A i \in DOMAIN manifest : manifest[i].zoned,
                    \E i \in ByKey(manifest, it.key) :
                        /\ manifest[i].observed
                        /\ it.observed => it.observed_at <= manifest[i].observed_at
             PROVE  ComparisonOutcome(cmp, Append(manifest, it)) =
                    ComparisonOutcome(cmp, manifest)
    <2>1. ASSUME TypeOK, NEW it \in Items
          PROVE  Append(manifest, it)[Len(Append(manifest, it))] = it
        BY <2>1 DEF TypeOK
    <2> QED
        BY <2>1 DEF Next, Observe, Wait
<1> DEFINE q == Append(manifest, it)
<1>1. manifest \in Seq(EvidenceItem) /\ it \in EvidenceItem
    BY ManifestType, PoliciesAssumption
<1>2. \A i \in DOMAIN manifest : manifest[i].zoned = TRUE
    BY Collected DEF EvidenceItem
<1>3. \A i \in DOMAIN q : q[i].zoned = TRUE
    <2>1. it.zoned = TRUE
        BY <1>1 DEF EvidenceItem
    <2>2. \A i \in DOMAIN q : q[i] = it \/ \E j \in DOMAIN manifest : q[i] = manifest[j]
        BY <1>1
    <2> HIDE DEF q
    <2> QED
        BY <1>2, <2>1, <2>2
<1>4. ASSUME NEW key PROVE SpeakAlike(q, manifest, key)
    <2>1. ~Unordered(manifest, Pool(manifest, key))
        BY <1>2, ZonedIsOrdered
    <2>2. ~Unordered(q, Pool(q, key))
        <3> HIDE DEF q
        <3> QED
            BY <1>3, ZonedIsOrdered
    <2>3. /\ Pool(manifest, key) = {} <=> Pool(q, key) = {}
          /\ Pool(manifest, key) # {} =>
                Representative(q, key) = Representative(manifest, key)
        BY <1>1, WeakerIsMute
    <2> QED
        BY <2>1, <2>2, <2>3 DEF SpeakAlike
<1> QED
    <2> HIDE DEF q
    <2>1. ComparisonOutcome(cmp, q) = ComparisonOutcome(cmp, manifest)
        BY <1>4, SameComparison
    <2> QED
        BY <2>1 DEF q

\* A stale or inferred duplicate never sets a compared value.
THEOREM WeakerNeverSets == Spec => WeakerNeverSpeaks
BY TypeCorrect, WeakerStep, PTL DEF Spec, WeakerNeverSpeaks

=============================================================================
