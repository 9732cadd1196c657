------------------------------- MODULE Engine -------------------------------
(***************************************************************************)
(* The rule engine (engine.py) over the policy and evidence schemas        *)
(* (policy.py, schemas.py): a pure function of a policy, a manifest and    *)
(* the time, built from operators only.                                    *)
(*                                                                         *)
(* A manifest is a sequence of items.  A rule's requirements are a         *)
(* sequence, because the first one that fails decides; its conflict keys   *)
(* and a policy's rules are sets, because only their union matters to the  *)
(* effect.  Reasons and evidence references are left out; what is kept of  *)
(* them is why a check failed.                                             *)
(***************************************************************************)
EXTENDS Effects, Integers, Sequences

CONSTANT None   \* Python's None: a field of a policy that is not set

Kind == {"num", "bool", "text"}

\* EvidenceItem.value, of type Any.  A text is identified by a number.
Value == [kind : Kind, n : Int]

IsNumber(v) == v.kind = "num"

\* Python's ==, for which True equals 1 and False equals 0.
PyEqual(a, b) ==
    IF {a.kind, b.kind} \subseteq {"num", "bool"} THEN a.n = b.n ELSE a = b

\* zoned: observed_at carries a time zone, as the gate's clock does.  Python
\* neither subtracts nor orders two timestamps of which only one does.
EvidenceItem ==
    [key : STRING, value : Value, source : STRING, observed_at : Int,
     zoned : BOOLEAN, confidence : Nat, observed : BOOLEAN]

-----------------------------------------------------------------------------
\* EvidenceManifest.by_key, as positions.
ByKey(manifest, key) == {i \in DOMAIN manifest : manifest[i].key = key}

\* _non_freshness_reason is None.
Qualifies(req, item) ==
    /\ req.equals # None => PyEqual(item.value, req.equals)
    /\ req.in_ # None => \E v \in req.in_ : PyEqual(item.value, v)
    /\ req.source_in # None => item.source \in req.source_in
    /\ req.observed # None => item.observed = req.observed
    /\ req.min_confidence # None => item.confidence >= req.min_confidence

\* Mutation of Fresh: the limit is excluded.
YoungerThan(req, item, now) == now - item.observed_at < req.max_age

\* Mutation of Fresh: the comparison is turned round.
OlderThan(req, item, now) == now - item.observed_at >= req.max_age

\* Within max_age, the limit included.
Fresh(req, item, now) == now - item.observed_at <= req.max_age

\* Mutation of RequirementOutcome: freshness is asked of any item of the key.
OutcomeOfAnyFresh(req, manifest, now) ==
    LET items      == ByKey(manifest, req.key)
        qualifying == {i \in items : Qualifies(req, manifest[i])}
    IN  CASE items = {} -> IF req.must_exist THEN "missing" ELSE "met"
          [] items # {} /\ qualifying = {} -> "unfit"
          [] qualifying # {} /\ req.max_age = None -> "met"
          [] OTHER ->
                IF \E i \in items : ~manifest[i].zoned THEN "raises"
                ELSE IF \E i \in items : Fresh(req, manifest[i], now)
                     THEN "met" ELSE "stale"

\* Mutation of RequirementOutcome: every qualifying item must be fresh.
OutcomeOfAllFresh(req, manifest, now) ==
    LET items      == ByKey(manifest, req.key)
        qualifying == {i \in items : Qualifies(req, manifest[i])}
    IN  CASE items = {} -> IF req.must_exist THEN "missing" ELSE "met"
          [] items # {} /\ qualifying = {} -> "unfit"
          [] qualifying # {} /\ req.max_age = None -> "met"
          [] OTHER ->
                IF \E i \in qualifying : ~manifest[i].zoned THEN "raises"
                ELSE IF \A i \in qualifying : Fresh(req, manifest[i], now)
                     THEN "met" ELSE "stale"

\* _check_requirement: the outcome, and when it is not "met" the reason.
RequirementOutcome(req, manifest, now) ==
    LET items      == ByKey(manifest, req.key)
        qualifying == {i \in items : Qualifies(req, manifest[i])}
    IN  CASE items = {} -> IF req.must_exist THEN "missing" ELSE "met"
          [] items # {} /\ qualifying = {} -> "unfit"
          [] qualifying # {} /\ req.max_age = None -> "met"
          [] OTHER ->
                IF \E i \in qualifying : ~manifest[i].zoned THEN "raises"
                ELSE IF \E i \in qualifying : Fresh(req, manifest[i], now)
                     THEN "met" ELSE "stale"

-----------------------------------------------------------------------------
\* Mutation of Pool: inferred items compete with the observed ones.
WholePool(manifest, key) == ByKey(manifest, key)

\* The items _representative chooses from.
Pool(manifest, key) ==
    LET items    == ByKey(manifest, key)
        observed == {i \in items : manifest[i].observed}
    IN  IF observed # {} THEN observed ELSE items

\* Mutation of Newest: the item collected last, whenever it was observed.
LastCollected(manifest, pool) == CHOOSE i \in pool : \A j \in pool : j <= i

\* max(pool, key=observed_at), the first of the newest.
Newest(manifest, pool) ==
    CHOOSE i \in pool : \A j \in pool :
        \/ manifest[j].observed_at < manifest[i].observed_at
        \/ manifest[j].observed_at = manifest[i].observed_at /\ i <= j

\* max compares items of which some have a zone and some have none.
Unordered(manifest, pool) ==
    \E i, j \in pool : manifest[i].zoned # manifest[j].zoned

Representative(manifest, key) == manifest[Newest(manifest, Pool(manifest, key))]

Relational == {"<", "<=", ">", ">="}

\* _COMPARATORS
Holds(op, a, b) ==
    CASE op = "<"  -> a.n < b.n
      [] op = "<=" -> a.n <= b.n
      [] op = ">"  -> a.n > b.n
      [] op = ">=" -> a.n >= b.n
      [] op = "==" -> PyEqual(a, b)
      [] op = "!=" -> ~PyEqual(a, b)

\* _check_comparison on two values that are there.
ValuesOutcome(op, left, right) ==
    IF op \in Relational /\ ~(IsNumber(left) /\ IsNumber(right)) THEN "unfit"
    ELSE IF Holds(op, left, right) THEN "met" ELSE "failed"

\* _check_comparison: the left operand first, then the right one.
ComparisonOutcome(cmp, manifest) ==
    LET left  == Pool(manifest, cmp.left_key)
        right == Pool(manifest, cmp.right_key)
    IN  CASE Unordered(manifest, left) -> "raises"
          [] left = {} -> "missing"
          [] left # {} /\ ~Unordered(manifest, left) ->
                IF cmp.right_key = None
                THEN ValuesOutcome(cmp.op,
                                   Representative(manifest, cmp.left_key).value,
                                   cmp.right_value)
                ELSE IF Unordered(manifest, right) THEN "raises"
                ELSE IF right = {} THEN "missing"
                ELSE ValuesOutcome(cmp.op,
                                   Representative(manifest, cmp.left_key).value,
                                   Representative(manifest, cmp.right_key).value)

-----------------------------------------------------------------------------
\* Mutation of Conflict: a conflict only while all observed items disagree.
AllDisagree(manifest, key) ==
    LET observed == {i \in ByKey(manifest, key) : manifest[i].observed}
    IN  /\ \E i, j \in observed : i # j
        /\ \A i, j \in observed :
              i # j => ~PyEqual(manifest[i].value, manifest[j].value)

\* _find_conflict: two observed items of a key whose values differ.
Conflict(manifest, key) ==
    \E i, j \in ByKey(manifest, key) :
        /\ manifest[i].observed /\ manifest[j].observed
        /\ ~PyEqual(manifest[i].value, manifest[j].value)

Unmet(rule, manifest, now) ==
    {i \in DOMAIN rule.requirements :
        RequirementOutcome(rule.requirements[i], manifest, now) # "met"}

\* _evaluate_rule: conflicts, then the first requirement that is not met, then
\* the comparison.
RuleOutcome(rule, manifest, now) ==
    LET unmet == Unmet(rule, manifest, now)
        first == CHOOSE i \in unmet : \A j \in unmet : i <= j
    IN  IF \E key \in rule.forbid_conflicts_on : Conflict(manifest, key)
        THEN "conflict"
        ELSE IF unmet # {}
        THEN RequirementOutcome(rule.requirements[first], manifest, now)
        ELSE IF rule.compare # None
        THEN ComparisonOutcome(rule.compare, manifest)
        ELSE "met"

RuleEffect(rule, manifest, now) ==
    CASE RuleOutcome(rule, manifest, now) = "met" -> "allow"
      [] RuleOutcome(rule, manifest, now) = "stale" ->
            IF rule.effect_on_stale # None THEN rule.effect_on_stale
            ELSE rule.effect_on_fail
      [] OTHER -> rule.effect_on_fail

\* The comprehension of evaluate lets the first exception out.
Raises(rules, manifest, now) ==
    \E rule \in rules : RuleOutcome(rule, manifest, now) = "raises"

Aggregate(rules, manifest, now) ==
    MostRestrictive({RuleEffect(rule, manifest, now) : rule \in rules})

\* evaluate and _decision; policy is the set of rules of the action, or None
\* when no policy governs it.
Evaluate(policy, manifest, now) ==
    IF policy = None THEN "block"
    ELSE IF Raises(policy, manifest, now) THEN "raises"
    ELSE Aggregate(policy, manifest, now)

=============================================================================
