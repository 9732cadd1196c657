----------------------------- MODULE Evaluation -----------------------------
(***************************************************************************)
(* A session of one agent under one policy: tools run and leave evidence   *)
(* behind, in the order in which the ManifestBuilder collects it, and time *)
(* passes.  In every state the engine could be asked for its verdict; the  *)
(* properties relate the verdict to the evidence, and the verdicts before  *)
(* and after a step to each other.                                         *)
(***************************************************************************)
EXTENDS Engine, FiniteSets

CONSTANTS
    Policies,   \* what PolicySet.get may answer: sets of rules, or None
    Items,      \* the evidence that may be recorded
    MaxItems,   \* bound on the manifest
    MaxNow      \* bound on the clock

VARIABLES
    policy,     \* the policy of the action
    manifest,   \* the evidence so far
    now         \* the clock that is passed to the engine

vars == <<policy, manifest, now>>

OptionalInt == Int \cup {None}

IsRequirement(req) ==
    /\ {"key", "must_exist", "equals", "in_", "source_in", "observed",
        "max_age", "min_confidence"} = DOMAIN req
    /\ req.must_exist \in BOOLEAN
    /\ req.max_age \in OptionalInt

\* A left operand, exactly one right-hand side, and an operator that
\* _COMPARATORS knows.
IsComparison(cmp) ==
    /\ cmp.left_key # None
    /\ (cmp.right_key # None) # (cmp.right_value # None)
    /\ cmp.right_value \in Value \cup {None}
    /\ cmp.op \in Relational \cup {"==", "!="}

\* What the validator of Rule insists on.
IsRule(rule) ==
    /\ rule.effect_on_fail \in Effect
    /\ rule.effect_on_stale \in Effect \cup {None}
    /\ DOMAIN rule.requirements \subseteq Nat
    /\ \A i \in DOMAIN rule.requirements : IsRequirement(rule.requirements[i])
    /\ \/ rule.requirements # <<>>
       \/ rule.forbid_conflicts_on # {}
       \/ rule.compare # None
    /\ rule.compare # None => IsComparison(rule.compare)

ASSUME PoliciesAssumption ==
    /\ \A p \in Policies : p # None => IsFiniteSet(p) /\ \A rule \in p : IsRule(rule)
    /\ Items \subseteq EvidenceItem
    /\ MaxItems \in Nat
    /\ MaxNow \in Nat

-----------------------------------------------------------------------------
(* The linter of compiler.py, on a policy that the schema has accepted.    *)

\* Warning: the rule enforces nothing when it fails.
FailsOpen(rule) == rule.effect_on_fail = "allow"

\* Warning: a limit on the age, and no verdict of its own for what is too old.
NoStaleRoute(rule) ==
    /\ \E i \in DOMAIN rule.requirements : rule.requirements[i].max_age # None
    /\ rule.effect_on_stale = None

\* Error: a confidence that is none.  Confidences are counted in tenths.
OddConfidence(rule) ==
    \E i \in DOMAIN rule.requirements :
        LET least == rule.requirements[i].min_confidence
        IN  least # None /\ least \notin 0 .. 10

\* _semantic_lints: what is found, and the rules it is found of.
Lint(rules) ==
    [no_rules       |-> rules = {},
     fails_open     |-> {rule \in rules : FailsOpen(rule)},
     no_stale_route |-> {rule \in rules : NoStaleRoute(rule)},
     odd_confidence |-> {rule \in rules : OddConfidence(rule)}]

-----------------------------------------------------------------------------
Init ==
    /\ policy \in Policies
    /\ manifest = <<>>
    /\ now = 0

\* Mutation of Observe: the item is stamped when the manifest takes it in.
ObserveRestamped ==
    /\ Len(manifest) < MaxItems
    /\ \E it \in Items :
          manifest' = Append(manifest, [it EXCEPT !.observed_at = now])
    /\ UNCHANGED <<policy, now>>

\* ManifestBuilder.build, or GateSession.record, takes in one more item.
Observe ==
    /\ Len(manifest) < MaxItems
    /\ \E it \in Items : manifest' = Append(manifest, it)
    /\ UNCHANGED <<policy, now>>

Wait ==
    /\ now < MaxNow
    /\ now' = now + 1
    /\ UNCHANGED <<policy, manifest>>

Next == Observe \/ Wait

Spec == Init /\ [][Next]_vars

-----------------------------------------------------------------------------
(* Properties.                                                             *)

TypeOK ==
    /\ policy \in Policies
    /\ manifest \in Seq(Items)
    /\ now \in 0 .. MaxNow

Rules == IF policy = None THEN {} ELSE policy

Requirements(rule) ==
    {rule.requirements[i] : i \in DOMAIN rule.requirements}

Verdict == Evaluate(policy, manifest, now)

\* One item that alone establishes a requirement.
Proves(req, it) ==
    /\ it.key = req.key
    /\ Qualifies(req, it)
    /\ req.max_age # None => it.zoned /\ it.observed_at >= now - req.max_age

\* One item outranks another of its key: it is observed and the other is not, or
\* it is newer.
Outranks(it, other) ==
    \/ it.observed /\ ~other.observed
    \/ it.observed = other.observed /\ it.observed_at > other.observed_at

\* The values that no other item of the key has more right to speak for.
Spoken(key) ==
    {manifest[i].value : i \in
        {i \in ByKey(manifest, key) :
            ~\E j \in ByKey(manifest, key) : Outranks(manifest[j], manifest[i])}}

\* What a comparison may compare with.
RightOperands(cmp) ==
    IF cmp.right_key = None THEN {cmp.right_value} ELSE Spoken(cmp.right_key)

\* What each operator asks of two values; only numbers have an order.
Satisfies(op, a, b) ==
    /\ op \in Relational => IsNumber(a) /\ IsNumber(b)
    /\ op \in {"<", "<="} => a.n <= b.n
    /\ op \in {">", ">="} => b.n <= a.n
    /\ op = "==" => PyEqual(a, b)
    /\ op \in {"<", ">", "!="} => ~PyEqual(a, b)

\* Nothing is allowed unproved: an allow verdict has, for every rule that the
\* linter does not say to fail open (compiler.py:136) and that does not let
\* stale evidence pass, which the linter does not look at, one item for every
\* insisting requirement that meets all its constraints at once, no forbidden
\* conflict, and, whatever the operator, a comparison that holds: of what the
\* newest observed item of its key says (the newest inferred one, if none is
\* observed), and of its literal or of what that of the other key says
\* (engine.py:199).
AllowIsProved ==
    (policy # None /\ Verdict = "allow") => \A rule \in Rules :
        (rule \notin Lint(policy).fails_open /\ rule.effect_on_stale # "allow") =>
            /\ \A req \in Requirements(rule) :
                  \/ ~req.must_exist /\ ByKey(manifest, req.key) = {}
                  \/ \E i \in DOMAIN manifest : Proves(req, manifest[i])
            /\ \A key \in rule.forbid_conflicts_on :
                  \A i, j \in {k \in ByKey(manifest, key) : manifest[k].observed} :
                      PyEqual(manifest[i].value, manifest[j].value)
            /\ rule.compare # None =>
                  \E left \in Spoken(rule.compare.left_key),
                     right \in RightOperands(rule.compare) :
                        Satisfies(rule.compare.op, left, right)

\* Most-restrictive-wins (DESIGN.md 5.4): whichever rules a pack is cut down
\* to, as long as one is left, the verdict does not get stricter, and it is
\* the effect of one of its rules.
RulesOnlyTighten ==
    (policy # None /\ policy # {} /\ Verdict # "raises") =>
        /\ \E rule \in policy : Verdict = RuleEffect(rule, manifest, now)
        /\ \A pack \in (SUBSET policy) \ {{}} :
              Severity[Aggregate(pack, manifest, now)] <= Severity[Verdict]

\* A stale verdict is one that re-observing cures (engine.py:116): the same
\* fact, fetched again now, meets the requirement, even when no age at all is
\* tolerated.
RefreshCures ==
    \A rule \in Rules : \A req \in Requirements(rule) :
        (RequirementOutcome(req, manifest, now) = "stale" /\ req.max_age >= 0) =>
            \E i \in ByKey(manifest, req.key) :
                LET again == [manifest[i] EXCEPT !.observed_at = now]
                IN  RequirementOutcome(req, Append(manifest, again), now) = "met"

\* The order in which evidence was collected does not matter to the verdict,
\* unless two items tie for the newest of a compared key.
Permuted(p) == [i \in DOMAIN manifest |-> manifest[p[i]]]

Orders == {p \in [DOMAIN manifest -> DOMAIN manifest] :
              \A i, j \in DOMAIN manifest : p[i] = p[j] => i = j}

TiesFor(key) ==
    \E i, j \in Pool(manifest, key) :
        /\ manifest[i].observed_at = manifest[j].observed_at
        /\ manifest[i].value # manifest[j].value

ComparedKeys(rule) ==
    IF rule.compare = None THEN {}
    ELSE {rule.compare.left_key, rule.compare.right_key} \ {None}

OrderMattersOnlyForTies ==
    (\A rule \in Rules : \A key \in ComparedKeys(rule) : ~TiesFor(key)) =>
        \A p \in Orders : Evaluate(policy, Permuted(p), now) = Verdict

\* A fresh but wrong item cannot mask a right one (engine.py:136): evidence
\* that comes in never undoes a requirement that evidence has met, though an
\* item without a time zone may make the engine raise.
EvidenceNeverUnmeets ==
    [][manifest' # manifest => \A rule \in Rules : \A req \in Requirements(rule) :
          (ByKey(manifest, req.key) # {}
              /\ RequirementOutcome(req, manifest, now) = "met")
          => RequirementOutcome(req, manifest', now') \in {"met", "raises"}]_vars

\* The clock does one thing to a requirement, it turns a met one stale; to
\* conflicts and comparisons it does nothing (DESIGN.md 5.5).
TimeOnlyStales ==
    [][now' # now => \A rule \in Rules : \A req \in Requirements(rule) :
          LET before == RequirementOutcome(req, manifest, now)
              after  == RequirementOutcome(req, manifest', now')
          IN  after = before \/ (before = "met" /\ after = "stale")]_vars

\* No amount of further evidence, and no waiting, talks the engine out of a
\* conflict it has found (DESIGN.md 5.3).
ConflictStays ==
    [][\A rule \in Rules :
          RuleOutcome(rule, manifest, now) = "conflict" =>
              RuleOutcome(rule, manifest', now') = "conflict"]_vars

\* A stale or inferred duplicate never sets the compared value (engine.py:187):
\* once a key has an observed item, neither an inferred item nor one that is no
\* newer changes how a comparison ends, as long as all have a time zone.
WeakerNeverSpeaks ==
    [][manifest' # manifest => LET it == manifest'[Len(manifest')] IN
          \A rule \in Rules :
              (/\ rule.compare # None
               /\ it.zoned /\ \A i \in DOMAIN manifest : manifest[i].zoned
               /\ \E i \in ByKey(manifest, it.key) :
                     /\ manifest[i].observed
                     /\ it.observed => it.observed_at <= manifest[i].observed_at)
              => ComparisonOutcome(rule.compare, manifest') =
                 ComparisonOutcome(rule.compare, manifest)]_vars

-----------------------------------------------------------------------------
(* What documents say of the engine and the code does not do.              *)

\* The per-key requirements vet the operands of the comparison (engine.py:103,
\* policy.py:68): the item a comparison was decided on meets what the rule
\* requires of its key.
ComparedEvidenceIsVetted ==
    \A rule \in Rules :
        (rule.compare # None /\ RuleOutcome(rule, manifest, now) = "met") =>
            \A req \in Requirements(rule) :
                req.key = rule.compare.left_key =>
                    Qualifies(req, Representative(manifest, req.key))

=============================================================================
