------------------------------ MODULE Effects ------------------------------
(***************************************************************************)
(* The four-valued verdict of the gate (schemas.py, class Effect) and the  *)
(* most-restrictive-wins aggregation of rule results (engine._decision).   *)
(***************************************************************************)
EXTENDS Naturals

Effect == {"allow", "restrict", "review", "block"}

\* _EFFECT_ORDER, and the property Effect.severity that reads it.
Severity == [allow |-> 0, restrict |-> 1, review |-> 2, block |-> 3]

\* GateResult.allowed: the two effects on which a guarded tool runs.
Executes(e) == e \in {"allow", "restrict"}

\* Mutation of MostRestrictive: min where the code has max.
LeastRestrictive(effects) ==
    IF effects = {}
    THEN "allow"
    ELSE CHOOSE e \in effects : \A f \in effects : Severity[f] >= Severity[e]

\* max(..., key=severity, default=ALLOW) over the effects of the rule results.
MostRestrictive(effects) ==
    IF effects = {}
    THEN "allow"
    ELSE CHOOSE e \in effects : \A f \in effects : Severity[f] <= Severity[e]

=============================================================================
