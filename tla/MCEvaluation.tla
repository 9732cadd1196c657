---------------------------- MODULE MCEvaluation ----------------------------
(***************************************************************************)
(* Evaluation with the shapes of the shipped policies (policies/*.yaml):   *)
(* "opt_in" and "paid" are checked for value, source, freshness and        *)
(* agreement, "amount" is compared with a literal and with "total".        *)
(***************************************************************************)
EXTENDS Evaluation

Num(n) == [kind |-> "num", n |-> n]
Bool(b) == [kind |-> "bool", n |-> IF b THEN 1 ELSE 0]
Text(n) == [kind |-> "text", n |-> n]

Item(key, value, source, at, observed) ==
    [key |-> key, value |-> value, source |-> source, observed_at |-> at,
     zoned |-> TRUE, confidence |-> 9, observed |-> observed]

OptIn == Item("opt_in", Bool(TRUE), "tool_result", 0, TRUE)
Amount == Item("amount", Num(1), "tool_result", 0, TRUE)
Total == Item("total", Num(1), "tool_result", 0, TRUE)

FactItems == {
    OptIn,
    [OptIn EXCEPT !.observed_at = 1],
    [OptIn EXCEPT !.value = Bool(FALSE), !.observed_at = 1],
    [OptIn EXCEPT !.source = "memory", !.observed_at = 2],
    [OptIn EXCEPT !.observed = FALSE, !.value = Num(1)],
    [OptIn EXCEPT !.confidence = 5],
    [OptIn EXCEPT !.zoned = FALSE],
    Item("paid", Bool(TRUE), "tool_result", 1, TRUE),
    Item("paid", Num(0), "retrieval", 0, TRUE)}

AmountItems == {
    Amount,
    [Amount EXCEPT !.value = Num(3), !.observed_at = 1],
    [Amount EXCEPT !.value = Num(2), !.observed_at = 2, !.observed = FALSE],
    [Amount EXCEPT !.value = Bool(TRUE), !.observed_at = 1],
    [Amount EXCEPT !.value = Text(1), !.source = "user_input", !.observed_at = 2],
    [Amount EXCEPT !.value = Num(2), !.source = "user_input", !.observed_at = 1],
    [Amount EXCEPT !.zoned = FALSE, !.observed_at = 1],
    Total,
    [Total EXCEPT !.value = Num(2), !.observed_at = 1]}

AllItems == FactItems \cup AmountItems

Requirement(key) ==
    [key |-> key, must_exist |-> TRUE, equals |-> None, in_ |-> None,
     source_in |-> None, observed |-> None, max_age |-> None,
     min_confidence |-> None]

Rule(requirements, conflicts, compare, fail, stale) ==
    [requirements |-> requirements, forbid_conflicts_on |-> conflicts,
     compare |-> compare, effect_on_fail |-> fail, effect_on_stale |-> stale]

OptInRequired ==
    [Requirement("opt_in") EXCEPT
        !.equals = Bool(TRUE), !.source_in = {"tool_result", "retrieval"},
        !.observed = TRUE, !.max_age = 1, !.min_confidence = 7]

PaidNow == [Requirement("paid") EXCEPT
               !.must_exist = FALSE, !.in_ = {Bool(TRUE)}, !.max_age = 0]

AmountFromTool ==
    [Requirement("amount") EXCEPT !.source_in = {"tool_result"}, !.observed = TRUE]

Compare(left, op, right_key, right_value) ==
    [left_key |-> left, op |-> op, right_key |-> right_key,
     right_value |-> right_value]

Marketing == {
    Rule(<<OptInRequired>>, {}, None, "block", "review"),
    Rule(<<>>, {"opt_in"}, None, "review", None)}

Account == {
    Rule(<<PaidNow, OptInRequired>>, {"paid"}, None, "block", "review"),
    Rule(<<PaidNow>>, {}, None, "restrict", None)}

Refund == {
    Rule(<<>>, {}, Compare("amount", "<=", "total", None), "block", None),
    Rule(<<AmountFromTool>>, {}, Compare("amount", "<=", None, Num(2)), "restrict", None),
    Rule(<<>>, {"total"}, None, "review", None)}

\* An operator, once with a literal and once with the total.
Compared(op) == {
    Rule(<<>>, {}, Compare("amount", op, None, Num(2)), "block", None),
    Rule(<<>>, {}, Compare("amount", op, "total", None), "restrict", None)}

\* What the linter warns of, and what it does not.
Lax == {
    Rule(<<OptInRequired>>, {}, None, "allow", None),
    Rule(<<PaidNow>>, {}, None, "block", "allow")}

AllPolicies ==
    {None, Marketing, Account, Refund, Lax}
        \cup {Compared(op) : op \in Relational \cup {"==", "!="}}

OnlyRefund == {Refund}

=============================================================================
