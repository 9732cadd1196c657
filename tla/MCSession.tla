------------------------------ MODULE MCSession ------------------------------
(***************************************************************************)
(* Session and Replay on a small instance: a look-up of an opt-in, a send  *)
(* that needs one, a charge that is checked too and whose result is        *)
(* evidence, and a note that nobody has classified.                        *)
(***************************************************************************)
EXTENDS Replay

MCTool == {"get_optin", "send_marketing", "send_charge", "note"}
MCAction == {"send", "charge"}

MCPatterns == <<[tools |-> {"send_charge"}, action |-> "charge"],
                [tools |-> {"send_charge", "send_marketing"}, action |-> "send"]>>

OptIn(n, at, zoned) ==
    [key |-> "opt_in", value |-> [kind |-> "bool", n |-> n],
     source |-> "tool_result", observed_at |-> at, zoned |-> zoned,
     confidence |-> 9, observed |-> TRUE]

\* A look-up finds an opt-in, or one with a time of its own and no zone, or
\* that there is none, or nothing; what a charge returns confirms the opt-in.
MCExtractor ==
    [tool \in {"get_optin", "send_charge"} |->
        IF tool = "send_charge" THEN [charged |-> <<OptIn(1, None, TRUE)>>]
        ELSE [yes    |-> <<OptIn(1, None, TRUE)>>,
              dated  |-> <<OptIn(1, 0, FALSE)>>,
              no     |-> <<OptIn(0, None, TRUE)>>,
              absent |-> <<>>]]

Required(max_age) ==
    [key |-> "opt_in", must_exist |-> TRUE,
     equals |-> [kind |-> "bool", n |-> 1], in_ |-> None, source_in |-> None,
     observed |-> None, max_age |-> max_age, min_confidence |-> None]

Rule(requirements, unanimous, fail, stale) ==
    [requirements |-> requirements, forbid_conflicts_on |-> unanimous,
     compare |-> None, effect_on_fail |-> fail, effect_on_stale |-> stale]

\* A send needs a fresh opt-in, and a human if look-ups disagree; a charge is
\* restricted without one.
MCPolicyOf ==
    [action \in MCAction |->
        IF action = "send"
        THEN {Rule(<<Required(0)>>, {}, "block", "review"),
              Rule(<<>>, {"opt_in"}, "review", None)}
        ELSE {Rule(<<Required(None)>>, {}, "restrict", None)}]

BothAdapters == {"callbacks", "wrapped"}

\* What a replay sees does not depend on how the session was reached.
OneAdapter == {"wrapped"}

MCMappings == {
    [observed_at |-> "start", result |-> TRUE, zoned |-> TRUE],
    [observed_at |-> "start", result |-> FALSE, zoned |-> TRUE],
    [observed_at |-> "start", result |-> TRUE, zoned |-> FALSE],
    [observed_at |-> "at", result |-> TRUE, zoned |-> TRUE]}

=============================================================================
