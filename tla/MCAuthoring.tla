---------------------------- MODULE MCAuthoring ----------------------------
(***************************************************************************)
(* Authoring on the layout of policies/: refund.yaml governs               *)
(* billing.issue_refund, marketing.send_sequence.yaml stands for a pack    *)
(* that was activated once.  In the order of their names the files are     *)
(* billing.issue_refund.yaml, marketing.send_sequence.yaml, refund.yaml.   *)
(***************************************************************************)
EXTENDS Authoring, TLC

Refund == "billing.issue_refund"
Marketing == "marketing.send_sequence"

MCAction == {Refund, Marketing}

MCText == {"refund v1", "refund v2", "marketing v1", "marketing v2",
           "marketing v3", "marketing, confidence 2", "not a policy",
           "empty", "torn"}

Governs(action) == [action |-> action, in_range |-> TRUE]

MCPolicyIn == [t \in MCText |->
    CASE t \in {"refund v1", "refund v2"} -> Governs(Refund)
      [] t \in {"marketing v1", "marketing v2", "marketing v3", "torn"} ->
            Governs(Marketing)
      [] t = "marketing, confidence 2" ->
            [action |-> Marketing, in_range |-> FALSE]
      [] OTHER -> None]

MCDrafted == {"refund v2", "marketing v2", "marketing v3",
              "marketing, confidence 2", "not a policy"}

MCFileFor == [a \in MCAction |-> IF a = Refund THEN 1 ELSE 2]

MCShipped == [n \in 1 .. 3 |->
    CASE n = 1 -> None [] n = 2 -> "marketing v1" [] n = 3 -> "refund v1"]

Symmetry == Permutations(Command)

=============================================================================
