---------------------------- MODULE Enforcement ----------------------------
(***************************************************************************)
(* What the gate promises, whatever threads, disks and processes do: there *)
(* is a durable ledger of verdicts and human overrides, a check gets at    *)
(* most one verdict in it, a tool runs, parks or is refused only on the    *)
(* verdict that says so, and a human overrides only what was parked.       *)
(***************************************************************************)
EXTENDS Effects

CONSTANTS Check, Resolution, None

VARIABLES
    ledger,   \* the entries written, never taken back
    outcome   \* what became of each check

vars == <<ledger, outcome>>

Entry == [check : Check, effect : Effect, approver : Resolution \cup {None}]

Verdict(c, e) == [check |-> c, effect |-> e, approver |-> None]

Init ==
    /\ ledger = {}
    /\ outcome = [c \in Check |-> "pending"]

Decide(c) ==
    /\ outcome[c] = "pending"
    /\ \A e \in Effect : Verdict(c, e) \notin ledger
    /\ \E e \in Effect : ledger' = ledger \cup {Verdict(c, e)}
    /\ UNCHANGED outcome

Override(r) ==
    /\ \A entry \in ledger : entry.approver # r
    /\ \E c \in Check, e \in Effect :
          /\ Verdict(c, "review") \in ledger
          /\ ledger' = ledger \cup {[check |-> c, effect |-> e, approver |-> r]}
    /\ UNCHANGED outcome

Finish(c, end) ==
    /\ outcome[c] = "pending"
    /\ outcome' = [outcome EXCEPT ![c] = end]
    /\ UNCHANGED ledger

Execute(c) ==
    /\ \E e \in Effect : Executes(e) /\ Verdict(c, e) \in ledger
    /\ Finish(c, "executed")

Park(c) == Verdict(c, "review") \in ledger /\ Finish(c, "parked")

Refuse(c) == Verdict(c, "block") \in ledger /\ Finish(c, "refused")

\* Checks may come to nothing, several at once when a process crashes.
Fail ==
    /\ \E lost \in SUBSET {c \in Check : outcome[c] = "pending"} :
          outcome' = [c \in Check |-> IF c \in lost THEN "failed" ELSE outcome[c]]
    /\ UNCHANGED ledger

Next ==
    \/ \E c \in Check : Decide(c) \/ Execute(c) \/ Park(c) \/ Refuse(c)
    \/ \E r \in Resolution : Override(r)
    \/ Fail

Spec == Init /\ [][Next]_vars

=============================================================================
