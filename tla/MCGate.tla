------------------------------- MODULE MCGate -------------------------------
(* Gate on small instances: the calls are model values and interchangeable. *)
EXTENDS Gate, TLC

Symmetry == Permutations(Check) \cup Permutations(Resolution)

\* An approver who lets the tool run and one who does not.
TwoOverrides == {"allow", "block"}

NoFaults == {}
DiskFaults == {"file"}

=============================================================================
