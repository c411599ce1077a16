-------------------------- MODULE MCLocalPolicies --------------------------
(* Values for the constants of LocalPolicies, for TLC.                     *)
EXTENDS LocalPolicies, TLC

CONSTANTS p1, p2, c1

\* A cluster that is compliant, and one that is not.
MCStatusValues == {s \in Statuses : s["compliant"] = {c1} \/ s["nonCompliant"] = {c1}}

Symmetry == Permutations(Policies)

=============================================================================
