--------------------------- MODULE MCHybridSync ---------------------------
(* Values for the constants of HybridSync, for TLC.                        *)
EXTENDS HybridSync, TLC

CONSTANTS p1, p2, c1, c2, inform

Symmetry == Permutations(Clusters) \cup Permutations(Policies)

=============================================================================
