--------------------------- MODULE MCIncarnation ---------------------------
(* Values for the constants of Incarnation, for TLC.                       *)
EXTENDS Incarnation, TLC

CONSTANTS i1, i2

Symmetry == Permutations(Instances)

=============================================================================
