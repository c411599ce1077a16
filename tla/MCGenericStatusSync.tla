------------------------ MODULE MCGenericStatusSync ------------------------
(* Values for the constants of GenericStatusSync, for TLC.                 *)
EXTENDS GenericStatusSync, TLC

CONSTANTS n1, n2

Symmetry == Permutations(Names)

=============================================================================
