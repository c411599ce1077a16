--------------------------- MODULE BundleVersion ---------------------------
(* BundleVersion of hub-of-hubs-data-types: the incarnation of the process *)
(* that made a bundle, and the bundle's generation in that process.        *)
EXTENDS Naturals

Versions == [incarnation : Nat, generation : Nat]

NewBundleVersion(i, g) == [incarnation |-> i, generation |-> g]

NewerThan(v, w) ==
    \/ v.incarnation > w.incarnation
    \/ v.incarnation = w.incarnation /\ v.generation > w.generation

=============================================================================
