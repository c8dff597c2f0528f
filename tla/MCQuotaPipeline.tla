--------------------------- MODULE MCQuotaPipeline ---------------------------
(* Small instances of QuotaPipeline, for TLC. *)
EXTENDS QuotaPipeline, TLC

CONSTANTS w1, w2

\* The replicas are alike.
Symmetry == Permutations(Workers)

=============================================================================
