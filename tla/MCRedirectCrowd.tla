-------------------------- MODULE MCRedirectCrowd ---------------------------
(* Three handlers behind a breaker of link-router's own threshold, for TLC: *)
(* the fewest whose missing keys add up to it.                              *)
EXTENDS Redirect, TLC

CONSTANTS r1, r2, r3

RequestSymmetry == Permutations(Requests)

=============================================================================
