----------------------------- MODULE MCLinkForm -----------------------------
(* Three forms, two links and two saves under way at once, for TLC.        *)
EXTENDS LinkForm, TLC

CONSTANTS s1, s2

SaveSymmetry == Permutations(Saves)

=============================================================================
