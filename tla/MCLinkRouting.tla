---------------------------- MODULE MCLinkRouting ----------------------------
(* A link with one destination, reached under its own code and under another *)
(* tenant's domain, for TLC.                                                 *)
EXTENDS LinkRouting, TLC

CONSTANTS d1, r1, r2, m1, code, foreignCode

=============================================================================
