----------------------------- MODULE MCSession ------------------------------
(* Two requests of one tab and another tab that signs in and out, for TLC. *)
EXTENDS Session

CONSTANTS t1, t2, r1, r2

MCTabOf == [r \in Requests |-> t1]
=============================================================================
