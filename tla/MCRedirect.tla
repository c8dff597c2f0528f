----------------------------- MODULE MCRedirect -----------------------------
(* Two handlers behind a breaker that takes four failures, for TLC;          *)
(* and, beside them, every short route. What a route holds is nothing to the *)
(* steps of Redirect, so they are taken with the empty one only.             *)
EXTENDS Redirect, RouteSelection, TLC

CONSTANTS r1, r2, BR, US

VARIABLE route

RequestSymmetry == Permutations(Requests)

MCInit == Init /\ route \in Routes \cup {<<>>}

MCNext == route = <<>> /\ Next /\ UNCHANGED route

MCSpec == MCInit /\ [][MCNext]_<<vars, route>>

\* Every route is shared fairly among the destinations the filters leave, by
\* weights and by turns (Resolve, SelectWeighted, SelectRoundRobin).
SelectionFair == FairlyShared(route)

=============================================================================
