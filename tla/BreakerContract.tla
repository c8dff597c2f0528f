-------------------------- MODULE BreakerContract --------------------------
(***************************************************************************)
(* What a circuit breaker promises the service behind it and its callers,  *)
(* without saying how: no call reaches the service until `Timeout` ticks   *)
(* after the breaker last opened, and it opens only when the last          *)
(* `Threshold` answers of the service were all failures.  The comments of  *)
(* New and Call (breaker/circuit_breaker.go) make these two promises;      *)
(* module CircuitBreaker is shown to keep them.                            *)
(***************************************************************************)
EXTENDS Integers

CONSTANTS Callers, Threshold, Timeout

VARIABLES
    calm,     \* ticks since the breaker last opened, capped at Timeout
    inside,   \* the callers whose call has reached the service
    streak    \* failed answers in a row, capped at Threshold

cvars == <<calm, inside, streak>>

Init ==
    /\ calm = Timeout
    /\ inside = {}
    /\ streak = 0

Enter(c) ==
    /\ c \notin inside
    /\ calm = Timeout
    /\ inside' = inside \cup {c}
    /\ UNCHANGED <<calm, streak>>

Succeed(c) ==
    /\ c \in inside
    /\ inside' = inside \ {c}
    /\ streak' = 0
    /\ UNCHANGED calm

\* The breaker may open (or open again) on the last of Threshold failures.
Fail(c) ==
    /\ c \in inside
    /\ inside' = inside \ {c}
    /\ streak' = IF streak = Threshold THEN Threshold ELSE streak + 1
    /\ calm' = calm \/ (calm' = 0 /\ streak' = Threshold)

Pass ==
    /\ calm < Timeout
    /\ calm' = calm + 1
    /\ UNCHANGED <<inside, streak>>

Next == Pass \/ \E c \in Callers : Enter(c) \/ Succeed(c) \/ Fail(c)

Spec == Init /\ [][Next]_cvars

=============================================================================
