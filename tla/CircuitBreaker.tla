--------------------------- MODULE CircuitBreaker ---------------------------
(***************************************************************************)
(* The circuit breaker that link-router puts in front of Redis and         *)
(* PostgreSQL (breaker/circuit_breaker.go).  CircuitBreaker.Call holds the *)
(* mutex twice, once before and once after it runs fn, and runs fn outside *)
(* of it: each critical section is one action, and the calls of several    *)
(* goroutines interleave between the two.                                  *)
(*                                                                         *)
(* Time is the age of openAt, capped at the timeout: Call compares         *)
(* time.Since(openAt) with the timeout and nothing else, so ages beyond    *)
(* the timeout are all alike and no bound on the clock is needed.          *)
(***************************************************************************)
EXTENDS Integers, FiniteSets

CONSTANTS
    Callers,      \* the goroutines that share one breaker
    Threshold,    \* New's first parameter: failures that open the breaker
    Timeout       \* New's second parameter, in ticks

ASSUME BreakerAssumption ==
    /\ IsFiniteSet(Callers)
    /\ Threshold \in Nat \ {0}
    /\ Timeout \in Nat \ {0}

VARIABLES
    failures,     \* cb.failures
    open,         \* ~cb.openAt.IsZero()
    age,          \* ticks since openAt was last set, capped at Timeout
    status,       \* caller -> where it is in Call, or what its last Call returned
    up,           \* whether the service behind fn answers (environment)
    streak        \* history: failed calls in a row, capped at Threshold

vars == <<failures, open, age, status, up, streak>>

\* Inside fn. The code does not tell a call that reset the breaker from others.
InFn == {"running"}
Returned == {"ok", "err", "ErrOpen"}

TypeOK ==
    /\ failures \in Nat
    /\ open \in BOOLEAN
    /\ age \in 0..Timeout
    /\ status \in [Callers -> InFn \cup Returned]
    /\ up \in BOOLEAN
    /\ streak \in 0..Threshold

\* No breaker has opened yet, so its age is past every window.
Init ==
    /\ failures = 0
    /\ open = FALSE
    /\ age = Timeout
    /\ status = [c \in Callers |-> "ok"]
    /\ up = TRUE
    /\ streak = 0

-----------------------------------------------------------------------------
(* The first critical section of Call. *)

Outside(c) == status[c] \in Returned

\* time.Since(cb.openAt) < cb.timeout
WithinWindow == age < Timeout

Admit(c, how) == status' = [status EXCEPT ![c] = how]

\* openAt is zero: run fn.
BeginClosed(c) ==
    /\ Outside(c)
    /\ ~open
    /\ Admit(c, "running")
    /\ UNCHANGED <<failures, open, age, up, streak>>

\* openAt is set and recent: return ErrOpen without running fn.
Reject(c) ==
    /\ Outside(c)
    /\ open /\ WithinWindow
    /\ status' = [status EXCEPT ![c] = "ErrOpen"]
    /\ UNCHANGED <<failures, open, age, up, streak>>

\* Mutant: openAt is not cleared.
HalfOpenKeepsOpenAt(c) ==
    /\ Outside(c)
    /\ open /\ ~WithinWindow
    /\ failures' = 0
    /\ Admit(c, "running")
    /\ UNCHANGED <<open, age, up, streak>>

\* openAt is set and the timeout is over: reset both fields, then run fn.
HalfOpen(c) ==
    /\ Outside(c)
    /\ open /\ ~WithinWindow
    /\ failures' = 0
    /\ open' = FALSE
    /\ Admit(c, "running")
    /\ UNCHANGED <<age, up, streak>>

-----------------------------------------------------------------------------
(* The second critical section of Call, once fn has returned. *)

\* Mutant: off by one.
TripsAbove(n) == n > Threshold

Trips(n) == n >= Threshold

\* fn failed: count it and, at the threshold, (re)start the window.
FnFails(c) ==
    /\ status[c] \in InFn
    /\ ~up
    /\ failures' = failures + 1
    /\ IF Trips(failures')
         THEN open' = TRUE /\ age' = 0
         ELSE UNCHANGED <<open, age>>
    /\ status' = [status EXCEPT ![c] = "err"]
    /\ streak' = IF streak = Threshold THEN Threshold ELSE streak + 1
    /\ UNCHANGED up

\* Mutant: a success leaves the count alone.
SuccessKeepsCount(c) ==
    /\ status[c] \in InFn
    /\ up
    /\ status' = [status EXCEPT ![c] = "ok"]
    /\ streak' = 0
    /\ UNCHANGED <<failures, open, age, up>>

\* fn succeeded: the count restarts, openAt is left as it is.
FnSucceeds(c) ==
    /\ status[c] \in InFn
    /\ up
    /\ failures' = 0
    /\ status' = [status EXCEPT ![c] = "ok"]
    /\ streak' = 0
    /\ UNCHANGED <<open, age, up>>

-----------------------------------------------------------------------------
(* The environment: time passes, the service behind fn goes down and up. *)

Tick ==
    /\ age < Timeout
    /\ age' = age + 1
    /\ UNCHANGED <<failures, open, status, up, streak>>

ServiceChanges ==
    /\ up' = ~up
    /\ UNCHANGED <<failures, open, age, status, streak>>

Call(c) == BeginClosed(c) \/ Reject(c) \/ HalfOpen(c) \/ FnFails(c) \/ FnSucceeds(c)

Next == (\E c \in Callers : Call(c)) \/ Tick \/ ServiceChanges

Spec == Init /\ [][Next]_vars

\* Clocks advance, fn returns (by the timeouts of Redis' client; of PostgreSQL,
\* whose queries carry no deadline, it is assumed), and the traffic goes on: every
\* caller calls again.  Whether the service answers or fails is left open.
Fairness ==
    /\ WF_vars(Tick)
    /\ \A c \in Callers :
         /\ WF_vars(BeginClosed(c) \/ Reject(c) \/ HalfOpen(c))
         /\ WF_vars(FnFails(c) \/ FnSucceeds(c))

FairSpec == Spec /\ Fairness

-----------------------------------------------------------------------------
(* Properties. *)

Running == {c \in Callers : status[c] \in InFn}

Starts(c) == status[c] \notin InFn /\ status'[c] \in InFn

\* openAt is zero exactly while fewer failures than the threshold are counted,
\* whatever calls begun before an opening report after it.
ClosedBelowThreshold == ~open => failures < Threshold

\* A window once opened is kept for all of the timeout.
WindowKept == WithinWindow => open

\* An open breaker counts no more late failures than calls were in flight.
FailuresBounded ==
    failures + Cardinality(Running) < Threshold + Cardinality(Callers)

\* What the count and openAt say of each other, with late successes and late
\* failures of calls begun before an opening: a closed breaker never holds a full
\* count (it would let traffic through to a service that is down), no path clears
\* openAt before the timeout, and the count of an open breaker cannot run away.
CountFitsWindow == ClosedBelowThreshold /\ WindowKept /\ FailuresBounded

\* fn never begins during the back-off window: a failing service is left alone
\* for the whole timeout after the latest opening.
BackOff == [][\A c \in Callers : Starts(c) => age = Timeout]_vars

\* The promises of module BreakerContract: besides the back-off, the breaker
\* opens only on `threshold` consecutive failures (the doc comment of New),
\* whatever the order in which concurrent calls report.
Contract == INSTANCE BreakerContract WITH calm <- age, inside <- Running
KeepsContract == Contract!Spec

\* Once the service stays up, the breaker ends up closed for good: calls still
\* in flight and failures counted before cannot keep it open.
Recovers == (<>[]up) => <>[](~open)

=============================================================================
