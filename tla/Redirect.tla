------------------------------ MODULE Redirect ------------------------------
(***************************************************************************)
(* The way of redirects through link-router (RedirectHandler.Handle): the  *)
(* rate limiter, the lookup of the route in Redis and PostgreSQL and the   *)
(* check of the tenant's quota, with the circuit breaker that all calls to *)
(* Redis but the limiter's and the cursor's share. The module puts         *)
(* together what LinkRouting and QuotaPipeline leave open, where failed    *)
(* calls come from: a key that is missing is an error of GET, and counts   *)
(* as a failure of Redis.                                                  *)
(*                                                                         *)
(* One client asks for one link, or for codes that nobody has. The breaker *)
(* of PostgreSQL is part of the ways in which a lookup finds nothing; what *)
(* the strategies choose is the subject of RouteSelection.                 *)
(***************************************************************************)
EXTENDS Integers, FiniteSets

CONSTANTS
    Requests,       \* the handlers that run at once
    Threshold,      \* failures that open the breaker of Redis
    MaxRequests,    \* requests per window of the rate limiter
    Window          \* its length, in ticks

ASSUME RedirectAssumption ==
    /\ IsFiniteSet(Requests)
    /\ Threshold \in Nat \ {0} /\ MaxRequests \in Nat \ {0} /\ Window \in Nat \ {0}

VARIABLES
    count, left,    \* rl:<ip>: its value, and ticks until it expires
    copy, flag,     \* whether route:<code> and quota:blocked:<tenant> exist
    failures,       \* redisBreaker: the count,
    breaker,        \* and "closed", "open" or "over" (open, timeout passed)
    pc,             \* request -> the call it is at
    known,          \* requests for the code that exists
    pause, verdict, \* history of the client, see below
    cause, trouble, \* history of the breaker, see below
    streak,         \* history: failed calls in a row, capped at Threshold
    peak            \* history: the most requests at once, see Crowded

limiterVars == <<count, left, pause, verdict>>
redisBreaker == <<failures, breaker, cause, trouble, streak>>
breakerVars == <<redisBreaker, peak>>
vars == <<limiterVars, copy, flag, breakerVars, pc, known>>

\* A key without a TTL.
Forever == Window + 1

\* Calls to make through the breaker, and calls under way.
Calls == {"get", "set", "quota"}
Running == {"getting", "setting", "checking"}
Busy == {r \in Requests : pc[r] # "idle"}

TypeOK ==
    /\ count \in 0..MaxRequests + 1 /\ left \in 0..Forever
    /\ copy \in BOOLEAN /\ flag \in BOOLEAN
    /\ failures \in 0..Threshold + Cardinality(Requests)
    /\ breaker \in {"closed", "open", "over"}
    /\ pc \in [Requests -> {"idle", "read", "select"} \cup Calls \cup Running]
    /\ known \subseteq Requests
    /\ pause \in 0..Window /\ verdict \in {"quiet", "allowed", "refused", "unknown"}
    /\ cause \in BOOLEAN /\ trouble \in BOOLEAN /\ streak \in 0..Threshold
    /\ peak \in 0..Cardinality(Requests)
    /\ breaker = "closed" => failures < Threshold
    /\ count = 0 <=> left = 0

Init ==
    /\ count = 0 /\ left = 0 /\ copy = FALSE /\ flag = FALSE
    /\ failures = 0 /\ breaker = "closed"
    /\ pc = [r \in Requests |-> "idle"] /\ known = {}
    /\ pause = Window /\ verdict = "quiet"
    /\ cause = FALSE /\ trouble = FALSE /\ streak = 0 /\ peak = 0

-----------------------------------------------------------------------------
(* Handle and the rate limiter.                                            *)

\* verdict is what the client was last told since it last paused for a whole
\* window; "unknown" once Redis has failed.
Told(v) == verdict' = v /\ pause' = 0

\* INCR done n times, up to the first value that is refused.
Incremented(n) == IF count + n > MaxRequests THEN MaxRequests + 1 ELSE count + n

\* go-redis sends a pipeline that fails again, MaxRetries times by default.
Tries == 1..4

Proceed(r, code) ==
    /\ pc' = [pc EXCEPT ![r] = "get"]
    /\ peak' = IF peak > Cardinality(Busy) THEN peak ELSE Cardinality(Busy) + 1
    /\ known' = IF code = "known" THEN known \cup {r} ELSE known

\* Mutant: the window is not renewed once it has begun.
CountedOnce ==
    /\ count' = Incremented(1)
    /\ left' = IF count = 0 THEN Window ELSE left

\* INCR and EXPIRE, in one pipeline: every request renews the window.
Counted ==
    /\ count' = Incremented(1)
    /\ left' = Window

Allow(r, code) ==
    /\ pc[r] = "idle"
    /\ Counted
    /\ count' <= MaxRequests
    /\ Told("allowed")
    /\ Proceed(r, code)
    /\ UNCHANGED <<copy, flag, redisBreaker>>

Refuse(r) ==
    /\ pc[r] = "idle"
    /\ Counted
    /\ count' > MaxRequests
    /\ Told("refused")
    /\ UNCHANGED <<copy, flag, breakerVars, pc, known>>

\* An answer came only to a later try: INCR was done several times.
Retried(r, code) ==
    /\ pc[r] = "idle"
    /\ \E n \in Tries : count' = Incremented(n)
    /\ left' = Window
    /\ Told("unknown")
    /\ IF count' <= MaxRequests THEN Proceed(r, code) ELSE UNCHANGED <<pc, known, peak>>
    /\ UNCHANGED <<copy, flag, redisBreaker>>

\* Redis fails the pipeline: of each try both commands were done, the first or none.
FailOpen(r, code) ==
    /\ pc[r] = "idle"
    /\ \/ UNCHANGED <<count, left>>
       \/ /\ \E n \in Tries : count' = Incremented(n)
          /\ left' \in {Window, IF count = 0 THEN Forever ELSE left}
    /\ Told("unknown")
    /\ Proceed(r, code)
    /\ UNCHANGED <<copy, flag, redisBreaker>>

-----------------------------------------------------------------------------
(* CircuitBreaker.Call, before and after fn.                               *)

Done(r) == pc' = [pc EXCEPT ![r] = "idle"] /\ known' = known \ {r}
Goto(r, stage) == pc' = [pc EXCEPT ![r] = stage] /\ UNCHANGED known

\* peak starts again when the count of a closed breaker does: at a success, with
\* the requests under way then, and when the breaker closes.
Crowded == peak' = Cardinality(Busy)

\* Mutant: the count goes on from where it was.
BeginKeepsCount ==
    /\ breaker # "open"
    /\ breaker' = "closed"
    /\ UNCHANGED <<failures, cause, trouble, streak, peak>>

Begin ==
    /\ breaker # "open"
    /\ IF breaker = "over"
       THEN failures' = 0 /\ cause' = FALSE /\ trouble' = FALSE /\ Crowded
       ELSE UNCHANGED <<failures, cause, trouble, peak>>
    /\ breaker' = "closed"
    /\ UNCHANGED streak

Rejected == breaker = "open" /\ UNCHANGED breakerVars

Succeeds ==
    /\ failures' = 0 /\ cause' = FALSE /\ streak' = 0
    /\ IF breaker = "closed" THEN Crowded ELSE UNCHANGED peak
    /\ UNCHANGED <<breaker, trouble>>

\* fn returned an error: the key is missing, or (why) Redis did not answer.
\* cause: among the failures counted is one that is not just a missing key.
\* trouble: that was so when the breaker opened.
Fails(why) ==
    /\ failures' = failures + 1
    /\ streak' = IF streak = Threshold THEN Threshold ELSE streak + 1
    /\ cause' = (cause \/ why)
    /\ IF failures' >= Threshold
       THEN breaker' = "open" /\ trouble' = (trouble \/ cause')
       ELSE UNCHANGED <<breaker, trouble>>
    /\ UNCHANGED peak

-----------------------------------------------------------------------------
(* Resolve and getRoute.                                                   *)

Get(r) ==
    /\ pc[r] = "get"
    /\ \/ Begin /\ Goto(r, "getting")
       \/ Rejected /\ Goto(r, "read")
    /\ UNCHANGED <<limiterVars, copy, flag>>

Hit(r) ==
    /\ pc[r] = "getting" /\ r \in known /\ copy
    /\ Succeeds
    /\ Goto(r, "quota")
    /\ UNCHANGED <<limiterVars, copy, flag>>

Miss(r) ==
    /\ pc[r] = "getting" /\ ~(r \in known /\ copy)
    /\ Fails(FALSE)
    /\ Goto(r, "read")
    /\ UNCHANGED <<limiterVars, copy, flag>>

GetFails(r) ==
    /\ pc[r] = "getting"
    /\ Fails(TRUE)
    /\ Goto(r, "read")
    /\ UNCHANGED <<limiterVars, copy, flag>>

ReadRoute(r) ==
    /\ pc[r] = "read" /\ r \in known
    /\ Goto(r, "set")
    /\ UNCHANGED <<limiterVars, copy, flag, breakerVars>>

\* No row, or no answer from PostgreSQL: nothing is set, so the miss stays.
NotFound(r) ==
    /\ pc[r] = "read"
    /\ Done(r)
    /\ cause' = TRUE
    /\ UNCHANGED <<limiterVars, copy, flag, failures, breaker, trouble, streak, peak>>

Set(r) ==
    /\ pc[r] = "set"
    /\ \/ Begin /\ Goto(r, "setting")
       \/ Rejected /\ Goto(r, "quota")
    /\ UNCHANGED <<limiterVars, copy, flag>>

\* Mutant: the call is made past the breaker.
SetPastBreaker(r) ==
    /\ pc[r] = "setting"
    /\ copy' = TRUE
    /\ Goto(r, "quota")
    /\ UNCHANGED <<limiterVars, flag, breakerVars>>

SetSucceeds(r) ==
    /\ pc[r] = "setting"
    /\ copy' = TRUE
    /\ Succeeds
    /\ Goto(r, "quota")
    /\ UNCHANGED <<limiterVars, flag>>

\* Only the answer may have been lost.
SetFails(r) ==
    /\ pc[r] = "setting"
    /\ copy' \in {copy, TRUE}
    /\ Fails(TRUE)
    /\ Goto(r, "quota")
    /\ UNCHANGED <<limiterVars, flag>>

\* Mutant: the flag is read past the breaker.
isOverQuotaPastBreaker(r) ==
    /\ pc[r] = "quota"
    /\ Goto(r, "checking")
    /\ UNCHANGED <<limiterVars, copy, flag, breakerVars>>

isOverQuota(r) ==
    /\ pc[r] = "quota"
    /\ \/ Begin /\ Goto(r, "checking")
       \/ Rejected /\ Goto(r, "select")
    /\ UNCHANGED <<limiterVars, copy, flag>>

\* The fallback URL or 404.
Blocked(r) ==
    /\ pc[r] = "checking" /\ flag
    /\ Succeeds
    /\ Done(r)
    /\ UNCHANGED <<limiterVars, copy, flag>>

NotBlocked(r) ==
    /\ pc[r] = "checking" /\ ~flag
    /\ Fails(FALSE)
    /\ Goto(r, "select")
    /\ UNCHANGED <<limiterVars, copy, flag>>

CheckFails(r) ==
    /\ pc[r] = "checking"
    /\ Fails(TRUE)
    /\ Goto(r, "select")
    /\ UNCHANGED <<limiterVars, copy, flag>>

\* A destination or the fallback URL is chosen, and the click published.
Answer(r) ==
    /\ pc[r] = "select"
    /\ Done(r)
    /\ UNCHANGED <<limiterVars, copy, flag, breakerVars>>

-----------------------------------------------------------------------------
(* Around them: time, Redis, and who else writes to it.                    *)

Tick ==
    /\ left' = IF left \in {0, Forever} THEN left ELSE left - 1
    /\ count' = IF left' = 0 THEN 0 ELSE count
    /\ pause' = IF pause < Window THEN pause + 1 ELSE pause
    /\ verdict' = IF pause' = Window /\ left # Forever THEN "quiet" ELSE verdict
    /\ UNCHANGED <<copy, flag, breakerVars, pc, known>>

TimeoutPasses ==
    /\ breaker = "open"
    /\ breaker' = "over"
    /\ UNCHANGED <<limiterVars, copy, flag, failures, cause, trouble, streak, peak, pc, known>>

\* The copy expires or is deleted; analytics-worker sets the flag, which
\* expires or is cleared by link-admin.
KeysChange ==
    /\ \/ copy /\ copy' = FALSE /\ UNCHANGED flag
       \/ flag' = ~flag /\ UNCHANGED copy
    /\ UNCHANGED <<limiterVars, breakerVars, pc, known>>

\* Redis restarts without its data.
RedisRestarts ==
    /\ count' = 0 /\ left' = 0 /\ copy' = FALSE /\ flag' = FALSE
    /\ verdict' = "unknown"
    /\ UNCHANGED <<pause, breakerVars, pc, known>>

-----------------------------------------------------------------------------

Handle(r) ==
    \/ \E code \in {"known", "none"} : Allow(r, code) \/ Retried(r, code) \/ FailOpen(r, code)
    \/ Refuse(r)

Resolve(r) ==
    \/ Get(r) \/ Hit(r) \/ Miss(r) \/ GetFails(r) \/ ReadRoute(r) \/ NotFound(r)
    \/ Set(r) \/ SetSucceeds(r) \/ SetFails(r)
    \/ isOverQuota(r) \/ Blocked(r) \/ NotBlocked(r) \/ CheckFails(r) \/ Answer(r)

Next ==
    \/ \E r \in Requests : Handle(r) \/ Resolve(r)
    \/ Tick \/ TimeoutPasses \/ KeysChange \/ RedisRestarts

Spec == Init /\ [][Next]_vars

-----------------------------------------------------------------------------
(* Properties. *)

\* A click of a flagged tenant that is let through.
PassesFlag(r) == flag /\ pc[r] \in {"quota", "checking"} /\ pc'[r] = "select"

\* The clicks of a flagged tenant are kept out unless Redis did not answer: the
\* check itself, or among the failures that opened the breaker (isOverQuota, by
\* the comment in Resolve). The failures of a code that nobody has are excused
\* besides. Missing keys, which every cache miss and every tenant below its quota
\* produces, do not count for Redis being unreachable; in the code they do.
FlagHolds == [][\A r \in Requests : PassesFlag(r) => trouble' \/ cause']_vars

\* Missing keys alone let a flagged tenant through only when redirects crowd: since
\* the last call that succeeded, half as many at once as it takes failures. Each
\* fails twice at most before it sets or hits a copy, and whoever comes later hits
\* that copy or sets another; redirects one after the other never add up, however
\* many they are (getRoute, isOverQuota, CircuitBreaker.Call).
OnlyCrowdsPass ==
    [][\A r \in Requests :
          PassesFlag(r) => trouble' \/ cause' \/ 2 * peak' >= Threshold]_vars

\* However the three calls of concurrent redirects interleave, they share what
\* module BreakerContract promises of one: none of them reaches Redis between an
\* opening and the end of its timeout, and the breaker opens only on Threshold
\* answers in a row that were errors to it, of whichever calls (getRoute,
\* isOverQuota, CircuitBreaker.Call). The timeout is one step here.
Contract == INSTANCE BreakerContract WITH
                Callers <- Requests, Timeout <- 1,
                calm <- IF breaker = "open" THEN 0 ELSE 1,
                inside <- {r \in Requests : pc[r] \in Running}
KeepsContract == Contract!Spec

\* A client that was refused is refused until it pauses for a whole window,
\* since refused requests renew the window too; and one that has paused is not
\* refused. Only a failure of Redis changes that (Allow, IncrWithExpiry).
WindowRenewed ==
    [][/\ verdict = "refused" => verdict' # "allowed"
       /\ verdict = "quiet" => verdict' # "refused"]_vars

=============================================================================
