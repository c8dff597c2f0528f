--------------------------- MODULE ClickProcessor ---------------------------
(***************************************************************************)
(* One analytics worker: Process writes a click event to six sinks one     *)
(* after the other, the health tracker counts the events that failed in    *)
(* every sink, and Kubernetes probes the tracker and restarts the worker.  *)
(*                                                                         *)
(* The third sink is two rows, the hour's and the day's, and the second is *)
(* not written if the first fails. A write may be refused, and it may take *)
(* effect although its answer is lost.                                     *)
(***************************************************************************)
EXTENDS Naturals, Sequences

CONSTANTS
    MaxFailures,    \* maxConsecutiveFailures (10 in the code)
    Misses,         \* failed probes in a row before a restart (3)
    MaxClicks       \* bound: events one run of the model processes

ASSUME ProcessorAssumption ==
    /\ MaxFailures \in Nat \ {0}
    /\ Misses \in Nat \ {0}
    /\ MaxClicks \in Nat

VARIABLES
    at,         \* the write Process is at
    errs,       \* len(errs)
    failures,   \* consecutiveFailures
    misses,     \* probes in a row that were answered 503
    clicks,     \* events begun
    hour, day,  \* total_clicks of the hour's row and of the day's
    wrote,      \* history: what acknowledged a write of this event
    recent      \* history: wrote of the events since the start, latest first

vars == <<at, errs, failures, misses, clicks, hour, day, wrote, recent>>

writeCount == 6

\* The writes in their order; "mark" is MarkOverQuota, "record" the tracker.
After == [cassandra |-> "redis", redis |-> "hour", hour |-> "day",
          day |-> "country", country |-> "device", device |-> "quota"]
Sinks == DOMAIN After
Places == Sinks \cup {"idle", "quota", "mark", "record"}

\* What can acknowledge a write: one of the first five sinks (the aggregate
\* once both rows are written), the quota count, its flag.
Answers == {"sink", "quota", "mark"}

TypeOK ==
    /\ at \in Places
    /\ errs \in 0..writeCount
    /\ failures \in Nat
    /\ misses \in 0..Misses
    /\ clicks \in 0..MaxClicks
    /\ hour \in 0..clicks
    /\ day \in 0..clicks
    /\ wrote \in SUBSET Answers
    /\ recent \in Seq(SUBSET Answers)

Init ==
    /\ at = "idle"
    /\ errs = 0
    /\ failures = 0
    /\ misses = 0
    /\ clicks = 0
    /\ hour = 0 /\ day = 0
    /\ wrote = {}
    /\ recent = << >>

worker == <<failures, misses, clicks, recent>>

-----------------------------------------------------------------------------
(* Process.                                                                *)

Begin ==
    /\ at = "idle"
    /\ clicks < MaxClicks
    /\ clicks' = clicks + 1
    /\ at' = "cassandra"
    /\ errs' = 0
    /\ wrote' = {}
    /\ UNCHANGED <<failures, misses, hour, day, recent>>

\* The write s takes effect.
Apply(s) ==
    /\ hour' = IF s = "hour" THEN hour + 1 ELSE hour
    /\ day' = IF s = "day" THEN day + 1 ELSE day

Acknowledged(s) ==
    /\ at = s
    /\ Apply(s)
    /\ at' = After[s]
    /\ wrote' = IF s = "hour" THEN wrote ELSE wrote \cup {"sink"}
    /\ UNCHANGED <<errs, worker>>

\* Mutant: IncrClickAggregate goes on to the day's row.
AfterAnyError(s) == After[s]

\* Where Process goes on after an error: IncrClickAggregate returns the
\* first one.
AfterError(s) == IF s = "hour" THEN "country" ELSE After[s]

Errs(s) ==
    /\ at = s
    /\ errs' = errs + 1
    /\ at' = AfterError(s)

Refused(s) ==
    /\ Errs(s)
    /\ UNCHANGED <<hour, day, wrote, worker>>

\* The store applied the write, and the worker sees an error.
Unanswered(s) ==
    /\ Errs(s)
    /\ Apply(s)
    /\ UNCHANGED <<wrote, worker>>

\* IncrQuotaUsage answers: the click is within the quota, or it is not.
CountUsage ==
    /\ at = "quota"
    /\ at' \in {"record", "mark"}
    /\ wrote' = wrote \cup {"quota"}
    /\ UNCHANGED <<errs, hour, day, worker>>

CountFails ==
    /\ at = "quota"
    /\ at' = "record"
    /\ errs' = errs + 1
    /\ UNCHANGED <<hour, day, wrote, worker>>

MarkOverQuota ==
    /\ at = "mark"
    /\ at' = "record"
    /\ wrote' = wrote \cup {"mark"}
    /\ UNCHANGED <<errs, hour, day, worker>>

MarkFails ==
    /\ at = "mark"
    /\ at' = "record"
    /\ errs' = errs + 1
    /\ UNCHANGED <<hour, day, wrote, worker>>

\* Mutant: the two rows of the aggregate are taken for two writes.
FailedInEveryRow == errs = writeCount + 1

FailedEverywhere == errs = writeCount

\* The tracker; it locks its mutex once.
RecordFailure ==
    /\ at = "record"
    /\ FailedEverywhere
    /\ failures' = failures + 1

\* Mutant: a success forgives one failure.
RecordSuccessOnce ==
    /\ at = "record"
    /\ ~FailedEverywhere
    /\ failures' = IF failures > 0 THEN failures - 1 ELSE 0

RecordSuccess ==
    /\ at = "record"
    /\ ~FailedEverywhere
    /\ failures' = 0

Record ==
    /\ RecordFailure \/ RecordSuccess
    /\ at' = "idle"
    /\ recent' = <<wrote>> \o recent
    /\ UNCHANGED <<errs, misses, clicks, hour, day, wrote>>

-----------------------------------------------------------------------------
(* The health endpoint and Kubernetes.                                     *)

Healthy == failures < MaxFailures

\* Mutant: the endpoint always answers 200.
AnswersOK == FALSE

Answers503 == ~Healthy

Probe ==
    /\ misses < Misses
    /\ misses' = IF Answers503 THEN misses + 1 ELSE 0
    /\ UNCHANGED <<at, errs, failures, clicks, hour, day, wrote, recent>>

\* A new process: the event in work is lost, the tracker starts from 0.
Start ==
    /\ at' = "idle"
    /\ errs' = 0
    /\ failures' = 0
    /\ misses' = 0
    /\ wrote' = {}
    /\ recent' = << >>
    /\ UNCHANGED <<clicks, hour, day>>

Restart == misses = Misses /\ Start

Crash == Start

Write(s) == Acknowledged(s) \/ Refused(s) \/ Unanswered(s)
Process ==
    \/ \E s \in Sinks : Write(s)
    \/ CountUsage \/ CountFails \/ MarkOverQuota \/ MarkFails
    \/ Record

Next == Begin \/ Process \/ Probe \/ Restart \/ Crash

Spec == Init /\ [][Next]_vars

(***************************************************************************)
(* Writes end, which is assumed of the stores: those of PostgreSQL carry   *)
(* no deadline. Kubernetes goes on probing and restarts what fails. Neither*)
(* new clicks nor crashes have to come.                                    *)
(***************************************************************************)
FairSpec == Spec /\ WF_vars(Process) /\ WF_vars(Probe) /\ WF_vars(Restart)

-----------------------------------------------------------------------------
(* Properties.                                                             *)

\* The day's total never runs ahead of its hours' (pg_writer.go,
\* IncrClickAggregate writes the hour first and stops at an error): whatever
\* fails or is answered too late, a report by hour accounts for every click
\* of the report by day.
DayWithinHours == day <= hour

\* When every sink has refused the last MaxFailures events the worker is
\* unhealthy, whatever it did before (tracker.go: "every sink failing
\* repeatedly in a row means the worker is stuck").
OutageNoticed ==
    /\ Len(recent) >= MaxFailures
    /\ \A i \in 1..MaxFailures : recent[i] = {}
    => ~Healthy

\* The worker is unhealthy only if none of the last MaxFailures events was
\* acknowledged by one of the first five sinks (click_processor.go: "every sink
\* failed (systemic outage) apart from a single flaky write"). The sixth is
\* excepted: if the quota is counted and its flag fails, that is an error too.
UnhealthyOnlyInOutage ==
    ~Healthy => /\ Len(recent) >= MaxFailures
                /\ \A i \in 1..MaxFailures : recent[i] \subseteq {"quota"}

\* An unhealthy worker writes something again or is restarted.
StuckWorkerRecycled == ~Healthy ~> Healthy
=============================================================================
