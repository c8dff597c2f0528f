---------------------------- MODULE QuotaPipeline ----------------------------
(***************************************************************************)
(* The monthly click quota of one tenant across the three services:        *)
(* link-router publishes a click event per redirect and blocks the tenant  *)
(* while a flag is set in Redis; the replicas of analytics-worker count    *)
(* the events in quota_usage and set the flag; link-admin changes the      *)
(* tenant's quota and clears the flag.  Each call to PostgreSQL or Redis   *)
(* is an action, so a worker may act on a quota it read before an upgrade. *)
(*                                                                         *)
(* Time is counted in ticks, a month is MonthLength of them.  The flag is  *)
(* the instant Redis drops it at, 0 when there is none.                    *)
(***************************************************************************)
EXTENDS Integers, FiniteSets

CONSTANTS
    Workers,      \* replicas of analytics-worker
    Quotas,       \* quota_clicks_month of the plans (PlanQuotas)
    FreeQuota,    \* freePlanQuotaClicks
    MonthLength,  \* ticks per month
    MaxTime,      \* bound: the last tick
    MaxClicks     \* bound: clicks and redeliveries of a month

ASSUME QuotaAssumption ==
    /\ IsFiniteSet(Workers)
    /\ Quotas \subseteq Nat
    /\ FreeQuota \in Quotas
    /\ MonthLength \in Nat \ {0}
    /\ MaxTime \in Nat
    /\ MaxClicks \in Nat

Times == 0..MaxTime
MonthOf(t) == t \div MonthLength
Months == {MonthOf(t) : t \in Times}
MonthStart(m) == m * MonthLength

VARIABLES
    now,          \* the wall clock
    topic,        \* timestamp -> click events with it, not yet fetched
    used,         \* quota_usage: month -> clicks_used
    quota,        \* tenants.quota_clicks_month
    flag,         \* Redis, quota:blocked:<tenant>: when it expires
    stage,        \* worker -> what it does next with the event it has fetched
    stamp,        \* worker -> that event's timestamp
    subscribing,  \* a Subscribe call has updated the tenant, not yet cleared the flag
    issued,       \* history: month -> events published or delivered again
    waived,       \* history: the month's overrun is known to go unblocked, see below
    had           \* history: the quotas the tenant has had

vars == <<now, topic, used, quota, flag, stage, stamp, subscribing, issued, waived, had>>

TypeOK ==
    /\ now \in Times
    /\ topic \in [Times -> Nat]
    /\ used \in [Months -> Nat]
    /\ quota \in Quotas
    /\ flag \in Nat
    /\ stage \in [Workers -> {"idle", "count", "mark"}]
    /\ stamp \in [Workers -> Times]
    /\ subscribing \in BOOLEAN
    /\ issued \in [Months -> Nat]
    /\ waived \in BOOLEAN
    /\ had \subseteq Quotas

Month == MonthOf(now)
Blocked == now < flag

Init ==
    /\ now = 0
    /\ topic = [t \in Times |-> 0]
    /\ used = [m \in Months |-> 0]
    /\ quota = FreeQuota
    /\ flag = 0
    /\ stage = [w \in Workers |-> "idle"]
    /\ stamp = [w \in Workers |-> 0]
    /\ subscribing = FALSE
    /\ issued = [m \in Months |-> 0]
    /\ waived = FALSE
    /\ had = {FreeQuota}

-----------------------------------------------------------------------------
(* link-router: a redirect, to a destination or to the fallback URL of a      *)
(* blocked tenant, publishes an event.  A blocked tenant without a fallback   *)
(* gets a 404 and no event, but the check fails open: a click may come at any *)
(* time.                                                                      *)

Issue(t) ==
    /\ issued[MonthOf(t)] < MaxClicks
    /\ issued' = [issued EXCEPT ![MonthOf(t)] = @ + 1]
    /\ topic' = [topic EXCEPT ![t] = @ + 1]

Click ==
    /\ Issue(now)
    /\ UNCHANGED <<now, used, quota, flag, stage, stamp, subscribing, waived, had>>

-----------------------------------------------------------------------------
(* analytics-worker: KafkaConsumer.Run and the quota part of Process.  The    *)
(* events come over several partitions, in no order.                          *)

Fetch(w, t) ==
    /\ stage[w] = "idle"
    /\ topic[t] > 0
    /\ topic' = [topic EXCEPT ![t] = @ - 1]
    /\ stage' = [stage EXCEPT ![w] = "count"]
    /\ stamp' = [stamp EXCEPT ![w] = t]
    /\ UNCHANGED <<now, used, quota, flag, subscribing, issued, waived, had>>

Finish(w) ==
    /\ stage' = [stage EXCEPT ![w] = "idle"]
    /\ stamp' = [stamp EXCEPT ![w] = 0]

\* Mutant: only the click that reaches the quota exactly.
HitsQuotaExactly(n) == quota > 0 /\ n = quota

\* Mutant: one click early.
NearQuota(n) == quota > 0 /\ n + 1 >= quota

\* limit > 0 && used >= limit
OverQuota(n) == quota > 0 /\ n >= quota

\* Mutant: the month of the processing.
ProcessingMonth(t) == Month

\* date_trunc('month', event.Timestamp)
UsageMonth(t) == MonthOf(t)

\* IncrQuotaUsage: one statement counts the click and reads the quota.
CountUsage(w) ==
    LET m == UsageMonth(stamp[w]) IN
    /\ stage[w] = "count"
    /\ used' = [used EXCEPT ![m] = @ + 1]
    /\ IF OverQuota(used[m] + 1)
         THEN stage' = [stage EXCEPT ![w] = "mark"] /\ UNCHANGED stamp
         ELSE Finish(w)
    /\ waived' = (waived /\ m # Month)
    /\ UNCHANGED <<now, topic, quota, flag, subscribing, issued, had>>

\* The click is counted, but the answer with the quota is lost: nobody marks.
CountUnanswered(w) ==
    /\ stage[w] = "count"
    /\ used' = [used EXCEPT ![UsageMonth(stamp[w])] = @ + 1]
    /\ waived' = TRUE
    /\ Finish(w)
    /\ UNCHANGED <<now, topic, quota, flag, subscribing, issued, had>>

\* Mutant: a failed count is taken back.
CountTakenBack(w) ==
    /\ stage[w] = "count"
    /\ used' = [used EXCEPT ![MonthOf(stamp[w])] = @ - 1]
    /\ Finish(w)
    /\ UNCHANGED <<now, topic, quota, flag, subscribing, issued, waived, had>>

\* The statement fails; the event is not retried and its click not counted.
CountFails(w) ==
    /\ stage[w] = "count"
    /\ Finish(w)
    /\ UNCHANGED <<now, topic, used, quota, flag, subscribing, issued, waived, had>>

\* Mutant: the days left are rounded down.
FullDaysLeft(t) == MonthStart(MonthOf(t) + 1) - t - 1

\* untilNextMonth
UntilNextMonth(t) == MonthStart(MonthOf(t) + 1) - t

\* MarkOverQuota: SET with a TTL reckoned from the event's timestamp.  An event
\* of an earlier month may replace the flag by one that expires sooner.
MarkOverQuota(w) ==
    /\ stage[w] = "mark"
    /\ flag' = now + UntilNextMonth(stamp[w])
    /\ waived' = (waived \/ MonthOf(stamp[w]) # Month)
    /\ Finish(w)
    /\ UNCHANGED <<now, topic, used, quota, subscribing, issued, had>>

MarkFails(w) ==
    /\ stage[w] = "mark"
    /\ waived' = TRUE
    /\ Finish(w)
    /\ UNCHANGED <<now, topic, used, quota, flag, subscribing, issued, had>>

\* The worker dies.  Offsets are committed once a second: the event is lost when
\* its offset was, and delivered again, to be counted again, when it was not.
Crash(w) ==
    /\ stage[w] # "idle"
    /\ Issue(stamp[w]) \/ UNCHANGED <<topic, issued>>
    /\ waived' = (waived \/ stage[w] = "mark")
    /\ Finish(w)
    /\ UNCHANGED <<now, used, quota, flag, subscribing, had>>

-----------------------------------------------------------------------------
(* link-admin: BillingService. *)

SetQuota(q) ==
    /\ quota' = q
    /\ had' = had \cup {q}
    /\ waived' = TRUE

\* Subscribe, up to UpdateSubscription (Pagar.me has taken the charge).
SubscribeUpdates(q) ==
    /\ ~subscribing
    /\ SetQuota(q)
    /\ subscribing' = TRUE
    /\ UNCHANGED <<now, topic, used, flag, stage, stamp, issued>>

\* Subscribe's Clear.
SubscribeClears ==
    /\ subscribing
    /\ subscribing' = FALSE
    /\ flag' = 0
    /\ waived' = TRUE
    /\ UNCHANGED <<now, topic, used, quota, stage, stamp, issued, had>>

\* Its error is ignored.
SubscribeClearFails ==
    /\ subscribing
    /\ subscribing' = FALSE
    /\ UNCHANGED <<now, topic, used, quota, flag, stage, stamp, issued, waived, had>>

\* HandleChargePaid clears the flag, whatever the usage; the next click sets it again.
ChargePaid ==
    /\ flag' = 0
    /\ waived' = TRUE
    /\ UNCHANGED <<now, topic, used, quota, stage, stamp, subscribing, issued, had>>

\* Cancel and HandleSubscriptionCanceled: revertToFreePlan leaves the flag alone.
RevertToFreePlan ==
    /\ SetQuota(FreeQuota)
    /\ UNCHANGED <<now, topic, used, flag, stage, stamp, subscribing, issued>>

-----------------------------------------------------------------------------
Tick ==
    /\ now < MaxTime
    /\ now' = now + 1
    /\ UNCHANGED <<topic, used, quota, flag, stage, stamp, subscribing, issued, waived, had>>

Work(w) ==
    \/ \E t \in Times : Fetch(w, t)
    \/ CountUsage(w) \/ CountUnanswered(w) \/ CountFails(w)
    \/ MarkOverQuota(w) \/ MarkFails(w)
    \/ Crash(w)

Billing ==
    \/ \E q \in Quotas : SubscribeUpdates(q)
    \/ SubscribeClears \/ SubscribeClearFails
    \/ ChargePaid \/ RevertToFreePlan

Next == Click \/ (\E w \in Workers : Work(w)) \/ Billing \/ Tick

Spec == Init /\ [][Next]_vars

-----------------------------------------------------------------------------
(* Properties. *)

\* A click counts in the month it was made in, however late it is processed:
\* no month holds more usage than it had deliveries of clicks.
CountedInItsMonth == \A m \in Months : used[m] <= issued[m]

\* A month over its quota is blocked, for the rest of the month, once the worker
\* that counted the click has set the flag.  Known exceptions, until the next
\* click of the month is counted: the count's answer was lost or setting the flag
\* failed, the worker died in between, billing changed the quota or cleared the
\* flag, or an event of an earlier month overwrote it.
QuotaEnforced ==
    quota > 0 /\ used[Month] >= quota =>
        \/ Blocked
        \/ waived
        \/ \E w \in Workers : stage[w] = "mark" /\ MonthOf(stamp[w]) = Month

\* The tenant is never flagged, nor about to be, unless some month's usage has
\* reached a quota the tenant has had.
FlagHasCause ==
    (flag # 0 \/ \E w \in Workers : stage[w] = "mark")
        => \E m \in Months, q \in had : used[m] >= q

\* billing_service.go:50, "so an upgrade takes effect immediately instead of
\* waiting for the flag to expire at month's end": the flag is never set on a
\* tenant no month of which has reached the quota it has.  A worker that read the
\* quota before the upgrade sets it after Subscribe has cleared it.
UpgradeTakesEffect ==
    [][flag' # 0 /\ flag' # flag /\ ~subscribing
         => \E m \in Months : used[m] >= quota]_vars

=============================================================================
