# WS-Minoro: TLA+ models and proofs

WS-Minoro is a multi-tenant link router: short links redirect to one of several
destinations, clicks are counted, limits and monthly quotas are enforced, and
tenants pay for plans. This directory holds TLA+ models of the parts of it where
order, failure and time decide whether it is right, the TLC configurations that
check them, and TLAPS proofs of the most important properties.

    tlasany M.tla                                   parse
    tlc -workers 2 -config LinkRouting.cfg MCLinkRouting
    tlapm LinkRoutingProofs.tla                     check the proofs

`PROJECT.json` lists every component, run, finding, hazard, theorem and, per
definition, the source lines it models.

## 1. The system

Paths are relative to the repository root; `LR` is
`services/link-router/internal`, `AW` `services/analytics-worker/internal`, `LA`
`services/link-admin/internal`.

| Component | State | Operations | Talks to |
|---|---|---|---|
| Circuit breaker, `LR/breaker` | failures, openAt, mutex | `Call` | wraps every Redis and PostgreSQL call of a resolver (one breaker for each, shared by all requests) |
| Resolver and click tracker, `LR/resolver` | none of its own; a goroutine per redirect | `Resolve`, `getRoute`, `trackClick` | Redis (route copies, quota flag, round-robin cursor), PostgreSQL (rows) |
| Invite health monitor, `LR/health` | a list per pass | `run` every tick, in each replica | PostgreSQL, Redis |
| Route selection, `LR/router`, `geo`, `risk` | Redis cursor per link | filters, weighted, round robin | resolver |
| Rate limiter, `LR/ratelimit` | Redis counter per address | `Allow` | redirect handler |
| Click publisher, `LR/event/kafka_publisher.go` | channel of 10000, goroutine | `Publish`, `processEvents`, `Close` | Kafka, shutdown in `main.go` |
| Consumer and processor, `AW/consumer` | Kafka offsets | `Run`, `Process` (six sinks) | Kafka, Cassandra, Redis, PostgreSQL |
| Worker health, `AW/health` | consecutive failures | `RecordFailure`, `RecordSuccess`, `Healthy` | Kubernetes probe |
| Quota, `AW/writer`, `AW/quota`, `LA/quota` | `quota_usage`, Redis flag | `IncrQuotaUsage`, `MarkOverQuota`, `Clear` | worker, link-admin, resolver |
| Billing, `LA/service/billing_service.go` | plan, quota, customer and subscription ids; Pagar.me's subscriptions | `Subscribe`, `Cancel`, two webhooks | Pagar.me, PostgreSQL, Redis |
| Link administration, `LA/service/link_service.go` | links, destinations | CRUD | PostgreSQL only: the cached routes are never invalidated |
| Sessions, `LA/service/auth_service.go`, `frontend/src/lib/api.ts` | users, two cookies, one shared refresh promise | login, refresh, logout, retry on 401 | PostgreSQL, browser |
| Forms, `frontend/src/components/links`, checkout | drafts, pending mutations | submit, edit | link-admin |

**What is hard here.** Nothing coordinates the three services but rows, keys and
Kafka events: every handler is a sequence of calls to stores shared with other
goroutines, replicas and services, and most errors are logged and dropped.

- *Breaker.* Calls begun before an opening report after it. Correct when it opens
  only on consecutive failures, keeps its back-off window, and closes again.
- *Resolver, tracker, monitor, edits.* A request may fill the cache from a row
  read before it was disabled; trackers, monitors of several replicas and edits
  change the same row; a lost answer leaves a step undone. Correct when
  `max_clicks` is enforced and a copy lists a dead destination only for a known
  reason and a bounded time.
- *Quota.* Events come late, out of order, twice or never; the worker holds a
  quota that an upgrade has changed. Correct when each month's clicks count in
  that month, a tenant over quota is blocked until the month ends, and nobody is
  blocked without cause.
- *Billing.* Charge, database and flag are updated one after the other;
  webhooks are delayed and repeated. Correct when the plan matches the
  subscriptions that are charged for.
- *Publisher.* A bounded channel, closed at shutdown while handlers may run.
- *Processor.* Partial failure of six sinks, a probe that restarts the worker.
- *Sessions.* Several requests fail with 401 at once and share one refresh, in tabs
  that share their cookies; a refresh may overlap a logout or a deactivation.
  Correct when no order of answers costs a session, and an ended one stays ended.
- *Limiter, breaker and quota together.* A missing key is an error of Redis' GET and
  counts as a failure of Redis. Correct when that alone never opens the breaker,
  past which the quota is not checked; it does once redirects crowd, and what can be
  shown is how many it takes.
- *Forms.* A save is several requests, any of which may fail, in a form that may be
  gone when they end. Correct when what is in the database is what some form
  held, and a form loses what was typed into it only by its own save.

`PROJECT.json` "hazards" lists these at the line where they bite.

## 2. Plan

Each component module declares its parameters as CONSTANTS with a named ASSUME,
has one action per operation (per call to a shared store where calls interleave)
and no RECURSIVE operator, so that it can be checked and proved about alike.
`MC…` modules instantiate it for TLC, `…Proofs` modules extend it for TLAPS.

| Order | Module | State |
|---|---|---|
| 1 | `CircuitBreaker`, refining `BreakerContract` | done, safety and refinement proved |
| 2 | `LinkRouting`: resolver, tracker, monitor, edits | done, safety proved |
| 3 | `QuotaPipeline`: worker, quota, billing's side of the flag | done, safety proved |
| 4 | `ClickPublisher`: handlers, channel, writer, shutdown | done, safety proved |
| 5 | `ClickProcessor`: six sinks, tracker, probe | done, safety proved |
| 6 | `ClickConsumer`: offsets of the consumer group | done, safety proved |
| 7 | `Billing`: the tenant's plan and Pagar.me's subscriptions | done, safety proved |
| 8 | `Session`: cookies, refresh, logout, deactivation | done, safety proved |
| 9 | `RouteSelection`: filters, weighted choice, round robin | done, proved for every route |
| 10 | `Redirect`: limiter, breaker of Redis and quota check of a redirect, refining `BreakerContract` | done, safety and refinement proved |
| 11 | `LinkForm`: a form that saves a link and its destinations | done, safety proved |

Worth adding: the destination list and the checkout as forms beside `LinkForm`,
and API keys beside `Session`.

## 3. The modules

### CircuitBreaker and BreakerContract

`Call` locks the mutex twice, before and after `fn`; each critical section is one
action: `BeginClosed`, `Reject` and `HalfOpen` for the first, `FnFails` and
`FnSucceeds` for the second. Between the two the caller is inside `fn`, and calls
of other goroutines interleave. `age` is `time.Since(openAt)` capped at the
timeout, because the code compares it with nothing else; no clock needs a bound.
`streak` is a history variable the contract uses, `up` the service behind `fn`.

`BreakerContract` is the promise without the mechanism: no call begins until
`Timeout` ticks after the latest opening, and the breaker opens only when the last
`Threshold` answers were failures. `CircuitBreaker` implements it with
`calm <- age`, `inside <- Running`. The comment at `circuit_breaker.go:36` speaks of
letting one request through; `HalfOpen` clears `openAt` as the code does, so every
later call begins too, and only a new full streak closes the door again.

### LinkRouting

One short link: its row and its destinations' rows in PostgreSQL, the copies of
its route in Redis by cache key, the requests with the click trackers they leave
behind, the monitor of each replica, and link-admin's edits.

| Action | Code |
|---|---|
| `CacheHit`, `CacheMiss` | the Redis lookup of `getRoute` |
| `ReadRoute`, `ReadRouteTenantUnknown`, `NotFound` | the PostgreSQL lookup |
| `FillCache`, `FillFails` | `Set` |
| `Redirect`, `Decline` | the outcome of `Resolve` |
| `CountClick`, `CountUnanswered`, `CountFails` | `IncrDestinationClicks` |
| `DisableDestination`, `DisableUnanswered`, `DisableFails` | `DisableDestination` |
| `DropCopy`, `DropFails` | `Delete` of the default key |
| `ListExpired`, `Reactivate…`, `MonitorDrop…` | `InviteHealthMonitor.run` |
| `CreateDestination` … `DeleteLink` | `LinkRepository` |
| `StartCooldown`, `CooldownEnds`, `Expire` | outside: operator, clock, Redis |

A call that fails is one alternative, whether the store refused it or the breaker
did; an UPDATE that took effect but whose answer was lost is another. A request
whose host is a custom domain has a key of its own; `ForeignKeys` are the hosts of
other tenants. Which destination of a route is chosen is left open. The history
variables `waived` and `excused` name the exceptions under which `CapHolds` and
`DefaultCopyFresh` do not hold, and end them as soon as the next count, or the
next copy, ends them: the properties fail as soon as any other path leads there. A failed tenant lookup
is taken for an unknown domain (`link_resolver.go:222`), so the link can be served
and cached under the host of another tenant; `ForeignCopiesEnd` says that this lasts
only as long as such lookups go on failing.

### QuotaPipeline

One tenant's quota over the three services: clicks published with a timestamp,
workers that count them in `quota_usage` and set the Redis flag, billing that
changes the quota and clears the flag. `Fetch`, `CountUsage…`, `CountFails`,
`MarkOverQuota`, `MarkFails` and `Crash` are the worker, `SubscribeUpdates`,
`SubscribeClears`, `SubscribeClearFails`, `ChargePaid` and `RevertToFreePlan`
billing. The flag is the instant it expires. `waived` again names the exceptions.
`IncrQuotaUsage` is one statement and one action; the snapshot it reads the quota
from is taken to be the instant it counts.

### ClickPublisher

One link-router process: handlers in fiber's pooled contexts, the channel, the
goroutine `processEvents`, the batches of kafka-go's asynchronous writer, `main`.

| Action | Code |
|---|---|
| `Begin`, `Resolved`, `Refused` | fiber and `RedirectHandler.Handle` up to `Publish` |
| `Publish`, `Drop`, `PublishPanics` | the outcomes of the `select` in `Publish` |
| `Receive`, `Write`, `WriteFails`, `ProcessEventsReturns` | `processEvents` |
| `BatchEnds` | kafka-go (external) |
| `Signal`, `ShutdownReturns`, `ShutdownTimesOut`, `Drained`, `Exit`, `Kill` | `main`, `Close`, Kubernetes |

`c.Get` returns a view of the request's buffers, so an event holds the context its
country is read from, and `Marshalled` reads it when the event is written.

### ClickProcessor

One worker. `at` is the write `Process` is at; `Acknowledged`, `Refused` and
`Unanswered` are the outcomes of each of the first five sinks (`hour` and `day` are
the two rows of one sink), `CountUsage` to `MarkFails` those of the sixth.
`RecordFailure` and `RecordSuccess` are the tracker, `Probe` and `Restart`
Kubernetes with the health endpoint, `Crash` anything else. `wrote` and `recent` are
history: what acknowledged a write of this event and of those before.

### ClickConsumer

The workers of one group on one partition. `BeginProcess`, `Skip` and `Finish` are the loop
of `Run`; `ReadMessage` queues the commit of a message when it returns it, so the
commit may go out (`Commit`) before the message is processed. `Stop`, `WorkerDies` and
`Rebalance` end a worker's hold of the partition: with the commit that `Close`
makes, without it, or while the worker is in `Process` with a commit that is then
made, refused or late. The reader and the group are external, modelled as
kafka-go's `Reader` with a commit interval is used here. `dropped` and `setbacks`
are history.

### Billing

One tenant's row, the subscriptions at Pagar.me, the handlers of link-admin.

| Action | Code |
|---|---|
| `CreateSubscription`, `CreateUnanswered` | the charge in `Subscribe` |
| `RecordSubscription`, `RecordUnanswered`, `RecordFails` | `UpdateSubscription` |
| `SetPagarmeCustomerID`, `SetCustomerFails` | the last, unchecked, UPDATE |
| `Cancel`, `CancelSubscription`, `CancelUnanswered`, `CancelRefused` | `Cancel` |
| `Revert`, `RevertFails` | `revertToFreePlan`, of `Cancel` and of the webhook |
| `NoticeAccepted`, `NoticeUnknown`, `NoticeFails` | `Webhook` for `subscription.canceled` |
| `CancelElsewhere`, `Redeliver` | Pagar.me (external) |

A webhook names a customer, never a subscription; the model keeps which
subscription a notice is about so that properties can tell. `orphans`, `unknown` and
`excused` are history and name every way in which the code lets a charge or a
plan go; a path that is not one of them violates a property. The effect of a
plan change on the quota and its flag is in `QuotaPipeline`.

A late notice of an old subscription, or a `Cancel` that overlaps a `Subscribe`, reverts
the tenant to the free plan though its newer subscription goes on being charged
(`billing_service.go:142`, `:164`); `ChargesAccounted` counts that subscription among
the orphans.

### Session

One user, the cookie jar of one browser, its tabs, and an API client outside it.

| Action | Code |
|---|---|
| `Send`, `Accept`, `Refuse`, `Resend`, `RequestFails` | `api` and `AuthMiddleware.Authenticate` |
| `AwaitRefresh`, `RefreshSucceeds`, `RefreshFails`, `RefreshLost`, `GivesUp`, `ThrownOut` | the interceptor of `lib/api.ts` and its `refreshPromise` |
| `Refreshed` (`RefreshGranted`, `RefreshMissing`, `RefreshCleared`) | `AuthHandler.Refresh`, `RefreshSession` |
| `Submit`, `Registered`, `LoggedIn`, `SubmitFails`, `SessionStarts` | the login page, `Register`, `Login`, the cookies of the answer |
| `SignOut`, `SignOutLost` | `handleLogout`, `Logout` |
| `ClientLogsIn`, `ClientCalls`, `ClientGoesOn` | bearer tokens |
| `Deactivate`, `Reactivate`, `OpenApp`, `Tick` | outside: operator, user, clock |

Both tokens of a pair are issued, set and cleared together, so a pair is its age;
an expired one is no pair. The server's step and the arrival of its answer, which
sets or clears the jar, are two actions: in between other tabs act. `racing` and
`cause` are history: the refreshes that were under way during a logout, and everything
the properties accept as the end of a session (a deactivation, a failed database, a
lost call, a token that expires on its way, a logout). The code lets a
refresh that overlaps a logout set the cookies again; `SignedOutStaysOut` is about
the jar after an answered logout and excepts that refresh alone, by ending
`signedOut` only for those in `racing`.

### RouteSelection and Redirect

`RouteSelection` has the filters of `Resolve` and the two strategies as functions: of a
route, a visitor's country, a draw of `rand.Intn`, a turn of the cursor in Redis. The
loops over a route are recursive functions of a position: `Only` for the filters, which
append what they keep, `Cumulative` for the running totals. `FairlyShared` compares them
with a reference that looks at one destination at a time. A destination is risky from
`maxRiskScore` on, as in `IsRisky` and its test; the comment at `risk_scorer.go:7` says
"exceeds". `MCRedirect` puts every route within the bounds beside the states of
`Redirect` as a variable, which no step reads or changes.

`Redirect` follows redirects through `Handle`, `getRoute` and `isOverQuota` call by
call. `Get`, `Set` and `isOverQuota` begin a call of the breaker or are rejected; `Hit`,
`Miss`, `GetFails`, `SetSucceeds`, `SetFails`, `Blocked`, `NotBlocked` and `CheckFails`
are its outcomes. `Allow`, `Refuse`, `Retried` and `FailOpen` are the limiter, whose
pipeline may fail after one of its commands and is then sent again by go-redis, so that
one request counts up to four times. `Tick`, `TimeoutPasses`, `KeysChange` and
`RedisRestarts` are outside. The breaker is the one of `CircuitBreaker` with its window
as one step. Histories: `verdict` is what the client was told since it last paused,
`cause` and `trouble` whether the failures counted, and those that opened the breaker,
include one that is more than a missing key; `peak` is the most requests there were at
once since the last call of a closed breaker that succeeded, or since it closed.
`streak` is the failures in a row that `BreakerContract` counts: `Redirect` implements
it too, with `inside` the requests in one of the three calls and `calm` 0 while the
breaker is open, 1 otherwise. So what `CircuitBreaker` shows of one breaker and any `fn`
is not lost where different calls, some of which fail on a missing key, share one.

The comment at `link_resolver.go:81` has the quota check fail open "if Redis is
unreachable"; the code is wider. A missing key is an error of `RedisCache.Get`, and the
breaker counts errors. Unknown codes, which miss and then find no row, are failures in a
row, and five of them skip the check for ten seconds with Redis up; that is one request
after the other, and the properties excuse it (`NotFound` sets `cause`). With known
codes alone, redirects one after the other are safe: a miss is followed by a `Set` that
clears the count, and a tenant without a flag adds one failure after it. Concurrent ones
are not: two that check a missing quota key and three that miss the copy that has just
expired are the five failures of link-router's threshold, and so are five warm redirects
of tenants without a flag. `FlagHolds` states what the comment says, and the run
`redirect_crowd` finds that order of events. What does hold is `OnlyCrowdsPass`: without
another cause a flagged tenant gets through only if at some moment since the last
success at least half as many redirects as the threshold were under way. Each request
fails at most twice, at its `Get` and at its check, before a success of its own clears
the count.

### LinkForm

The links page, one form at a time, and `handleSubmit` request by request:
`HandleSubmit`, `CreateLink` / `CreateUnanswered` / `CreateFails`, `AddDestination` /
`AddUnanswered` / `AddFails`, `GetLink`, `UpdateFails`, `Finish`. `NewLink`, `Edit`,
`EditRows`, `Cancel`, `LoadLinks` and `DeleteLink` are the user and the page. A
destination is the number of its row. A failed save leaves its link with the rows
inserted so far, and submitting again creates another link, with the form's rows
as they are then; no step of the code cleans the first one up. `LinksWhole` says
that each of them is a prefix of what was to be saved and that only one was saved.
Cancelling does not stop the requests, and `onClose` at their end closes whatever form
the page shows by then: `FormKept` allows that after an abandoned save and no other way.

## 4. Runs, bounds and fairness

A passing run for each component, with its properties (the two of analytics-worker share
one), and three for statements of the repository that the code does not keep. The type
invariants of `CircuitBreaker`, `ClickPublisher`, `ClickProcessor`, `ClickConsumer` and
`Billing`, and `BackOff`, which the contract of the breaker implies, are theorems
(section 5) and left out of the runs.

| Run | Shows | Bounds |
|---|---|---|
| `breaker` | count and window fit each other, the refinement of the contract, `Recovers` | 3 goroutines, threshold 3, timeout 2: a full streak can be split over goroutines, and one call can span an opening and a reset |
| `routing` | click limit, freshness of the default copy, copies end, those under other tenants' hosts too, cooldowns release | 1 destination, 2 requests, 1 monitor, the default key and a foreign one, limit 1, clicks counted to 2: past the limit. The clicks and copies of one destination do not depend on another's |
| `quota` | counting by month, enforcement, cause of the flag | 2 workers, quotas 2 and 3, 2 months of 2 ticks, 4 deliveries a month: over both quotas, twice, with events from the month before |
| `quota_upgrade` | *violated*: an upgrade takes effect at once | quotas 1 and 2, 3 deliveries |
| `publisher` | nothing is left at exit, panics only after a timeout, redirects never wait, shutdowns end | 2 contexts, 2 visitors, capacity 1: the channel full, a context reused while its event waits |
| `publisher_country` | *violated*: a click's country is its request's | same |
| `analytics_worker` | day within hours, an outage noticed and nothing else, recovery; bounds on loss and rereading, the backlog drains | processor: 2 failures and 2 probes for an outage, 4 clicks: two outages, or one broken off. Group: 2 workers, 3 messages, the second of which does not decode, 3 interruptions: two late commits in a row. They share no state, so each takes its steps while the other has not begun |
| `billing` | charges and plans accounted for, plans end | 2 requests, 1 webhook handler, 2 subscriptions, 2 users, 1 plan: a second Subscribe during the first or during a Cancel |
| `session` | concurrent 401s cost no session, a logout lasts, a deactivated user is out, requests settle | 2 tabs, 2 requests in one of them, lifetimes 1 and 2: a shared refresh next to one of the other tab, tokens that expire on their way |
| `redirect` | a flagged tenant gets through in a crowd only, the shared breaker keeps the contract, refused clients stay refused, selection is fair | 2 handlers at threshold 4, the largest at which two redirects are a crowd, so that both sides of `OnlyCrowdsPass` occur; 2 requests in a window of 2; all routes of up to 3 destinations with weights up to 2 and 2 countries. No deadlock detection: a route alone takes no steps; in `Redirect` the keys can always change |
| `redirect_crowd` | *violated*: the quota check fails open only if Redis is unreachable | 3 handlers, the fewest that reach the code's threshold of 5 |
| `linkform` | links are whole, forms are kept | 3 forms, 2 saves at once, 2 links, 2 rows: a save closes a form that is being saved, and its end closes a third; a second attempt beside the remains of the first |

Bounds stand only where the code counts without limit (clicks, time, messages,
interruptions, subscriptions, forms). `publisher` too is checked without deadlock
detection, since a process may end; the group, which stops when messages and
interruptions run out, has a step for that (`GroupStops` of `MCAnalyticsWorker`). Every
property of a passing run has a mutant in `PROJECT.json`: an operator beside the one it
replaces, marked `Mutant`, with a plausible bug that the run must find.

**Fairness**, one `FairSpec` per component, nothing stronger than the code and its
stores give. That a call ends is the code's own doing where it sets a deadline
(`trackClick`, the writer of `processEvents`) or its client does (Redis); the queries
of a redirect, of a monitor and of analytics-worker to PostgreSQL carry none, and that
they end, with a result or an error, is an assumption about the environment:

- breaker: time passes, `fn` returns, traffic goes on;
  nothing is assumed of the service, `Recovers` speaks of when it stays up.
- routing: calls end, Redis expires keys and monitors tick (weak); PostgreSQL does not
  refuse one destination's reactivation for ever (strong, since a monitor lists it
  again and again). No request has to come and no edit has to be made.
- publisher: handlers' calls end (assumed of PostgreSQL), `processEvents` and batches
  do by their deadlines, `main` goes on; which handler finds room is not fair, and no signal has to come.
- processor: writes end (assumed of the stores), Kubernetes probes and restarts.
- consumer: the loop of `Run`, and with it that `Process` ends (assumed likewise). Commits, rebalances and messages need not happen.
- billing: Pagar.me delivers each notice in the end (strong: with one handler the
  delivery is enabled again and again), and a webhook's UPDATE ends (weak). Nothing is assumed of
  `Subscribe` and `Cancel`, whose HTTP client has no deadline.
- session: each request and each refresh is answered or lost, and the interceptor goes
  on with it (weak); no user has to act, and no call has to succeed.
- redirect and linkform are checked for safety only.

**Findings.** The violated runs show where the code does something other than its
comments say; `PROJECT.json` "findings" quotes them:

- a worker can block a tenant again right after its upgrade;
- a click can be stored under the country of a later request;
- concurrent redirects of known codes open the breaker of Redis by missing keys alone,
  and flagged tenants are served though Redis is up.

**Other exceptions the models name.** No run is devoted to them, but they are why
some properties carry an exception. Such a property says that no other path leads to
the fault; it does not see the excepted fault itself, however often that occurs.
`FormKept` excepts every form after an abandoned one for good, `ChargesAccounted` and
`PaidPlanBacked` every loss that is among `orphans`, `unknown` and `excused`, and
`CapHolds` and `DefaultCopyFresh` what is waived until the next count or copy.

- after its timeout the breaker lets all calls through (`circuit_breaker.go:36`);
- a failed tenant lookup serves and caches a link under another tenant's host
  (`link_resolver.go:222`);
- unknown codes, one after the other, open the breaker of Redis too, past which flagged
  tenants are served (`link_resolver.go:176`);
- a late cancellation webhook, or a Cancel that overlaps a Subscribe, ends the plan of
  a newer subscription (`billing_service.go:142`, `:164`);
- a refresh that overlaps a logout signs the browser in again (`api.ts:23`);
- the end of an abandoned save closes the form that is shown (`page.tsx:24`);
- a monitor reactivates a destination from a list read before an edit or a new
  cooldown (`pg_store.go:180`), so a limit can be exceeded until the next count;
- the monitor deletes the default copy and leaves those of custom domains until
  they expire (`invite_health_monitor.go:68`);
- a flag set by a late event lasts into the next month (`tracker.go:37`);
- an event whose five sinks failed and whose quota was counted is six errors too,
  if the flag could not be set: `UnhealthyOnlyInOutage` excepts the sixth sink;
- a card is charged and nothing upgraded if the answer is lost or the UPDATE fails
  (`billing_service.go:103`, `:113`);
- a cancellation that arrives before the customer id is stored finds no tenant, is
  answered 200 and never repeated (`billing_handler.go:125`).

## 5. Proofs

All theorems hold for every value of the constants that satisfies the module's
ASSUME. Each `…Proofs` module has an inductive invariant for each component it is
about, one lemma or step per action, and one short theorem for each property that
follows from it. All invariants and action properties of the passing runs and both
refinements are proved, and so are the type invariants the runs leave out.

Two proof modules extend both component modules of one program. The names that
`LinkForm` would share with `Session`, and `ClickConsumer` with `ClickProcessor`, carry a
prefix (`FormInit`, `GroupInit`) or another word (`HandleSubmit`, `WorkerDies`).

- `CircuitBreakerProofs`. `TypeCorrect`, `Closed`, `Window`, `BacksOff`, `Bounded`,
  `CountFits` (`CountFitsWindow`), `Implements` (the refinement). `ClosedBelowThreshold` and `WindowKept` are
  inductive with the typing; the bound on the counter needs the cardinality of the
  callers inside `fn` and that the counter never exceeds the streak, which is also
  what the refinement's opening step needs.
- `LinkRoutingProofs`. `TypeCorrect`, `ClickLimit` (`CapHolds`), `DefaultFresh`
  (`DefaultCopyFresh`). `RInv` adds one fact: a tracker always holds a destination
  of the link. Two frame lemmas say which steps can disturb each property, so each
  action only shows that it is one of them.
- `QuotaPipelineProofs`. `TypeCorrect`, `Cause` (`FlagHasCause`), `Enforced`
  (`QuotaEnforced`), `InItsMonth` (`CountedInItsMonth`). `QInv` adds that no event is
  from the future (so a new month starts unused), that the tenant's quota is one it
  has had, and that the flag of an overrun lasts until the month ends; lemmas about
  division place ticks in months. `CountedInItsMonth` bounds a month's usage by its
  deliveries, less those waiting at the month's ticks and in workers' hands. That is a
  sum over workers and ticks, so the invariant counts sets instead: the places where
  a click of the month is still to be counted, and their cardinality, which one
  delivery moves by one. This is why `QuotaAssumption` has finitely many workers.
- `ClickPublisherProofs`. `TypeCorrect`, `Drains` (`DrainedAtExit`),
  `PanicsOnlyAfterTimeout`. `PInv` adds how far `main` must be for the channel to be
  closed and drained (`Stopping`), that a closed channel has no handlers left
  unless the shutdown gave up (`NoneLeft`), and that events point into contexts
  that have served somebody, which `TypeOK` needs of what they are marshalled to.
- `AnalyticsWorkerProofs`. Of `ClickProcessor`: `TypeCorrect`, `DayWithin`
  (`DayWithinHours`), `Noticed` (`OutageNoticed`), `OnlyInOutage`
  (`UnhealthyOnlyInOutage`). `CInv` relates the number of errors to the sinks tried so
  far, the two rows to where `Process` is, and the tracker's counter to the events
  that surely failed (below) and that may have failed (above). Of `ClickConsumer`:
  `GroupTypeCorrect`, `LosesOnlyInHand` (`LossBounded`),
  `RereadsOnlyAfterSetback` (`RereadBounded`). `GInv` adds that everything
  committed, queued or passed has been reached by somebody, and that an offset
  ahead of the owner, or of the group's offset and the owner's queued commit, was
  read at most once for every setback.
- `BillingProofs`. `TypeCorrect`, `ChargesKnown` (`ChargesAccounted`), `PlanBacked`
  (`PaidPlanBacked`). `BInv` adds that what was sold has a plan and that a handler
  at work holds a subscription that was sold, one that reverts a canceled one.
  Three lemmas type the three kinds of change, one frame lemma for each property
  says what a step must keep.
- `FrontendProofs`. Of `Session`: `TypeCorrect`, `StaysOut` (`SignedOutStaysOut`),
  `NothingLost` (`SessionKept`), `DeactivationEnds` (`DeactivatedIsOut`). The
  invariants add that whoever awaits a refresh has one under way, which pairs on
  their way may still reach the jar after a logout, and that every token of a
  deactivated user is at least as old as his deactivation, on whatever side of a
  call it is. Of `LinkForm`: `FormTypeCorrect` (`FormTypeOK`), `LinksAreWhole` (`LinksWhole`),
  `FormIsKept` (`FormKept`). `FormInv` adds whose save a link is of: a save holds
  as many rows of its own link as it has inserted, no two saves are of one form,
  and a link that is done belongs to a form that has no save and takes no other.
- `RedirectProofs`. Of `Redirect`: `TypeCorrect`, `WindowIsRenewed` (`WindowRenewed`),
  `OnlyCrowdsAreLetThrough` (`OnlyCrowdsPass`), `SharedBreakerImplements` (the refinement). `InFlight` says that a failure beyond the threshold is one
  of a call that was let in before; `Renewed` that a refusal leaves a full window to
  wait. `Blamed` is the argument for the quota check. While there is no other cause,
  the failures counted are those of requests past their miss, one each, and of
  requests that were before their check at the last success, or came to it since, and
  are no more: with the requests still before their check they are at most those past
  their miss and `peak`. Both are bounded by `peak`, so a counter at the threshold means
  that twice `peak` reached it. No relation of the constants is assumed. The refinement needs
  `CountIsStreak` besides, and `StepsOfTheBreaker`, by which each step lets a request into
  a call, lets one out, ends the timeout or leaves the breaker alone.
  Of `RouteSelection`: `SharesAreFair` (`SelectionFair`), for routes of every length,
  weights and countries, `MaxLength` and `MaxWeight` being any numbers. What a
  recursive function computes is proved by induction on the position, with the set
  of positions where it holds in the place of a predicate: a set of naturals has a
  least element (`Least`, from `WFMin`), so one with 0 and all successors has all
  (`Induction`), so a function may be defined step by step (`Recursion`). `Totals` and
  `Growing` make the running totals an increasing sequence, `Drawn` puts each draw in
  one step of it, and `Shares` counts the draws of a step.

Only model-checked: liveness (`Recovers`, `LeavesTheCache`, `ForeignCopiesEnd`,
`RequestsSettle`, `CooldownReleases`, `RedirectNeverWaits`, `ShutdownEnds`,
`StuckWorkerRecycled`, `BacklogDrains`, `PaidPlanEnds`), which rests on fairness, for
which the prover has no ENABLED.

## 6. What is not modelled

API keys, the custom domain of a tenant and its usage are one statement each. The
destination list and the checkout send one request for each click; what it does to
the router and to Pagar.me is in `LinkRouting` and `Billing`. Negative weights, which
neither a handler nor the schema refuses and for which `rand.Intn` panics, are
outside `RouteSelection`: the dashboard offers none.
Parsers, bot signatures, configuration, deployment, rendering and read-only
queries keep no state that another component depends on. Kafka health
notifications have no reader in the repository. The rows of Cassandra and the
counters in Redis are only read by reports; they are sinks of `ClickProcessor`,
whose writes succeed or fail.
