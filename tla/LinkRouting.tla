----------------------------- MODULE LinkRouting -----------------------------
(***************************************************************************)
(* One short link as link-router serves it: the rows of links and          *)
(* link_destinations in PostgreSQL, the copies of the route in Redis, the  *)
(* requests that read them (LinkResolver.Resolve), the goroutine each      *)
(* redirect leaves behind to count the click (trackClick), the             *)
(* InviteHealthMonitor of every replica, and the edits link-admin makes.   *)
(*                                                                         *)
(* Every call to Redis or PostgreSQL is an action of its own, so requests, *)
(* click trackers, monitors and edits interleave between any two calls.    *)
(* A call that fails, or that an open circuit breaker rejects, is the same *)
(* to its caller and is one alternative here; an UPDATE whose answer is    *)
(* lost is another.  A cached route is the set of destinations it lists,   *)
(* {} when the key is missing: GetRoute finds no row when no destination   *)
(* is active, so an empty route is never cached.                           *)
(***************************************************************************)
EXTENDS Integers, FiniteSets

CONSTANTS
    Dests,        \* destinations of the link, in the store or created later
    Keys,         \* cache keys: route:<code>, and route:<host>:<code> per host
    DefaultKey,   \* the key of the default domain, route:<code>
    ForeignKeys,  \* the keys whose host is another tenant's custom domain
    Requests,     \* request slots: a request and then its click tracker
    Monitors,     \* router replicas, each running one monitor
    Limits,       \* the max_clicks values admins choose
    NoLimit,      \* a NULL max_clicks
    ClickBound,   \* clicks are counted up to here; no limit lies beyond
    NoDest        \* no destination

ASSUME RoutingAssumption ==
    /\ DefaultKey \in Keys \ ForeignKeys
    /\ ForeignKeys \subseteq Keys
    /\ NoDest \notin Dests
    /\ ClickBound \in Nat
    /\ Limits \subseteq 0..ClickBound
    /\ NoLimit \notin Nat

VARIABLES
    link,         \* links: "on" (is_active), "off" or "deleted"
    status,       \* link_destinations: "absent", "active", "inactive", "deleted"
    limit,        \* max_clicks
    clicks,       \* current_clicks
    cooldown,     \* cooldown_until: NULL, in the future or in the past
    cached,       \* Redis: key -> the destinations of the cached route
    pc,           \* request -> its next call
    key,          \* request -> cacheKey
    route,        \* request -> route.Destinations in its hands
    dest,         \* request -> the destination its tracker counts
    todo,         \* monitor -> the rest of the expired destinations it listed
    dropping,     \* monitor -> the destination it reactivated, not yet dropped
    waived,       \* history: destinations left active at their limit, see below
    excused       \* history: destinations in the default copy for a known reason

store    == <<link, status, limit, clicks, cooldown>>
requests == <<pc, key, route, dest>>
monitors == <<todo, dropping>>
vars     == <<store, cached, requests, monitors, waived, excused>>

Stages == {"idle", "read", "fill", "select", "count", "disable", "drop"}

TypeOK ==
    /\ link \in {"on", "off", "deleted"}
    /\ status \in [Dests -> {"absent", "active", "inactive", "deleted"}]
    /\ limit \in [Dests -> Limits \cup {NoLimit}]
    /\ clicks \in [Dests -> 0..ClickBound]
    /\ cooldown \in [Dests -> {"null", "future", "past"}]
    /\ cached \in [Keys -> SUBSET Dests]
    /\ pc \in [Requests -> Stages]
    /\ key \in [Requests -> Keys]
    /\ route \in [Requests -> SUBSET Dests]
    /\ dest \in [Requests -> Dests \cup {NoDest}]
    /\ todo \in [Monitors -> SUBSET Dests]
    /\ dropping \in [Monitors -> Dests \cup {NoDest}]
    /\ waived \subseteq Dests
    /\ excused \subseteq Dests

Active(d) == status[d] = "active"
Present(d) == status[d] \in {"active", "inactive"}

\* The two history variables.  A click ends a waiver, a copy that no longer
\* lists an inactive destination ends its excuse.
Waive(S) == waived' = waived \cup S
Excuse(S) == excused' = {d \in excused \cup S :
                           d \in cached'[DefaultKey] /\ status'[d] # "active"}

\* An empty link: link-admin has just inserted the row.
Init ==
    /\ link = "on"
    /\ status = [d \in Dests |-> "absent"]
    /\ limit = [d \in Dests |-> NoLimit]
    /\ clicks = [d \in Dests |-> 0]
    /\ cooldown = [d \in Dests |-> "null"]
    /\ cached = [k \in Keys |-> {}]
    /\ pc = [r \in Requests |-> "idle"]
    /\ key = [r \in Requests |-> DefaultKey]
    /\ route = [r \in Requests |-> {}]
    /\ dest = [r \in Requests |-> NoDest]
    /\ todo = [m \in Monitors |-> {}]
    /\ dropping = [m \in Monitors |-> NoDest]
    /\ waived = {}
    /\ excused = {}

-----------------------------------------------------------------------------
(* Resolve and getRoute: the request. *)

Goto(r, stage) == pc' = [pc EXCEPT ![r] = stage]

\* The slot is free again; what it held is of no use to anyone.
Done(r) ==
    /\ Goto(r, "idle")
    /\ key' = [key EXCEPT ![r] = DefaultKey]
    /\ route' = [route EXCEPT ![r] = {}]
    /\ dest' = [dest EXCEPT ![r] = NoDest]

\* Mutant: a hit is written back, which restarts the 60 s of the copy.
CacheHitWritesBack(r, k) ==
    /\ pc[r] = "idle"
    /\ cached[k] # {}
    /\ route' = [route EXCEPT ![r] = cached[k]]
    /\ key' = [key EXCEPT ![r] = k]
    /\ Goto(r, "fill")
    /\ UNCHANGED <<store, cached, dest, monitors, waived, excused>>

\* The cache holds the route: no call to the store.
CacheHit(r, k) ==
    /\ pc[r] = "idle"
    /\ cached[k] # {}
    /\ route' = [route EXCEPT ![r] = cached[k]]
    /\ Goto(r, "select")
    /\ UNCHANGED <<store, cached, key, dest, monitors, waived, excused>>

\* The key is missing, or Redis does not answer: either way go to the store.
CacheMiss(r, k) ==
    /\ pc[r] = "idle"
    /\ key' = [key EXCEPT ![r] = k]
    /\ Goto(r, "read")
    /\ UNCHANGED <<store, cached, route, dest, monitors, waived, excused>>

\* The destinations GetRouteByShortCode joins.
Row == IF link = "on" THEN {d \in Dests : Active(d)} ELSE {}

TakeRow(r) ==
    /\ pc[r] = "read"
    /\ Row # {}
    /\ route' = [route EXCEPT ![r] = Row]
    /\ Goto(r, "fill")
    /\ UNCHANGED <<store, cached, key, dest, monitors, waived, excused>>

\* The lookup finds the link: globally, or within the tenant the host belongs to.
ReadRoute(r) == key[r] \notin ForeignKeys /\ TakeRow(r)

\* GetTenantIDByCustomDomain failed: the lookup is global, as for an unknown domain.
ReadRouteTenantUnknown(r) == key[r] \in ForeignKeys /\ TakeRow(r)

\* No such row (within the tenant), or the store failed or was not asked: 404.
NotFound(r) ==
    /\ pc[r] = "read"
    /\ Done(r)
    /\ UNCHANGED <<store, cached, monitors, waived, excused>>

\* SET with the TTL.  The row may have changed since it was read.
FillCache(r) ==
    /\ pc[r] = "fill"
    /\ cached' = [cached EXCEPT ![key[r]] = route[r]]
    /\ Goto(r, "select")
    /\ UNCHANGED <<store, key, route, dest, monitors, waived>>
    /\ Excuse(route[r])

FillFails(r) ==
    /\ pc[r] = "fill"
    /\ Goto(r, "select")
    /\ UNCHANGED <<store, cached, key, route, dest, monitors, waived, excused>>

\* Redirect to a destination that the cooldown, risk and country filters leave
\* and the strategy picks (module RouteSelection looks inside), and start the
\* goroutine that counts the click.
Redirect(r, d) ==
    /\ pc[r] = "select"
    /\ d \in route[r]
    /\ Goto(r, "count")
    /\ dest' = [dest EXCEPT ![r] = d]
    /\ route' = [route EXCEPT ![r] = {}]
    /\ key' = [key EXCEPT ![r] = DefaultKey]
    /\ UNCHANGED <<store, cached, monitors, waived, excused>>

\* The tenant is over its quota or every destination is filtered out: fallback
\* URL or 404, and no click is counted.
Decline(r) ==
    /\ pc[r] = "select"
    /\ Done(r)
    /\ UNCHANGED <<store, cached, monitors, waived, excused>>

-----------------------------------------------------------------------------
(* trackClick: what a redirect leaves behind. *)

\* Mutant: only the click that reaches the limit exactly.
HitsCapExactly(n, max) == max # NoLimit /\ n = max

\* result.MaxClicks != nil && result.CurrentClicks >= *result.MaxClicks
ReachedCap(n, max) == max # NoLimit /\ n >= max

Counted(d) == IF clicks[d] = ClickBound THEN ClickBound ELSE clicks[d] + 1

\* UPDATE ... SET current_clicks = current_clicks + 1 ... RETURNING.
CountClick(r) ==
    LET d == dest[r] IN
    /\ pc[r] = "count"
    /\ Present(d)
    /\ clicks' = [clicks EXCEPT ![d] = Counted(d)]
    /\ IF ReachedCap(Counted(d), limit[d])
         THEN Goto(r, "disable") /\ UNCHANGED <<key, route, dest>>
         ELSE Done(r)
    /\ waived' = waived \ {d}
    /\ UNCHANGED <<link, status, limit, cooldown, cached, monitors, excused>>

\* Mutant: a failed count is taken back.
CountTakenBack(r) ==
    /\ pc[r] = "count"
    /\ clicks' = [clicks EXCEPT ![dest[r]] = @ - 1]
    /\ Done(r)
    /\ UNCHANGED <<link, status, limit, cooldown, cached, monitors, waived, excused>>

\* The row is counted, but the answer does not come back before the deadline.
CountUnanswered(r) ==
    LET d == dest[r] IN
    /\ pc[r] = "count"
    /\ Present(d)
    /\ clicks' = [clicks EXCEPT ![d] = Counted(d)]
    /\ Waive({d})
    /\ Done(r)
    /\ UNCHANGED <<link, status, limit, cooldown, cached, monitors, excused>>

\* The store failed, or the row is gone and RETURNING finds nothing.
CountFails(r) ==
    /\ pc[r] = "count"
    /\ Done(r)
    /\ UNCHANGED <<store, cached, monitors, waived, excused>>

Disabled(d) == [status EXCEPT ![d] = IF Present(d) THEN "inactive" ELSE @]

\* Mutant: the cached copy is forgotten.
DisableOnly(r) ==
    /\ pc[r] = "disable"
    /\ status' = Disabled(dest[r])
    /\ Done(r)
    /\ UNCHANGED <<link, limit, clicks, cooldown, cached, monitors, waived>>
    /\ Excuse({})

DisableDestination(r) ==
    /\ pc[r] = "disable"
    /\ status' = Disabled(dest[r])
    /\ Goto(r, "drop")
    /\ UNCHANGED <<link, limit, clicks, cooldown, cached, key, route, dest, monitors, waived>>
    /\ Excuse({})

\* The tracker gives up; the destination stays active until its next click.
DisableFails(r) ==
    /\ pc[r] = "disable"
    /\ Waive({dest[r]})
    /\ Done(r)
    /\ UNCHANGED <<store, cached, monitors, excused>>

\* The row is off, but the answer is lost: the copy is not dropped.
DisableUnanswered(r) ==
    /\ pc[r] = "disable"
    /\ status' = Disabled(dest[r])
    /\ Done(r)
    /\ UNCHANGED <<link, limit, clicks, cooldown, cached, monitors, waived>>
    /\ Excuse({dest[r]})

\* Delete of route:<code>, then the Kafka notification (read by nobody here).
DropCopy(r) ==
    /\ pc[r] = "drop"
    /\ cached' = [cached EXCEPT ![DefaultKey] = {}]
    /\ Done(r)
    /\ UNCHANGED <<store, monitors, waived>>
    /\ Excuse({})

\* The error of Delete is ignored.
DropFails(r) ==
    /\ pc[r] = "drop"
    /\ Done(r)
    /\ UNCHANGED <<store, cached, monitors, waived>>
    /\ Excuse({dest[r]})

-----------------------------------------------------------------------------
(* InviteHealthMonitor.run: one pass per tick of each replica. *)

\* Mutant: the comparison with NOW() the wrong way round.
UnexpiredOnes == {d \in Dests : status[d] = "inactive" /\ cooldown[d] = "future"}

Expired == {d \in Dests : status[d] = "inactive" /\ cooldown[d] = "past"}

ListExpired(m) ==
    /\ todo[m] = {} /\ dropping[m] = NoDest
    /\ Expired # {}
    /\ todo' = [todo EXCEPT ![m] = Expired]
    /\ UNCHANGED <<store, cached, requests, dropping, waived, excused>>

\* UPDATE by id: whatever happened to the row since it was listed.
TurnOn(m, d) ==
    /\ dropping[m] = NoDest
    /\ d \in todo[m]
    /\ IF Present(d)
         THEN /\ status' = [status EXCEPT ![d] = "active"]
              /\ cooldown' = [cooldown EXCEPT ![d] = "null"]
         ELSE UNCHANGED <<status, cooldown>>
    /\ todo' = [todo EXCEPT ![m] = @ \ {d}]
    /\ Waive({d})
    /\ UNCHANGED <<link, limit, clicks, cached, requests>>
    /\ Excuse({})

Reactivate(m, d) == TurnOn(m, d) /\ dropping' = [dropping EXCEPT ![m] = d]

\* The answer is lost: continue, without dropping the copy.
ReactivateUnanswered(m, d) == TurnOn(m, d) /\ UNCHANGED dropping

\* continue: the next pass lists it again.
ReactivateFails(m, d) ==
    /\ dropping[m] = NoDest
    /\ d \in todo[m]
    /\ todo' = [todo EXCEPT ![m] = @ \ {d}]
    /\ UNCHANGED <<store, cached, requests, dropping, waived, excused>>

\* Delete of route:<code>, then the Kafka notification.
MonitorDrops(m) ==
    /\ dropping[m] # NoDest
    /\ cached' = [cached EXCEPT ![DefaultKey] = {}]
    /\ dropping' = [dropping EXCEPT ![m] = NoDest]
    /\ UNCHANGED <<store, requests, todo, waived>>
    /\ Excuse({})

MonitorDropFails(m) ==
    /\ dropping[m] # NoDest
    /\ dropping' = [dropping EXCEPT ![m] = NoDest]
    /\ UNCHANGED <<store, cached, requests, todo, waived, excused>>

-----------------------------------------------------------------------------
(* link-admin's LinkRepository: edits of the rows; none touches the cache.   *)
(* A destination an edit turns off stays in the copies until they expire.    *)

CreateDestination(d, max) ==
    /\ link # "deleted"
    /\ status[d] = "absent"
    /\ status' = [status EXCEPT ![d] = "active"]
    /\ limit' = [limit EXCEPT ![d] = max]
    /\ Waive({d})
    /\ UNCHANGED <<link, clicks, cooldown, cached, requests, monitors, excused>>

\* max_clicks and is_active come from the form, however old its data are.
UpdateDestination(d, max, on) ==
    /\ Present(d)
    /\ status' = [status EXCEPT ![d] = IF on THEN "active" ELSE "inactive"]
    /\ limit' = [limit EXCEPT ![d] = max]
    /\ Waive({d})
    /\ UNCHANGED <<link, clicks, cooldown, cached, requests, monitors>>
    /\ Excuse({d})

DeleteDestination(d) ==
    /\ Present(d)
    /\ status' = [status EXCEPT ![d] = "deleted"]
    /\ UNCHANGED <<link, limit, clicks, cooldown, cached, requests, monitors, waived>>
    /\ Excuse({d})

UpdateLink(on) ==
    /\ link # "deleted"
    /\ link' = IF on THEN "on" ELSE "off"
    /\ UNCHANGED <<status, limit, clicks, cooldown, cached, requests, monitors, waived, excused>>

\* The destinations go with the link (ON DELETE CASCADE).
DeleteLink ==
    /\ link # "deleted"
    /\ link' = "deleted"
    /\ status' = [d \in Dests |-> IF Present(d) THEN "deleted" ELSE status[d]]
    /\ UNCHANGED <<limit, clicks, cooldown, cached, requests, monitors, waived>>
    /\ Excuse(Dests)

-----------------------------------------------------------------------------
(* Outside the services: the operator who sets a cooldown (nothing in the     *)
(* repository writes cooldown_until), the clock, and Redis' TTL.              *)

StartCooldown(d) ==
    /\ Present(d)
    /\ cooldown' = [cooldown EXCEPT ![d] = "future"]
    /\ status' \in {status, [status EXCEPT ![d] = "inactive"]}
    /\ UNCHANGED <<link, limit, clicks, cached, requests, monitors, waived>>
    /\ Excuse({d})

CooldownEnds(d) ==
    /\ cooldown[d] = "future"
    /\ cooldown' = [cooldown EXCEPT ![d] = "past"]
    /\ UNCHANGED <<link, status, limit, clicks, cached, requests, monitors, waived, excused>>

Expire(k) ==
    /\ cached[k] # {}
    /\ cached' = [cached EXCEPT ![k] = {}]
    /\ UNCHANGED <<store, requests, monitors, waived>>
    /\ Excuse({})

-----------------------------------------------------------------------------
Lookup(r) == \E k \in Keys : CacheHit(r, k) \/ CacheMiss(r, k)

Proceed(r) ==
    \/ ReadRoute(r) \/ ReadRouteTenantUnknown(r) \/ NotFound(r)
    \/ FillCache(r) \/ FillFails(r)
    \/ (\E d \in Dests : Redirect(r, d)) \/ Decline(r)
    \/ CountClick(r) \/ CountUnanswered(r) \/ CountFails(r)
    \/ DisableDestination(r) \/ DisableUnanswered(r) \/ DisableFails(r)
    \/ DropCopy(r) \/ DropFails(r)

Pass(m) ==
    \/ ListExpired(m)
    \/ \E d \in Dests :
         Reactivate(m, d) \/ ReactivateUnanswered(m, d) \/ ReactivateFails(m, d)
    \/ MonitorDrops(m) \/ MonitorDropFails(m)

Admin ==
    \/ \E d \in Dests, max \in Limits \cup {NoLimit} :
         \/ CreateDestination(d, max)
         \/ \E on \in BOOLEAN : UpdateDestination(d, max, on)
    \/ \E d \in Dests : DeleteDestination(d)
    \/ \E on \in BOOLEAN : UpdateLink(on)
    \/ DeleteLink

Outside ==
    \/ \E d \in Dests : StartCooldown(d) \/ CooldownEnds(d)
    \/ \E k \in Keys : Expire(k)

Next ==
    \/ \E r \in Requests : Lookup(r) \/ Proceed(r)
    \/ \E m \in Monitors : Pass(m)
    \/ Admin
    \/ Outside

Spec == Init /\ [][Next]_vars

\* Every call a request, tracker or monitor makes ends: those of trackClick by
\* its deadline, those to Redis by the client's; of a request's and a monitor's
\* queries, which carry none, it is assumed.  Redis expires keys, and each monitor
\* ticks.  No request has to come and no edit has to be made.
Fairness ==
    /\ \A r \in Requests : WF_vars(Proceed(r))
    /\ \A k \in Keys : WF_vars(Expire(k))
    /\ \A m \in Monitors : WF_vars(Pass(m))

\* PostgreSQL does not fail the UPDATE of one destination for ever: a monitor
\* that keeps listing it once gets through.
StoreRecovers == \A m \in Monitors, d \in Dests : SF_vars(Reactivate(m, d))

FairSpec == Spec /\ Fairness /\ StoreRecovers

-----------------------------------------------------------------------------
(* Properties. *)

AtCap(d) == limit[d] # NoLimit /\ clicks[d] >= limit[d]

\* max_clicks holds: a destination at its limit is active only while a tracker
\* is about to disable it, or because an UPDATE failed or went unanswered, or a
\* monitor or an admin turned it on, and no tracker has counted a click since.
CapHolds ==
    \A d \in Dests :
        Active(d) /\ AtCap(d) =>
            \/ d \in waived
            \/ \E r \in Requests : pc[r] = "disable" /\ dest[r] = d

\* The copy of the default domain lists an inactive destination only between
\* the tracker's UPDATE and its Delete, or for a known reason: the copy was
\* written by a request that had read the row earlier, the UPDATE went unanswered
\* or the Delete failed, or an edit, which leaves the cache alone, turned it off.
DefaultCopyFresh ==
    \A d \in cached[DefaultKey] :
        ~Active(d) =>
            \/ d \in excused
            \/ \E r \in Requests : pc[r] = "drop" /\ dest[r] = d

Servable(d) == link = "on" /\ Active(d)

\* A destination that stays off, or whose link does, leaves every copy for good:
\* hits and late fills prolong its life by a TTL at most, never for ever.
LeavesTheCache ==
    \A d \in Dests :
        <>[](~Servable(d)) => <>[](\A k \in Keys : d \notin cached[k])

\* A destination whose cooldown is over does not stay inactive, whatever
\* failures the monitors meet on the way.
CooldownReleases ==
    LET Waiting(d) == status[d] = "inactive" /\ cooldown[d] = "past" IN
    \A d \in Dests : Waiting(d) ~> ~Waiting(d)

\* Another tenant's custom domain goes on serving the link only as long as
\* lookups of the tenant go on failing, which getRoute takes for an unknown
\* domain: a copy such a failure left expires, and neither a hit nor a fill
\* that was under way renews it (link_resolver.go:219-243).
ForeignCopiesEnd ==
    \A k \in ForeignKeys :
        []<>(cached[k] # {}) => []<><<\E r \in Requests : ReadRouteTenantUnknown(r)>>_vars

=============================================================================
