-------------------------- MODULE LinkRoutingProofs --------------------------
(***************************************************************************)
(* Type correctness, the click limit and the freshness of the default      *)
(* copy, for any number of destinations, cache keys, requests and router   *)
(* replicas.  RInv is inductive: the two properties are, once it is known  *)
(* that a click tracker always holds a destination.                        *)
(***************************************************************************)
EXTENDS LinkRouting, TLAPS

\* A tracker counts, disables or drops the copy of a destination of the link.
TrackerHasDest ==
    \A r \in Requests : pc[r] \in {"count", "disable", "drop"} => dest[r] \in Dests

RInv == TypeOK /\ TrackerHasDest /\ CapHolds /\ DefaultCopyFresh

-----------------------------------------------------------------------------
\* What a slot holds after Done and Goto.
LEMMA DoneType ==
  ASSUME TypeOK, NEW r \in Requests, Done(r)
  PROVE  /\ pc' \in [Requests -> Stages]
         /\ key' \in [Requests -> Keys]
         /\ route' \in [Requests -> SUBSET Dests]
         /\ dest' \in [Requests -> Dests \cup {NoDest}]
  BY RoutingAssumption DEF TypeOK, Done, Goto, Stages

LEMMA GotoType ==
  ASSUME TypeOK, NEW r \in Requests, NEW stage \in Stages, Goto(r, stage)
  PROVE  pc' \in [Requests -> Stages]
  BY DEF TypeOK, Goto

LEMMA ExcuseType ==
  ASSUME TypeOK, NEW S \in SUBSET Dests, Excuse(S)
  PROVE  excused' \subseteq Dests
  BY DEF TypeOK, Excuse

\* The steps of a request keep the types.
LEMMA RequestType ==
  ASSUME TypeOK, TrackerHasDest, NEW r \in Requests, Lookup(r) \/ Proceed(r)
  PROVE  TypeOK'
<1> USE DEF store, monitors
<1>1. ASSUME NEW k \in Keys, CacheHit(r, k) \/ CacheMiss(r, k) PROVE TypeOK'
  BY <1>1, GotoType DEF CacheHit, CacheMiss, TypeOK, Stages
<1>2. CASE TakeRow(r)
  BY <1>2, GotoType DEF TakeRow, Row, TypeOK, Stages
<1>3. CASE NotFound(r) \/ Decline(r) \/ CountFails(r)
  BY <1>3, DoneType DEF NotFound, Decline, CountFails, TypeOK
<1>4. CASE FillCache(r)
  <2>1. cached' \in [Keys -> SUBSET Dests]
    BY <1>4 DEF FillCache, TypeOK
  <2>2. excused' \subseteq Dests
    BY <1>4, ExcuseType DEF FillCache, TypeOK
  <2> QED
    BY <1>4, <2>1, <2>2, GotoType DEF FillCache, TypeOK, Stages
<1>5. CASE FillFails(r)
  BY <1>5, GotoType DEF FillFails, TypeOK, Stages
<1>6. ASSUME NEW d \in Dests, Redirect(r, d) PROVE TypeOK'
  BY <1>6, GotoType, RoutingAssumption DEF Redirect, TypeOK, Stages
<1>7. CASE CountClick(r)
  <2>1. clicks' \in [Dests -> 0..ClickBound]
    <3>1. ASSUME NEW n \in 0..ClickBound
          PROVE  (IF n = ClickBound THEN ClickBound ELSE n + 1) \in 0..ClickBound
      BY RoutingAssumption
    <3> QED
      BY <1>7, <3>1 DEF CountClick, Counted, TypeOK, TrackerHasDest
  <2>2. /\ pc' \in [Requests -> Stages]
        /\ key' \in [Requests -> Keys]
        /\ route' \in [Requests -> SUBSET Dests]
        /\ dest' \in [Requests -> Dests \cup {NoDest}]
    <3>1. CASE ReachedCap(Counted(dest[r]), limit[dest[r]])
      BY <1>7, <3>1, GotoType DEF CountClick, TypeOK, Stages
    <3>2. CASE ~ReachedCap(Counted(dest[r]), limit[dest[r]])
      BY <1>7, <3>2, DoneType DEF CountClick
    <3> QED BY <3>1, <3>2
  <2> QED
    BY <1>7, <2>1, <2>2 DEF CountClick, TypeOK
<1>8. CASE DisableDestination(r)
  <2>1. excused' \subseteq Dests
    BY <1>8, ExcuseType DEF DisableDestination
  <2>2. status' \in [Dests -> {"absent", "active", "inactive", "deleted"}]
    BY <1>8 DEF DisableDestination, Disabled, TypeOK
  <2> QED
    BY <1>8, <2>1, <2>2, GotoType DEF DisableDestination, TypeOK, Stages
<1>12. CASE CountUnanswered(r)
  <2>1. clicks' \in [Dests -> 0..ClickBound]
    <3>1. ASSUME NEW n \in 0..ClickBound
          PROVE  (IF n = ClickBound THEN ClickBound ELSE n + 1) \in 0..ClickBound
      BY RoutingAssumption
    <3> QED
      BY <1>12, <3>1 DEF CountUnanswered, Counted, TypeOK, TrackerHasDest
  <2> QED
    BY <1>12, <2>1, DoneType DEF CountUnanswered, Waive, TypeOK, TrackerHasDest
<1>13. CASE DisableUnanswered(r)
  <2>1. excused' \subseteq Dests
    BY <1>13, ExcuseType DEF DisableUnanswered, TrackerHasDest
  <2>2. status' \in [Dests -> {"absent", "active", "inactive", "deleted"}]
    BY <1>13 DEF DisableUnanswered, Disabled, TypeOK
  <2> QED
    BY <1>13, <2>1, <2>2, DoneType DEF DisableUnanswered, TypeOK
<1>9. CASE DisableFails(r)
  BY <1>9, DoneType DEF DisableFails, Waive, TypeOK, TrackerHasDest
<1>10. CASE DropCopy(r)
  <2>1. excused' \subseteq Dests
    BY <1>10, ExcuseType DEF DropCopy
  <2> QED
    BY <1>10, <2>1, DoneType DEF DropCopy, TypeOK
<1>11. CASE DropFails(r)
  <2>1. excused' \subseteq Dests
    BY <1>11, ExcuseType DEF DropFails, TrackerHasDest
  <2> QED
    BY <1>11, <2>1, DoneType DEF DropFails, TypeOK
<1> QED
  BY <1>1, <1>2, <1>3, <1>4, <1>5, <1>6, <1>7, <1>8, <1>9, <1>10, <1>11, <1>12, <1>13
     DEF Lookup, Proceed, ReadRoute, ReadRouteTenantUnknown

\* The steps of a monitor keep the types.
LEMMA MonitorType ==
  ASSUME TypeOK, NEW m \in Monitors, Pass(m)
  PROVE  TypeOK'
<1> USE DEF store, requests, TypeOK
<1>1. CASE ListExpired(m)
  BY <1>1 DEF ListExpired, Expired
<1>2. ASSUME NEW d \in Dests, Reactivate(m, d) \/ ReactivateUnanswered(m, d)
      PROVE  TypeOK'
  <2>0. TurnOn(m, d)
    BY <1>2 DEF Reactivate, ReactivateUnanswered
  <2>1. excused' \subseteq Dests
    BY <2>0, ExcuseType DEF TurnOn
  <2>2. waived' \subseteq Dests
    BY <2>0 DEF TurnOn, Waive
  <2>3. dropping' \in [Monitors -> Dests \cup {NoDest}]
    BY <1>2 DEF Reactivate, ReactivateUnanswered
  <2> QED
    BY <2>0, <2>1, <2>2, <2>3 DEF TurnOn
<1>3. ASSUME NEW d \in Dests, ReactivateFails(m, d) PROVE TypeOK'
  BY <1>3 DEF ReactivateFails
<1>4. CASE MonitorDrops(m)
  <2>1. excused' \subseteq Dests
    BY <1>4, ExcuseType DEF MonitorDrops
  <2> QED
    BY <1>4, <2>1 DEF MonitorDrops
<1>5. CASE MonitorDropFails(m)
  BY <1>5 DEF MonitorDropFails
<1> QED
  BY <1>1, <1>2, <1>3, <1>4, <1>5 DEF Pass

\* The edits keep the types.
LEMMA AdminType ==
  ASSUME TypeOK, Admin
  PROVE  TypeOK'
<1> USE DEF requests, monitors, TypeOK
<1>1. ASSUME NEW d \in Dests, NEW max \in Limits \cup {NoLimit},
             CreateDestination(d, max)
      PROVE  TypeOK'
  BY <1>1 DEF CreateDestination, Waive
<1>2. ASSUME NEW d \in Dests, NEW max \in Limits \cup {NoLimit}, NEW on \in BOOLEAN,
             UpdateDestination(d, max, on)
      PROVE  TypeOK'
  <2>1. excused' \subseteq Dests
    BY <1>2, ExcuseType DEF UpdateDestination
  <2> QED
    BY <1>2, <2>1 DEF UpdateDestination, Waive
<1>3. ASSUME NEW d \in Dests, DeleteDestination(d) PROVE TypeOK'
  <2>1. excused' \subseteq Dests
    BY <1>3, ExcuseType DEF DeleteDestination
  <2> QED
    BY <1>3, <2>1 DEF DeleteDestination
<1>4. ASSUME NEW on \in BOOLEAN, UpdateLink(on) PROVE TypeOK'
  BY <1>4 DEF UpdateLink
<1>5. CASE DeleteLink
  <2>1. excused' \subseteq Dests
    BY <1>5, ExcuseType DEF DeleteLink
  <2> QED
    BY <1>5, <2>1 DEF DeleteLink
<1> HIDE DEF TypeOK
<1> QED
  BY <1>1, <1>2, <1>3, <1>4, <1>5 DEF Admin

\* Cooldowns and expiry keep the types.
LEMMA OutsideType ==
  ASSUME TypeOK, Outside
  PROVE  TypeOK'
<1> USE DEF requests, monitors, store, TypeOK
<1>1. ASSUME NEW d \in Dests, StartCooldown(d) PROVE TypeOK'
  <2>1. excused' \subseteq Dests
    BY <1>1, ExcuseType DEF StartCooldown
  <2> QED
    BY <1>1, <2>1 DEF StartCooldown
<1>2. ASSUME NEW d \in Dests, CooldownEnds(d) PROVE TypeOK'
  BY <1>2 DEF CooldownEnds
<1>3. ASSUME NEW k \in Keys, Expire(k) PROVE TypeOK'
  <2>1. excused' \subseteq Dests
    BY <1>3, ExcuseType DEF Expire
  <2> QED
    BY <1>3, <2>1 DEF Expire
<1> QED
  BY <1>1, <1>2, <1>3 DEF Outside

\* Type correctness is preserved by every step.
LEMMA TypeInductive ==
  ASSUME TypeOK, TrackerHasDest, [Next]_vars
  PROVE  TypeOK'
<1>1. CASE UNCHANGED vars
  BY <1>1 DEF vars, store, requests, monitors, TypeOK
<1> QED
  BY <1>1, RequestType, MonitorType, AdminType, OutsideType DEF Next

-----------------------------------------------------------------------------
\* A tracker keeps its destination until it is done: only Redirect sets it.
LEMMA TrackerInductive ==
  ASSUME TypeOK, TrackerHasDest, [Next]_vars
  PROVE  TrackerHasDest'
<1> USE DEF TypeOK, TrackerHasDest, Goto, Done
<1>1. ASSUME NEW r \in Requests, NEW k \in Keys, CacheHit(r, k) \/ CacheMiss(r, k)
      PROVE  TrackerHasDest'
  BY <1>1 DEF CacheHit, CacheMiss
<1>2. ASSUME NEW r \in Requests, TakeRow(r) \/ NotFound(r) \/ FillCache(r) \/ FillFails(r)
                                \/ Decline(r)
      PROVE  TrackerHasDest'
  BY <1>2 DEF TakeRow, NotFound, FillCache, FillFails, Decline
<1>3. ASSUME NEW r \in Requests, NEW d \in Dests, Redirect(r, d)
      PROVE  TrackerHasDest'
  BY <1>3 DEF Redirect
<1>4. ASSUME NEW r \in Requests, CountClick(r)
      PROVE  TrackerHasDest'
  <2>1. CASE ReachedCap(Counted(dest[r]), limit[dest[r]])
    BY <1>4, <2>1 DEF CountClick
  <2>2. CASE ~ReachedCap(Counted(dest[r]), limit[dest[r]])
    BY <1>4, <2>2 DEF CountClick
  <2> QED BY <2>1, <2>2
<1>5. ASSUME NEW r \in Requests,
             \/ CountUnanswered(r) \/ CountFails(r)
             \/ DisableDestination(r) \/ DisableUnanswered(r) \/ DisableFails(r)
             \/ DropCopy(r) \/ DropFails(r)
      PROVE  TrackerHasDest'
  BY <1>5 DEF CountUnanswered, CountFails, DisableDestination, DisableUnanswered,
     DisableFails, DropCopy, DropFails
<1>6. ASSUME UNCHANGED requests PROVE TrackerHasDest'
  BY <1>6 DEF requests
<1>7. ASSUME NEW m \in Monitors, Pass(m) PROVE UNCHANGED requests
  BY <1>7 DEF Pass, ListExpired, Reactivate, ReactivateUnanswered, TurnOn, ReactivateFails,
     MonitorDrops, MonitorDropFails
<1>8. ASSUME Admin \/ Outside \/ UNCHANGED vars PROVE UNCHANGED requests
  BY <1>8 DEF Admin, CreateDestination, UpdateDestination, DeleteDestination, UpdateLink,
     DeleteLink, Outside, StartCooldown, CooldownEnds, Expire, vars
<1> HIDE DEF TrackerHasDest, TypeOK, Goto, Done
<1> QED
  BY <1>1, <1>2, <1>3, <1>4, <1>5, <1>6, <1>7, <1>8
     DEF Next, Lookup, Proceed, ReadRoute, ReadRouteTenantUnknown

-----------------------------------------------------------------------------
\* The steps other than CountClick keep CapHolds: they neither change a count
\* or a limit nor turn a destination on without waiving it, and a tracker leaves
\* its "disable" only by turning the destination off or waiving it.
LEMMA CapFrame ==
  ASSUME TypeOK, TrackerHasDest, CapHolds,
         waived \subseteq waived',
         \A d \in Dests : Active(d)' =>
            d \in waived' \/ (Active(d) /\ limit'[d] = limit[d] /\ clicks'[d] = clicks[d]),
         \A r \in Requests : pc[r] = "disable" =>
            \/ pc'[r] = "disable" /\ dest'[r] = dest[r]
            \/ status'[dest[r]] # "active"
            \/ dest[r] \in waived'
  PROVE  CapHolds'
<1> SUFFICES ASSUME NEW d \in Dests, Active(d)', AtCap(d)', d \notin waived'
             PROVE  \E r \in Requests : pc'[r] = "disable" /\ dest'[r] = d
  BY DEF CapHolds
<1>1. Active(d) /\ AtCap(d) /\ d \notin waived
  BY DEF AtCap
<1>2. PICK r \in Requests : pc[r] = "disable" /\ dest[r] = d
  BY <1>1 DEF CapHolds
<1> QED
  BY <1>2 DEF Active

\* A request that is not a tracker at "disable" moves, and no row changes.
LEMMA CapRequest ==
  ASSUME TypeOK, TrackerHasDest, CapHolds, NEW r \in Requests,
         pc[r] # "disable", waived' = waived, UNCHANGED store,
         \A q \in Requests \ {r} : pc'[q] = pc[q] /\ dest'[q] = dest[q]
  PROVE  CapHolds'
<1>1. \A q \in Requests : pc[q] = "disable" => pc'[q] = "disable" /\ dest'[q] = dest[q]
  OBVIOUS
<1> QED
  BY <1>1, CapFrame DEF store, Active

\* The counted click: at the limit its tracker goes on to disable.
LEMMA CapCountClick ==
  ASSUME TypeOK, TrackerHasDest, CapHolds, NEW r \in Requests, CountClick(r)
  PROVE  CapHolds'
<1>0. PICK d \in Dests : d = dest[r]
  BY DEF CountClick, TrackerHasDest
<1> USE <1>0
<1>1. d \in Dests /\ clicks'[d] = Counted(d) /\ limit' = limit /\ status' = status
  BY DEF CountClick, TrackerHasDest, TypeOK
<1>2. \A e \in Dests \ {d} : clicks'[e] = clicks[e]
  BY DEF CountClick, TypeOK
<1>3. \A q \in Requests \ {r} : pc'[q] = pc[q] /\ dest'[q] = dest[q]
  BY DEF CountClick, Goto, Done, TypeOK
<1>4. ASSUME AtCap(d)' PROVE pc'[r] = "disable" /\ dest'[r] = d
  <2>1. ReachedCap(Counted(d), limit[d])
    BY <1>1, <1>4 DEF AtCap, ReachedCap
  <2> QED
    BY <2>1 DEF CountClick, Goto, TypeOK
<1>5. ASSUME NEW e \in Dests, Active(e)', AtCap(e)', e # d
      PROVE  \/ e \in waived'
             \/ \E q \in Requests : pc'[q] = "disable" /\ dest'[q] = e
  <2>1. Active(e) /\ AtCap(e)
    BY <1>1, <1>2, <1>5 DEF Active, AtCap
  <2>2. CASE e \in waived
    BY <1>5, <2>2 DEF CountClick
  <2>3. ASSUME NEW q \in Requests, pc[q] = "disable", dest[q] = e
        PROVE  pc'[q] = "disable" /\ dest'[q] = e
    BY <1>3, <1>5, <2>3 DEF CountClick
  <2> QED
    BY <2>1, <2>2, <2>3 DEF CapHolds
<1> QED
  BY <1>1, <1>4, <1>5 DEF CapHolds

\* CapHolds is preserved by every step.
LEMMA CapInductive ==
  ASSUME RInv, [Next]_vars
  PROVE  CapHolds'
<1> USE DEF RInv
<1>1. ASSUME NEW r \in Requests, NEW k \in Keys, CacheHit(r, k) \/ CacheMiss(r, k)
      PROVE  CapHolds'
  BY <1>1, CapRequest DEF CacheHit, CacheMiss, Goto, TypeOK
<1>2. ASSUME NEW r \in Requests,
             TakeRow(r) \/ NotFound(r) \/ FillCache(r) \/ FillFails(r) \/ Decline(r)
      PROVE  CapHolds'
  BY <1>2, CapRequest
     DEF TakeRow, NotFound, FillCache, FillFails, Decline, Goto, Done, TypeOK
<1>3. ASSUME NEW r \in Requests, NEW d \in Dests, Redirect(r, d)
      PROVE  CapHolds'
  BY <1>3, CapRequest DEF Redirect, Goto, TypeOK
<1>4. ASSUME NEW r \in Requests, CountFails(r) \/ DropCopy(r) \/ DropFails(r)
      PROVE  CapHolds'
  BY <1>4, CapRequest DEF CountFails, DropCopy, DropFails, Goto, Done, TypeOK
<1>5. ASSUME NEW r \in Requests, DisableDestination(r) PROVE CapHolds'
  <2>1. /\ waived' = waived /\ limit' = limit /\ clicks' = clicks
        /\ \A q \in Requests \ {r} : pc'[q] = pc[q] /\ dest'[q] = dest[q]
    BY <1>5 DEF DisableDestination, Goto, TypeOK
  <2>2. status'[dest[r]] # "active" /\ \A d \in Dests : Active(d)' => Active(d)
    BY <1>5 DEF DisableDestination, Disabled, Active, Present, TypeOK, TrackerHasDest
  <2> QED
    BY <2>1, <2>2, CapFrame
<1>6. ASSUME NEW r \in Requests, DisableFails(r) PROVE CapHolds'
  BY <1>6, CapFrame DEF DisableFails, Waive, Goto, Done, TypeOK, store, Active
<1>15. ASSUME NEW r \in Requests, CountUnanswered(r) PROVE CapHolds'
  <2>1. /\ waived' = waived \cup {dest[r]} /\ limit' = limit /\ status' = status
        /\ \A d \in Dests \ {dest[r]} : clicks'[d] = clicks[d]
        /\ \A q \in Requests \ {r} : pc'[q] = pc[q] /\ dest'[q] = dest[q]
    BY <1>15 DEF CountUnanswered, Waive, Done, Goto, TypeOK
  <2> QED
    BY <1>15, <2>1, CapFrame DEF CountUnanswered, Active
<1>16. ASSUME NEW r \in Requests, DisableUnanswered(r) PROVE CapHolds'
  <2>1. /\ waived' = waived /\ limit' = limit /\ clicks' = clicks
        /\ \A q \in Requests \ {r} : pc'[q] = pc[q] /\ dest'[q] = dest[q]
    BY <1>16 DEF DisableUnanswered, Done, Goto, TypeOK
  <2>2. status'[dest[r]] # "active" /\ \A d \in Dests : Active(d)' => Active(d)
    BY <1>16 DEF DisableUnanswered, Disabled, Active, Present, TypeOK, TrackerHasDest
  <2> QED
    BY <2>1, <2>2, CapFrame
<1>7. ASSUME NEW m \in Monitors, Pass(m) PROVE CapHolds'
  <2>1. ASSUME UNCHANGED <<store, requests, waived>> PROVE CapHolds'
    BY <2>1, CapFrame DEF store, requests, Active
  <2>2. ASSUME NEW d \in Dests, TurnOn(m, d) PROVE CapHolds'
    <3>1. \A e \in Dests \ {d} : status'[e] = status[e]
      BY <2>2 DEF TurnOn, TypeOK
    <3> QED
      BY <2>2, <3>1, CapFrame DEF TurnOn, Waive, requests, Active
  <2>3. ASSUME NEW d \in Dests, ReactivateFails(m, d)
        PROVE  UNCHANGED <<store, requests, waived>>
    BY <2>3 DEF ReactivateFails
  <2>4. ASSUME ListExpired(m) \/ MonitorDrops(m) \/ MonitorDropFails(m)
        PROVE  UNCHANGED <<store, requests, waived>>
    BY <2>4 DEF ListExpired, MonitorDrops, MonitorDropFails
  <2> QED
    BY <1>7, <2>1, <2>2, <2>3, <2>4 DEF Pass, Reactivate, ReactivateUnanswered
<1>8. ASSUME NEW d \in Dests, NEW max \in Limits \cup {NoLimit},
             CreateDestination(d, max) \/ \E on \in BOOLEAN : UpdateDestination(d, max, on)
      PROVE  CapHolds'
  <2>1. /\ waived' = waived \cup {d} /\ UNCHANGED requests /\ clicks' = clicks
        /\ \A e \in Dests \ {d} : status'[e] = status[e] /\ limit'[e] = limit[e]
    BY <1>8 DEF CreateDestination, UpdateDestination, Waive, TypeOK
  <2> QED
    BY <2>1, CapFrame DEF requests, Active
<1>9. ASSUME \/ \E d \in Dests : DeleteDestination(d)
             \/ \E on \in BOOLEAN : UpdateLink(on)
             \/ DeleteLink
      PROVE  CapHolds'
  <2>1. /\ waived' = waived /\ UNCHANGED requests /\ clicks' = clicks /\ limit' = limit
        /\ \A e \in Dests : Active(e)' => Active(e)
    BY <1>9 DEF DeleteDestination, UpdateLink, DeleteLink, Active, TypeOK
  <2> QED
    BY <2>1, CapFrame DEF requests
<1>10. CASE Outside
  <2>1. /\ waived' = waived /\ UNCHANGED requests /\ clicks' = clicks /\ limit' = limit
        /\ \A e \in Dests : Active(e)' => Active(e)
    BY <1>10 DEF Outside, StartCooldown, CooldownEnds, Expire, Active, TypeOK, store
  <2> QED
    BY <2>1, CapFrame DEF requests
<1>11. CASE UNCHANGED vars
  BY <1>11, CapFrame DEF vars, store, requests, Active
<1>12. ASSUME NEW r \in Requests, CountClick(r) PROVE CapHolds'
  BY <1>12, CapCountClick
<1> HIDE DEF RInv
<1>13. CASE Admin
  BY <1>8, <1>9, <1>13 DEF Admin
<1>14. ASSUME NEW r \in Requests, Lookup(r) \/ Proceed(r) PROVE CapHolds'
  BY <1>1, <1>2, <1>3, <1>4, <1>5, <1>6, <1>12, <1>14, <1>15, <1>16
     DEF Lookup, Proceed, ReadRoute, ReadRouteTenantUnknown
<1> QED
  BY <1>7, <1>10, <1>11, <1>13, <1>14 DEF Next

-----------------------------------------------------------------------------
\* The copy of the default domain stays justified when every destination newly
\* listed there while it is off, or turned off while listed, is excused or has
\* its tracker at "drop"; excuses last as long as they are needed; and a tracker
\* leaves "drop" only with the copy gone, or excused.
LEMMA FreshFrame ==
  ASSUME TypeOK, TrackerHasDest, DefaultCopyFresh,
         \A d \in cached'[DefaultKey] : status'[d] # "active" =>
            \/ d \in cached[DefaultKey] /\ status[d] # "active"
            \/ d \in excused'
            \/ \E r \in Requests : pc'[r] = "drop" /\ dest'[r] = d,
         \A d \in cached'[DefaultKey] :
            d \in excused /\ status'[d] # "active" => d \in excused',
         \A r \in Requests : pc[r] = "drop" =>
            \/ pc'[r] = "drop" /\ dest'[r] = dest[r]
            \/ dest[r] \notin cached'[DefaultKey]
            \/ status'[dest[r]] = "active"
            \/ dest[r] \in excused'
  PROVE  DefaultCopyFresh'
<1> SUFFICES ASSUME NEW d \in cached'[DefaultKey], status'[d] # "active", d \notin excused',
                    ~\E r \in Requests : pc'[r] = "drop" /\ dest'[r] = d
             PROVE  FALSE
  BY DEF DefaultCopyFresh, Active
<1>1. d \in cached[DefaultKey] /\ status[d] # "active" /\ d \notin excused
  OBVIOUS
<1>2. PICK r \in Requests : pc[r] = "drop" /\ dest[r] = d
  BY <1>1 DEF DefaultCopyFresh, Active
<1> QED
  BY <1>2

\* A step that changes neither the rows' status nor the copy nor the excuses.
LEMMA FreshQuiet ==
  ASSUME TypeOK, TrackerHasDest, DefaultCopyFresh,
         status' = status, cached' = cached, excused' = excused,
         \A r \in Requests : pc[r] = "drop" => pc'[r] = "drop" /\ dest'[r] = dest[r]
  PROVE  DefaultCopyFresh'
  BY FreshFrame

\* A step of a request that is not a tracker at "drop".
LEMMA FreshRequest ==
  ASSUME TypeOK, TrackerHasDest, DefaultCopyFresh, NEW r \in Requests,
         pc[r] # "drop", status' = status, cached' = cached, excused' = excused,
         \A q \in Requests \ {r} : pc'[q] = pc[q] /\ dest'[q] = dest[q]
  PROVE  DefaultCopyFresh'
<1>1. \A q \in Requests : pc[q] = "drop" => pc'[q] = "drop" /\ dest'[q] = dest[q]
  OBVIOUS
<1> QED
  BY <1>1, FreshQuiet

\* What Excuse leaves: an old excuse as long as it is needed, and the new ones.
LEMMA ExcuseLasts ==
  ASSUME NEW S, Excuse(S),
         NEW d \in cached'[DefaultKey], status'[d] # "active", d \in excused \cup S
  PROVE  d \in excused'
  BY DEF Excuse

\* DefaultCopyFresh is preserved by the steps of a request and its tracker.
LEMMA FreshRequestSteps ==
  ASSUME RInv, NEW r \in Requests, Lookup(r) \/ Proceed(r)
  PROVE  DefaultCopyFresh'
<1> USE DEF RInv
<1>1. ASSUME NEW k \in Keys, CacheHit(r, k) \/ CacheMiss(r, k)
      PROVE  DefaultCopyFresh'
  BY <1>1, FreshRequest DEF CacheHit, CacheMiss, Goto, TypeOK, store
<1>2. ASSUME TakeRow(r) \/ NotFound(r) \/ FillFails(r) \/ Decline(r)
      PROVE  DefaultCopyFresh'
  BY <1>2, FreshRequest
     DEF TakeRow, NotFound, FillFails, Decline, Goto, Done, TypeOK, store
<1>3. ASSUME NEW d \in Dests, Redirect(r, d)
      PROVE  DefaultCopyFresh'
  BY <1>3, FreshRequest DEF Redirect, Goto, TypeOK, store
<1>4. ASSUME CountClick(r)
      PROVE  DefaultCopyFresh'
  <2>1. \A q \in Requests \ {r} : pc'[q] = pc[q] /\ dest'[q] = dest[q]
    BY <1>4 DEF CountClick, Goto, Done, TypeOK
  <2> QED
    BY <1>4, <2>1, FreshRequest DEF CountClick
<1>5. ASSUME CountFails(r) \/ DisableFails(r)
      PROVE  DefaultCopyFresh'
  BY <1>5, FreshRequest DEF CountFails, DisableFails, Goto, Done, TypeOK, store
<1>10. ASSUME CountUnanswered(r) PROVE DefaultCopyFresh'
  <2>1. \A q \in Requests \ {r} : pc'[q] = pc[q] /\ dest'[q] = dest[q]
    BY <1>10 DEF CountUnanswered, Goto, Done, TypeOK
  <2> QED
    BY <1>10, <2>1, FreshRequest DEF CountUnanswered
<1>11. ASSUME DisableUnanswered(r) PROVE DefaultCopyFresh'
  <2>1. /\ cached' = cached /\ Excuse({dest[r]})
        /\ \A q \in Requests \ {r} : pc'[q] = pc[q] /\ dest'[q] = dest[q]
        /\ \A d \in Dests \ {dest[r]} : status'[d] = status[d]
        /\ cached[DefaultKey] \subseteq Dests
    BY <1>11, RoutingAssumption DEF DisableUnanswered, Disabled, Done, Goto, TypeOK
  <2> QED
    BY <1>11, <2>1, ExcuseLasts, FreshFrame DEF DisableUnanswered
<1>6. ASSUME FillCache(r) PROVE DefaultCopyFresh'
  <2>1. /\ status' = status /\ Excuse(route[r]) /\ pc[r] = "fill" /\ dest' = dest
        /\ \A q \in Requests \ {r} : pc'[q] = pc[q]
    BY <1>6 DEF FillCache, Goto, TypeOK, store
  <2>2. cached'[DefaultKey] = route[r] \/ cached'[DefaultKey] = cached[DefaultKey]
    BY <1>6, RoutingAssumption DEF FillCache, TypeOK
  <2> QED
    BY <2>1, <2>2, ExcuseLasts, FreshFrame
<1>7. ASSUME DisableDestination(r) PROVE DefaultCopyFresh'
  <2>1. /\ cached' = cached /\ Excuse({}) /\ pc'[r] = "drop" /\ dest' = dest
        /\ \A q \in Requests \ {r} : pc'[q] = pc[q]
        /\ \A d \in Dests \ {dest[r]} : status'[d] = status[d]
        /\ cached[DefaultKey] \subseteq Dests
    BY <1>7, RoutingAssumption DEF DisableDestination, Disabled, Goto, TypeOK
  <2> QED
    BY <1>7, <2>1, ExcuseLasts, FreshFrame DEF DisableDestination
<1>8. ASSUME DropCopy(r) PROVE DefaultCopyFresh'
  <2>1. cached'[DefaultKey] = {}
    BY <1>8, RoutingAssumption DEF DropCopy, TypeOK
  <2> QED
    BY <2>1 DEF DefaultCopyFresh
<1>9. ASSUME DropFails(r) PROVE DefaultCopyFresh'
  <2>1. /\ status' = status /\ cached' = cached /\ Excuse({dest[r]})
        /\ \A q \in Requests \ {r} : pc'[q] = pc[q] /\ dest'[q] = dest[q]
    BY <1>9 DEF DropFails, Done, Goto, TypeOK, store
  <2> QED
    BY <2>1, ExcuseLasts, FreshFrame
<1> HIDE DEF RInv
<1> QED
  BY <1>1, <1>2, <1>3, <1>4, <1>5, <1>6, <1>7, <1>8, <1>9, <1>10, <1>11
     DEF Lookup, Proceed, ReadRoute, ReadRouteTenantUnknown

\* DefaultCopyFresh is preserved by every step.
LEMMA FreshInductive ==
  ASSUME RInv, [Next]_vars
  PROVE  DefaultCopyFresh'
<1> USE DEF RInv
<1>1. ASSUME UNCHANGED <<status, cached, requests, excused>> PROVE DefaultCopyFresh'
  BY <1>1, FreshQuiet DEF requests
\* Rows change under an excuse, the copies of other requests stay.
<1>2. ASSUME NEW S \in SUBSET Dests, Excuse(S), UNCHANGED <<cached, requests>>,
             \A d \in Dests \ S : status'[d] = "active" \/ status'[d] = status[d]
      PROVE  DefaultCopyFresh'
  <2>1. cached[DefaultKey] \subseteq Dests
    BY RoutingAssumption DEF TypeOK
  <2> QED
    BY <1>2, <2>1, ExcuseLasts, FreshFrame DEF requests
<1>3. ASSUME NEW m \in Monitors, Pass(m) PROVE DefaultCopyFresh'
  <2>1. ASSUME NEW d \in Dests, TurnOn(m, d) PROVE DefaultCopyFresh'
    BY <1>2, <2>1 DEF TurnOn, TypeOK
  <2>2. ASSUME MonitorDrops(m) PROVE DefaultCopyFresh'
    <3>1. cached'[DefaultKey] = {}
      BY <2>2, RoutingAssumption DEF MonitorDrops, TypeOK
    <3> QED
      BY <3>1 DEF DefaultCopyFresh
  <2>3. ASSUME ListExpired(m) \/ MonitorDropFails(m) \/ \E d \in Dests : ReactivateFails(m, d)
        PROVE  DefaultCopyFresh'
    BY <1>1, <2>3 DEF ListExpired, MonitorDropFails, ReactivateFails, store
  <2> QED
    BY <1>3, <2>1, <2>2, <2>3 DEF Pass, Reactivate, ReactivateUnanswered
<1>4. ASSUME NEW d \in Dests, NEW max \in Limits \cup {NoLimit}, CreateDestination(d, max)
      PROVE  DefaultCopyFresh'
  <2>1. /\ UNCHANGED <<cached, requests, excused>>
        /\ \A e \in Dests : status'[e] = "active" \/ status'[e] = status[e]
    BY <1>4 DEF CreateDestination, TypeOK
  <2>2. cached[DefaultKey] \subseteq Dests
    BY RoutingAssumption DEF TypeOK
  <2> QED
    BY <2>1, <2>2, FreshFrame DEF requests
<1>5. ASSUME NEW d \in Dests, NEW max \in Limits \cup {NoLimit}, NEW on \in BOOLEAN,
             UpdateDestination(d, max, on)
      PROVE  DefaultCopyFresh'
  BY <1>2, <1>5 DEF UpdateDestination, TypeOK
<1>6. ASSUME NEW d \in Dests, DeleteDestination(d) \/ StartCooldown(d)
      PROVE  DefaultCopyFresh'
  BY <1>2, <1>6 DEF DeleteDestination, StartCooldown, TypeOK
<1>7. ASSUME DeleteLink PROVE DefaultCopyFresh'
  BY <1>2, <1>7 DEF DeleteLink
<1>8. ASSUME (\E on \in BOOLEAN : UpdateLink(on)) \/ (\E d \in Dests : CooldownEnds(d))
             \/ UNCHANGED vars
      PROVE  DefaultCopyFresh'
  BY <1>1, <1>8 DEF UpdateLink, CooldownEnds, vars, store
<1>9. ASSUME NEW k \in Keys, Expire(k) PROVE DefaultCopyFresh'
  <2>1. cached'[DefaultKey] = cached[DefaultKey] \/ cached'[DefaultKey] = {}
    BY <1>9, RoutingAssumption DEF Expire, TypeOK
  <2>2. status' = status /\ Excuse({}) /\ UNCHANGED requests
    BY <1>9 DEF Expire, store
  <2> QED
    BY <2>1, <2>2, ExcuseLasts, FreshFrame DEF requests
<1> HIDE DEF RInv
<1>10. CASE Admin
  BY <1>4, <1>5, <1>6, <1>7, <1>8, <1>10 DEF Admin
<1>11. CASE Outside
  BY <1>6, <1>8, <1>9, <1>11 DEF Outside
<1> QED
  BY <1>3, <1>8, <1>10, <1>11, FreshRequestSteps DEF Next

-----------------------------------------------------------------------------
\* An empty link satisfies the invariant.
LEMMA RInvInit == Init => RInv
<1> SUFFICES ASSUME Init PROVE RInv
  OBVIOUS
<1>1. TypeOK
  <2>1. clicks \in [Dests -> 0..ClickBound]
    BY RoutingAssumption DEF Init
  <2> QED
    BY <2>1, RoutingAssumption DEF Init, TypeOK, Stages
<1>2. TrackerHasDest
  BY DEF Init, TrackerHasDest
<1>3. CapHolds
  BY DEF Init, CapHolds, Active
<1>4. DefaultCopyFresh
  BY RoutingAssumption DEF Init, DefaultCopyFresh
<1> QED
  BY <1>1, <1>2, <1>3, <1>4 DEF RInv

LEMMA RInvInvariant == Spec => []RInv
<1>1. RInv /\ [Next]_vars => RInv'
  BY TypeInductive, TrackerInductive, CapInductive, FreshInductive DEF RInv
<1> QED
  BY RInvInit, <1>1, PTL DEF Spec

\* Rows, copies and processes keep their types.
THEOREM TypeCorrect == Spec => []TypeOK
  BY RInvInvariant, PTL DEF RInv

\* A destination at its click limit is disabled, but for the waived cases.
THEOREM ClickLimit == Spec => []CapHolds
  BY RInvInvariant, PTL DEF RInv

\* The default domain's copy lists no inactive destination, but for the excused.
THEOREM DefaultFresh == Spec => []DefaultCopyFresh
  BY RInvInvariant, PTL DEF RInv

=============================================================================
