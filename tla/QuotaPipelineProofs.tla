------------------------- MODULE QuotaPipelineProofs -------------------------
(***************************************************************************)
(* For any number of workers, plans, months and clicks: the state keeps    *)
(* its types, a tenant is flagged only after some month's usage has        *)
(* reached a quota it has had, and a month over its quota is blocked.      *)
(* The last needs more than it says: no event is from the future, no       *)
(* later month has any usage yet, and the flag lasts until the month ends. *)
(*                                                                         *)
(* That clicks count in their own month (CountedInItsMonth) compares a     *)
(* total with a sum over workers and ticks. No sum is taken: the invariant *)
(* compares sizes of sets of places a click can be in.                     *)
(***************************************************************************)
EXTENDS QuotaPipeline, FiniteSetTheorems, TLAPS

\* Events carry timestamps of the past, so later months have no usage.
NothingAhead ==
    /\ \A t \in Times : t > now => topic[t] = 0
    /\ \A w \in Workers : stamp[w] <= now
    /\ \A m \in Months : m > Month => used[m] = 0

Marking == \E w \in Workers : stage[w] = "mark" /\ MonthOf(stamp[w]) = Month

\* QuotaEnforced, with the flag's expiry spelled out.
FlagLasts ==
    quota > 0 /\ used[Month] >= quota =>
        flag >= MonthStart(Month + 1) \/ waived \/ Marking

QInv == TypeOK /\ NothingAhead /\ quota \in had /\ FlagHasCause /\ FlagLasts

-----------------------------------------------------------------------------
\* Months and ticks: a month ends after each of its ticks, later ticks are in no
\* earlier month, and the time left in a month is positive.
LEMMA MonthOfType == ASSUME NEW t \in Times PROVE MonthOf(t) \in Months
  BY DEF Months

LEMMA MonthBounds ==
  ASSUME NEW t \in Nat
  PROVE  /\ MonthOf(t) \in Nat
         /\ MonthStart(MonthOf(t) + 1) \in Nat
         /\ t < MonthStart(MonthOf(t) + 1)
         /\ MonthStart(MonthOf(t)) <= t
<1> DEFINE L == MonthLength
           k == t \div L
<1>1. L \in Nat /\ L > 0
  BY QuotaAssumption
<1>2. k \in Int /\ k >= 0 /\ t = L * k + (t % L) /\ t % L \in 0..(L - 1)
  BY <1>1
<1>3. (k + 1) * L = L * k + L /\ (k + 1) * L \in Int /\ k * L = L * k
  BY <1>1, <1>2
<1>4. MonthOf(t) = k /\ MonthStart(MonthOf(t) + 1) = (k + 1) * L
      /\ MonthStart(MonthOf(t)) = k * L
  BY DEF MonthOf, MonthStart
<1> HIDE DEF k, L
<1> QED
  BY <1>1, <1>2, <1>3, <1>4

LEMMA MonthsInOrder ==
  ASSUME NEW s \in Nat, NEW t \in Nat, s <= t
  PROVE  MonthOf(s) <= MonthOf(t)
<1> DEFINE j == MonthOf(s)
           k == MonthOf(t)
<1>1. SUFFICES ASSUME j >= k + 1 PROVE FALSE
  BY MonthBounds
<1>2. j \in Nat /\ k \in Nat /\ MonthStart(j) <= s /\ t < MonthStart(k + 1)
  BY MonthBounds
<1>3. MonthStart(k + 1) <= MonthStart(j)
  <2> HIDE DEF j, k
  <2>1. MonthLength \in Nat
    BY QuotaAssumption
  <2>2. PICK i \in Nat : j = (k + 1) + i
    <3>1. j - (k + 1) \in Nat
      BY <1>1, <1>2
    <3> QED
      BY <3>1, <1>2
  <2>3. j * MonthLength = (k + 1) * MonthLength + i * MonthLength
    BY <2>1, <2>2, <1>2
  <2>4. i * MonthLength >= 0 /\ (k + 1) * MonthLength \in Int /\ i * MonthLength \in Int
    BY <2>1, <2>2, <1>2
  <2> QED
    BY <2>3, <2>4 DEF MonthStart
<1>4. MonthStart(j) \in Int /\ MonthStart(k + 1) \in Int
  <2> HIDE DEF j, k
  <2> QED
    BY <1>2, QuotaAssumption DEF MonthStart
<1> HIDE DEF j, k
<1> QED
  BY <1>2, <1>3, <1>4

\* The flag an event of time t sets outlives the month of t, processed when it may be.
LEMMA FlagOutlives ==
  ASSUME NEW t \in Times, NEW n \in Times, t <= n
  PROVE  /\ n + UntilNextMonth(t) \in Nat
         /\ n + UntilNextMonth(t) >= MonthStart(MonthOf(t) + 1)
  BY MonthBounds DEF Times, UntilNextMonth

-----------------------------------------------------------------------------
\* The typing.
LEMMA TypeInductive ==
  ASSUME TypeOK, [Next]_vars
  PROVE  TypeOK'
<1> USE QuotaAssumption DEF TypeOK
<1>1. ASSUME NEW t \in Times, Issue(t)
      PROVE  topic' \in [Times -> Nat] /\ issued' \in [Months -> Nat]
  BY <1>1, MonthOfType DEF Issue
<1>2. ASSUME NEW w \in Workers, Finish(w)
      PROVE  /\ stage' \in [Workers -> {"idle", "count", "mark"}]
             /\ stamp' \in [Workers -> Times]
  BY <1>2 DEF Finish, Times
<1>3. CASE Click
  BY <1>1, <1>3 DEF Click
<1>4. ASSUME NEW w \in Workers, NEW t \in Times, Fetch(w, t) PROVE TypeOK'
  BY <1>4 DEF Fetch
<1>5. ASSUME NEW w \in Workers, CountUsage(w) PROVE TypeOK'
  <2>1. used' \in [Months -> Nat]
    BY <1>5, MonthOfType DEF CountUsage, UsageMonth
  <2>2. /\ stage' \in [Workers -> {"idle", "count", "mark"}]
        /\ stamp' \in [Workers -> Times]
    BY <1>2, <1>5 DEF CountUsage
  <2>3. waived' \in BOOLEAN
    BY <1>5 DEF CountUsage
  <2> QED
    BY <1>5, <2>1, <2>2, <2>3 DEF CountUsage
<1>13. ASSUME NEW w \in Workers, CountUnanswered(w) PROVE TypeOK'
  <2>1. used' \in [Months -> Nat]
    BY <1>13, MonthOfType DEF CountUnanswered, UsageMonth
  <2> QED
    BY <1>2, <1>13, <2>1 DEF CountUnanswered
<1>6. ASSUME NEW w \in Workers, CountFails(w) PROVE TypeOK'
  BY <1>2, <1>6 DEF CountFails
<1>7. ASSUME NEW w \in Workers, MarkOverQuota(w) PROVE TypeOK'
  <2>1. flag' \in Nat
    <3>1. stamp[w] \in Nat
      BY DEF Times
    <3>2. UntilNextMonth(stamp[w]) \in Nat
      BY <3>1, MonthBounds DEF UntilNextMonth
    <3> QED
      BY <1>7, <3>2 DEF MarkOverQuota, Times
  <2>2. waived' \in BOOLEAN
    BY <1>7 DEF MarkOverQuota
  <2> QED
    BY <1>2, <1>7, <2>1, <2>2 DEF MarkOverQuota
<1>8. ASSUME NEW w \in Workers, MarkFails(w) PROVE TypeOK'
  BY <1>2, <1>8 DEF MarkFails
<1>9. ASSUME NEW w \in Workers, Crash(w) PROVE TypeOK'
  <2>1. waived' \in BOOLEAN
    BY <1>9 DEF Crash
  <2>2. topic' \in [Times -> Nat] /\ issued' \in [Months -> Nat]
    BY <1>1, <1>9 DEF Crash
  <2> QED
    BY <1>2, <1>9, <2>1, <2>2 DEF Crash
<1>10. CASE Billing
  <2>1. ASSUME NEW q \in Quotas, SetQuota(q)
        PROVE  quota' \in Quotas /\ had' \subseteq Quotas /\ waived' \in BOOLEAN
    BY <2>1 DEF SetQuota
  <2>2. ASSUME NEW q \in Quotas, SubscribeUpdates(q) PROVE TypeOK'
    BY <2>1, <2>2 DEF SubscribeUpdates
  <2>3. CASE SubscribeClears
    BY <2>3 DEF SubscribeClears
  <2>4. CASE SubscribeClearFails
    BY <2>4 DEF SubscribeClearFails
  <2>5. CASE ChargePaid
    BY <2>5 DEF ChargePaid
  <2>6. CASE RevertToFreePlan
    BY <2>1, <2>6 DEF RevertToFreePlan
  <2> QED
    BY <1>10, <2>2, <2>3, <2>4, <2>5, <2>6 DEF Billing
<1>11. CASE Tick
  BY <1>11 DEF Tick, Times
<1>12. CASE UNCHANGED vars
  BY <1>12 DEF vars
<1> HIDE DEF TypeOK
<1> QED
  BY <1>3, <1>4, <1>5, <1>6, <1>7, <1>8, <1>9, <1>10, <1>11, <1>12, <1>13
     DEF Next, Work

-----------------------------------------------------------------------------
\* No event from the future.
LEMMA NothingAheadInductive ==
  ASSUME TypeOK, NothingAhead, [Next]_vars
  PROVE  NothingAhead'
<1> USE DEF NothingAhead, Month
<1>0. \A w \in Workers : now \in Nat /\ stamp[w] \in Times /\ MonthOf(stamp[w]) <= MonthOf(now)
  BY MonthsInOrder DEF TypeOK, Times
<1>1. ASSUME NEW w \in Workers, Finish(w), UNCHANGED now
      PROVE  \A v \in Workers : stamp'[v] <= now'
  BY <1>0, <1>1 DEF Finish, TypeOK
<1>2. ASSUME NEW t \in Times, t <= now, Issue(t)
      PROVE  \A s \in Times : s > now => topic'[s] = 0
  BY <1>2 DEF Issue, TypeOK, Times
<1>3. CASE Click
  BY <1>2, <1>3 DEF Click, TypeOK, Times
<1>4. ASSUME NEW w \in Workers, NEW t \in Times, Fetch(w, t) PROVE NothingAhead'
  <2>1. t <= now
    BY <1>4 DEF Fetch, TypeOK, Times
  <2> QED
    BY <1>4, <2>1 DEF Fetch, TypeOK, Times
<1>5. ASSUME NEW w \in Workers, CountUsage(w) \/ CountUnanswered(w) PROVE NothingAhead'
  <2>1. \A v \in Workers : stamp'[v] <= now'
    BY <1>1, <1>5 DEF CountUsage, CountUnanswered
  <2>2. \A m \in Months : m > Month => used'[m] = 0
    <3>1. ASSUME NEW m \in Months, m > Month PROVE m # MonthOf(stamp[w])
      <4>1. MonthOf(stamp[w]) \in Nat /\ MonthOf(now) \in Nat /\ m \in Nat
        BY <1>0, MonthBounds DEF Months, Times
      <4> QED
        BY <1>0, <3>1, <4>1
    <3> QED
      BY <1>5, <3>1 DEF CountUsage, CountUnanswered, UsageMonth, TypeOK
  <2> QED
    BY <1>5, <2>1, <2>2 DEF CountUsage, CountUnanswered
<1>6. ASSUME NEW w \in Workers, CountFails(w) \/ MarkOverQuota(w) \/ MarkFails(w)
      PROVE  NothingAhead'
  BY <1>1, <1>6 DEF CountFails, MarkOverQuota, MarkFails
<1>7. ASSUME NEW w \in Workers, Crash(w) PROVE NothingAhead'
  BY <1>0, <1>1, <1>2, <1>7 DEF Crash
<1>8. CASE Tick
  <2>0. now \in Nat /\ now' \in Nat /\ now <= now'
    BY <1>8 DEF Tick, TypeOK, Times
  <2>1. MonthOf(now) <= MonthOf(now') /\ MonthOf(now) \in Nat /\ MonthOf(now') \in Nat
    BY <2>0, MonthsInOrder, MonthBounds
  <2>2. ASSUME NEW m \in Months, m > MonthOf(now') PROVE m > MonthOf(now)
    <3>1. m \in Nat
      BY MonthBounds DEF Months, Times
    <3> QED
      BY <2>1, <2>2, <3>1
  <2> QED
    BY <1>8, <2>2 DEF Tick, TypeOK, Times
<1>9. CASE Billing \/ UNCHANGED vars
  BY <1>9 DEF Billing, SubscribeUpdates, SubscribeClears, SubscribeClearFails, ChargePaid,
     RevertToFreePlan, vars
<1> HIDE DEF NothingAhead
<1> QED
  BY <1>3, <1>4, <1>5, <1>6, <1>7, <1>8, <1>9 DEF Next, Work

-----------------------------------------------------------------------------
\* The tenant's quota is one it has had, and a flag has its cause: usage and the
\* quotas it has had only grow, and a worker marks on reaching the current one.
LEMMA CauseInductive ==
  ASSUME TypeOK, quota \in had, FlagHasCause, [Next]_vars
  PROVE  (quota \in had)' /\ FlagHasCause'
<1> DEFINE Cause == \E m \in Months, q \in had : used[m] >= q
<1>1. ASSUME had \subseteq had', \A m \in Months : used'[m] >= used[m],
             flag' # 0 => flag # 0 \/ \E w \in Workers : stage[w] = "mark",
             \A w \in Workers : stage'[w] = "mark" => stage[w] = "mark"
      PROVE  FlagHasCause'
  <2>1. ASSUME Cause PROVE Cause'
    <3>1. PICK m \in Months, q \in had : used[m] >= q
      BY <2>1
    <3>2. used[m] \in Int /\ used'[m] \in Int /\ q \in Int
      BY TypeInductive, QuotaAssumption DEF TypeOK
    <3> QED
      BY <1>1, <3>1, <3>2
  <2> QED
    BY <1>1, <2>1 DEF FlagHasCause
<1>2. ASSUME used' = used, had' = had, quota' = quota, flag' = flag,
             \A w \in Workers : stage'[w] = "mark" => stage[w] = "mark"
      PROVE  (quota \in had)' /\ FlagHasCause'
  BY <1>1, <1>2 DEF TypeOK
<1>3. ASSUME NEW w \in Workers, CountUsage(w)
      PROVE  (quota \in had)' /\ FlagHasCause'
  <2> DEFINE m == MonthOf(stamp[w])
  <2>1. m \in Months /\ used'[m] = used[m] + 1 /\ quota' = quota /\ had' = had /\ flag' = flag
        /\ \A k \in Months : used'[k] >= used[k]
    BY <1>3, MonthOfType DEF CountUsage, UsageMonth, TypeOK
  <2>2. CASE OverQuota(used[m] + 1)
    BY <2>1, <2>2 DEF OverQuota, FlagHasCause
  <2>3. CASE ~OverQuota(used[m] + 1)
    <3>1. \A v \in Workers : stage'[v] = "mark" => stage[v] = "mark"
      BY <1>3, <2>3 DEF CountUsage, UsageMonth, Finish, TypeOK
    <3> QED
      BY <1>1, <2>1, <3>1
  <2> QED
    BY <2>2, <2>3
<1>8. ASSUME NEW w \in Workers, CountUnanswered(w)
      PROVE  (quota \in had)' /\ FlagHasCause'
  <2>1. \A k \in Months : used'[k] >= used[k]
    BY <1>8, MonthOfType DEF CountUnanswered, UsageMonth, TypeOK
  <2> QED
    BY <1>1, <1>8, <2>1 DEF CountUnanswered, Finish, TypeOK
<1>4. ASSUME NEW w \in Workers, MarkOverQuota(w)
      PROVE  (quota \in had)' /\ FlagHasCause'
  BY <1>1, <1>4 DEF MarkOverQuota, Finish, TypeOK
<1>5. ASSUME NEW w \in Workers,
             CountFails(w) \/ MarkFails(w) \/ Crash(w) \/ \E t \in Times : Fetch(w, t)
      PROVE  (quota \in had)' /\ FlagHasCause'
  BY <1>2, <1>5 DEF CountFails, MarkFails, Crash, Fetch, Finish, TypeOK
<1>6. CASE Click \/ Tick \/ UNCHANGED vars
  BY <1>2, <1>6 DEF Click, Tick, vars
<1>7. CASE Billing
  <2>1. /\ (quota \in had)' /\ had \subseteq had' /\ used' = used /\ stage' = stage
        /\ flag' # 0 => flag' = flag
    BY <1>7 DEF Billing, SubscribeUpdates, SubscribeClears, SubscribeClearFails, ChargePaid,
       RevertToFreePlan, SetQuota
  <2>2. \A m \in Months : used'[m] >= used[m]
    BY <2>1 DEF TypeOK
  <2> QED
    BY <1>1, <2>1, <2>2
<1> HIDE DEF Cause
<1> QED
  BY <1>3, <1>4, <1>5, <1>6, <1>7, <1>8 DEF Next, Work

-----------------------------------------------------------------------------
\* The month's overrun keeps its flag: the click that reaches the quota leaves a
\* worker marking, the mark outlives the month, and a new month begins unused.
LEMMA FlagLastsInductive ==
  ASSUME QInv, [Next]_vars, TypeOK', NothingAhead'
  PROVE  FlagLasts'
<1> USE DEF QInv
<1>1. Month \in Months /\ now \in Nat /\ MonthStart(Month + 1) \in Nat
      /\ \A w \in Workers : stamp[w] \in Times /\ MonthOf(stamp[w]) \in Months
  <2>1. now \in Times /\ now \in Nat /\ \A w \in Workers : stamp[w] \in Times
    BY DEF TypeOK, Times
  <2> QED
    BY <2>1, MonthOfType, MonthBounds DEF Month
<1>2. ASSUME UNCHANGED <<now, used, quota, flag, waived>>,
             \A w \in Workers : stage[w] = "mark" =>
                 stage'[w] = "mark" /\ stamp'[w] = stamp[w]
      PROVE  FlagLasts'
  BY <1>2 DEF FlagLasts, Marking, Month
<1>3. ASSUME NEW w \in Workers, CountUsage(w) PROVE FlagLasts'
  <2> DEFINE m == MonthOf(stamp[w])
  <2>1. UNCHANGED <<now, quota, flag>> /\ m \in Months /\ stage[w] = "count"
        /\ used' = [used EXCEPT ![m] = @ + 1] /\ waived' = (waived /\ m # Month)
    BY <1>1, <1>3 DEF CountUsage, UsageMonth
  <2>2. ASSUME NEW v \in Workers, stage[v] = "mark"
        PROVE  stage'[v] = "mark" /\ stamp'[v] = stamp[v]
    BY <1>3, <2>1, <2>2 DEF CountUsage, Finish, TypeOK
  <2>3. CASE m # Month
    <3>1. used'[Month] = used[Month] /\ waived' = waived
      BY <1>1, <2>1, <2>3 DEF TypeOK
    <3> QED
      BY <2>1, <2>2, <3>1 DEF FlagLasts, Marking, Month
  <2>4. CASE m = Month /\ OverQuota(used[m] + 1)
    <3>1. stage'[w] = "mark" /\ stamp'[w] = stamp[w]
      BY <1>3, <2>4 DEF CountUsage, UsageMonth, TypeOK
    <3> QED
      BY <2>1, <2>4, <3>1 DEF FlagLasts, Marking, Month
  <2>5. CASE m = Month /\ ~OverQuota(used[m] + 1)
    <3>1. used'[Month] = used[m] + 1
      BY <1>1, <2>1, <2>5 DEF TypeOK
    <3>2. ~(quota' > 0 /\ used'[Month] >= quota')
      BY <2>1, <2>5, <3>1 DEF OverQuota
    <3> QED
      BY <2>1, <3>2 DEF FlagLasts, Month
  <2> QED
    BY <2>3, <2>4, <2>5
<1>4. ASSUME NEW w \in Workers, MarkOverQuota(w) PROVE FlagLasts'
  <2>1. UNCHANGED now /\ waived' = (waived \/ MonthOf(stamp[w]) # Month)
        /\ flag' = now + UntilNextMonth(stamp[w])
    BY <1>4 DEF MarkOverQuota
  <2>2. CASE MonthOf(stamp[w]) # Month
    BY <2>1, <2>2 DEF FlagLasts
  <2>3. CASE MonthOf(stamp[w]) = Month
    <3>1. stamp[w] \in Times /\ now \in Times /\ stamp[w] <= now
      BY DEF TypeOK, NothingAhead
    <3>2. flag' >= MonthStart(Month + 1)
      BY <2>1, <2>3, <3>1, FlagOutlives
    <3> QED
      BY <2>1, <3>2 DEF FlagLasts, Month
  <2> QED
    BY <2>2, <2>3
<1>5. ASSUME NEW w \in Workers, MarkFails(w) \/ CountUnanswered(w) PROVE FlagLasts'
  BY <1>5 DEF MarkFails, CountUnanswered, FlagLasts
<1>6. ASSUME NEW w \in Workers, CountFails(w) PROVE FlagLasts'
  <2>1. \A v \in Workers : stage[v] = "mark" => stage'[v] = "mark" /\ stamp'[v] = stamp[v]
    BY <1>6 DEF CountFails, Finish, TypeOK
  <2> QED
    BY <1>2, <1>6, <2>1 DEF CountFails
<1>7. ASSUME NEW w \in Workers, Crash(w) PROVE FlagLasts'
  <2>1. CASE stage[w] = "mark"
    BY <1>7, <2>1 DEF Crash, FlagLasts
  <2>2. CASE stage[w] # "mark"
    <3>1. \A v \in Workers : stage[v] = "mark" => stage'[v] = "mark" /\ stamp'[v] = stamp[v]
      BY <1>7, <2>2 DEF Crash, Finish, TypeOK
    <3>2. waived' = waived
      BY <1>7, <2>2 DEF Crash, TypeOK
    <3> QED
      BY <1>2, <1>7, <3>1, <3>2 DEF Crash
  <2> QED
    BY <2>1, <2>2
<1>8. ASSUME NEW w \in Workers, NEW t \in Times, Fetch(w, t) PROVE FlagLasts'
  <2>1. \A v \in Workers : stage[v] = "mark" => stage'[v] = "mark" /\ stamp'[v] = stamp[v]
    BY <1>8 DEF Fetch, TypeOK
  <2> QED
    BY <1>2, <1>8, <2>1 DEF Fetch
<1>9. CASE Tick
  <2>1. UNCHANGED <<used, quota, flag, stage, stamp, waived>> /\ now' = now + 1
        /\ now' \in Times
    BY <1>9 DEF Tick, TypeOK
  <2>2. CASE Month' = Month
    BY <2>1, <2>2 DEF FlagLasts, Marking
  <2>3. CASE Month' # Month
    <3>1. MonthOf(now') \in Months /\ MonthOf(now) \in Nat /\ MonthOf(now') \in Nat
          /\ MonthOf(now) <= MonthOf(now')
      <4>1. now \in Nat /\ now' \in Nat /\ now <= now'
        BY <2>1 DEF TypeOK, Times
      <4> QED
        BY <2>1, <4>1, MonthOfType, MonthBounds, MonthsInOrder
    <3>2. used[MonthOf(now')] = 0
      BY <2>3, <3>1 DEF Month, NothingAhead
    <3>3. quota \in Int
      BY QuotaAssumption DEF TypeOK
    <3>4. ~(quota' > 0 /\ used'[Month'] >= quota')
      BY <2>1, <3>2, <3>3 DEF Month
    <3> QED
      BY <3>4 DEF FlagLasts
  <2> QED
    BY <2>2, <2>3
<1>10. CASE Billing
  <2>1. CASE SubscribeClearFails
    BY <1>2, <2>1 DEF SubscribeClearFails
  <2>2. CASE waived'
    BY <2>2 DEF FlagLasts
  <2> QED
    BY <1>10, <2>1, <2>2 DEF Billing, SubscribeUpdates, SubscribeClears, ChargePaid,
       RevertToFreePlan, SetQuota
<1>11. CASE Click \/ UNCHANGED vars
  BY <1>2, <1>11 DEF Click, vars
<1> QED
  BY <1>3, <1>4, <1>5, <1>6, <1>7, <1>8, <1>9, <1>10, <1>11 DEF Next, Work

-----------------------------------------------------------------------------
LEMMA QInit == ASSUME Init PROVE QInv
<1> USE QuotaAssumption DEF Init
<1>1. TypeOK
  <2>1. now \in Times /\ 0 \in Times
    BY DEF Times
  <2>2. topic \in [Times -> Nat] /\ used \in [Months -> Nat] /\ issued \in [Months -> Nat]
    OBVIOUS
  <2>3. quota \in Quotas /\ flag \in Nat /\ had \subseteq Quotas
    OBVIOUS
  <2>4. /\ stage \in [Workers -> {"idle", "count", "mark"}]
        /\ stamp \in [Workers -> Times]
    BY <2>1
  <2>5. subscribing \in BOOLEAN /\ waived \in BOOLEAN
    OBVIOUS
  <2> QED
    BY <2>1, <2>2, <2>3, <2>4, <2>5 DEF TypeOK
<1>2. now \in Nat /\ Month \in Months
  BY MonthOfType DEF Month, Times
<1>3. NothingAhead
  BY DEF NothingAhead
<1>4. quota \in had /\ FlagHasCause
  BY DEF FlagHasCause
<1>5. FlagLasts
  BY <1>2 DEF FlagLasts
<1> QED
  BY <1>1, <1>3, <1>4, <1>5 DEF QInv

LEMMA QInvInvariant == Spec => []QInv
<1>1. Init => QInv
  BY QInit
<1>2. QInv /\ [Next]_vars => QInv'
  BY TypeInductive, NothingAheadInductive, CauseInductive, FlagLastsInductive DEF QInv
<1> QED
  BY <1>1, <1>2, PTL DEF Spec

\* Usage, flag and clock keep their types, whatever crashes or fails.
THEOREM TypeCorrect == Spec => []TypeOK
<1>1. QInv => TypeOK
  BY DEF QInv
<1> QED
  BY <1>1, QInvInvariant, PTL

\* analytics-worker flags a tenant only when a month's usage has reached a quota
\* the tenant has had: no sequence of crashes, redeliveries, late events and plan
\* changes makes it block a tenant that never used up any plan.
THEOREM Cause == Spec => []FlagHasCause
<1>1. QInv => FlagHasCause
  BY DEF QInv
<1> QED
  BY <1>1, QInvInvariant, PTL

\* A tenant over its month's quota is blocked until the month ends, outside the
\* exceptions QuotaEnforced names.
THEOREM Enforced == Spec => []QuotaEnforced
<1>1. ASSUME QInv PROVE QuotaEnforced
  <2>1. now \in Nat /\ flag \in Nat
    BY <1>1 DEF QInv, TypeOK, Times
  <2>2. MonthStart(Month + 1) \in Nat /\ now < MonthStart(Month + 1)
    BY <2>1, MonthBounds DEF Month
  <2>3. ASSUME flag >= MonthStart(Month + 1) PROVE Blocked
    BY <2>1, <2>2, <2>3 DEF Blocked
  <2> QED
    BY <1>1, <2>3 DEF QInv, FlagLasts, QuotaEnforced, Marking
<1> QED
  BY <1>1, QInvInvariant, PTL

-----------------------------------------------------------------------------
\* The events of a month that are not fetched yet, one pair for each: a sum over
\* the month's timestamps, as the size of a set.
Waiting(m) == {e \in Times \X Nat : MonthOf(e[1]) = m /\ e[2] \in 1..topic[e[1]]}

\* The workers that are about to count a click of a month.
Counting(m) == {w \in Workers : stage[w] = "count" /\ MonthOf(stamp[w]) = m}

\* Each delivery is waiting, with one worker, counted once or lost.
Accounted(m) ==
    /\ IsFiniteSet(Waiting(m))
    /\ used[m] + Cardinality(Waiting(m)) + Cardinality(Counting(m)) <= issued[m]

AInv == TypeOK /\ \A m \in Months : Accounted(m)

LEMMA Sizes ==
  ASSUME TypeOK, NEW m \in Months, Accounted(m)
  PROVE  /\ used[m] \in Nat /\ issued[m] \in Nat
         /\ IsFiniteSet(Counting(m)) /\ Cardinality(Counting(m)) \in Nat
         /\ Cardinality(Waiting(m)) \in Nat
<1>1. used[m] \in Nat /\ issued[m] \in Nat
  BY DEF TypeOK
<1>2. Counting(m) \subseteq Workers
  BY DEF Counting
<1> QED
  BY <1>1, <1>2, QuotaAssumption, FS_Subset, FS_CardinalityType DEF Accounted

\* An event is issued into its month, and into no other.
LEMMA WaitingAfterIssue ==
  ASSUME TypeOK, NEW t \in Times, Issue(t), NEW m \in Months, Accounted(m)
  PROVE  IF m = MonthOf(t)
         THEN /\ issued'[m] = issued[m] + 1
              /\ IsFiniteSet(Waiting(m)')
              /\ Cardinality(Waiting(m)') = Cardinality(Waiting(m)) + 1
         ELSE issued'[m] = issued[m] /\ Waiting(m)' = Waiting(m)
<1> DEFINE e == <<t, topic[t] + 1>>
<1>1. /\ topic \in [Times -> Nat] /\ topic' = [topic EXCEPT ![t] = @ + 1]
      /\ issued \in [Months -> Nat] /\ issued' = [issued EXCEPT ![MonthOf(t)] = @ + 1]
  BY DEF TypeOK, Issue
<1>2. CASE m = MonthOf(t)
  <2>1. Waiting(m)' = Waiting(m) \cup {e} /\ e \notin Waiting(m)
    BY <1>1, <1>2 DEF Waiting
  <2> QED
    BY <1>1, <1>2, <2>1, FS_AddElement DEF Accounted
<1>3. CASE m # MonthOf(t)
  <2>1. Waiting(m)' = Waiting(m)
    BY <1>1, <1>3 DEF Waiting
  <2> QED
    BY <1>1, <1>3, <2>1
<1> QED BY <1>2, <1>3

\* A worker that is done with its event counts for no month.
LEMMA CountingAfterFinish ==
  ASSUME TypeOK, NEW w \in Workers, stage[w] # "idle",
         stage' = [stage EXCEPT ![w] = "idle"] \/ stage' = [stage EXCEPT ![w] = "mark"],
         stamp' = stamp \/ stamp' = [stamp EXCEPT ![w] = 0],
         NEW m \in Months, Accounted(m)
  PROVE  /\ Cardinality(Counting(m)') \in Nat
         /\ IF stage[w] = "count" /\ m = MonthOf(stamp[w])
            THEN Cardinality(Counting(m)') = Cardinality(Counting(m)) - 1
            ELSE Cardinality(Counting(m)') = Cardinality(Counting(m))
<1>1. Counting(m)' = Counting(m) \ {w}
  BY DEF TypeOK, Counting
<1>2. w \in Counting(m) <=> stage[w] = "count" /\ m = MonthOf(stamp[w])
  BY DEF Counting
<1> QED
  BY <1>1, <1>2, Sizes, FS_RemoveElement, FS_CardinalityType

LEMMA AccountedInductive ==
  ASSUME AInv, [Next]_vars
  PROVE  AInv'
<1> SUFFICES ASSUME NEW m \in Months PROVE Accounted(m)'
  BY TypeInductive DEF AInv
<1> USE DEF AInv
<1>0. /\ Accounted(m) /\ used[m] \in Nat /\ issued[m] \in Nat
      /\ IsFiniteSet(Counting(m)) /\ Cardinality(Counting(m)) \in Nat
      /\ IsFiniteSet(Waiting(m)) /\ Cardinality(Waiting(m)) \in Nat
  BY Sizes DEF Accounted
\* Neither the topic nor the worker's event: nothing to show.
<1>1. ASSUME UNCHANGED <<topic, used, stage, stamp, issued>> PROVE Accounted(m)'
  <2>1. Waiting(m)' = Waiting(m) /\ Counting(m)' = Counting(m)
    BY <1>1 DEF Waiting, Counting
  <2> QED
    BY <1>0, <1>1, <2>1 DEF Accounted
\* Billing and clocks touch none of it.
<1>2. ASSUME Billing \/ Tick \/ UNCHANGED vars PROVE Accounted(m)'
  <2>1. UNCHANGED <<topic, used, stage, stamp, issued>>
    BY <1>2 DEF Billing, Tick, SubscribeUpdates, SubscribeClears, SubscribeClearFails,
       ChargePaid, RevertToFreePlan, vars
  <2> QED BY <1>1, <2>1
<1>3. ASSUME Click PROVE Accounted(m)'
  <2>1. now \in Times /\ Issue(now) /\ UNCHANGED <<used, stage, stamp>>
    BY <1>3 DEF Click, TypeOK
  <2>2. Counting(m)' = Counting(m)
    BY <2>1 DEF Counting
  <2>3. CASE m = MonthOf(now)
    BY <1>0, <2>1, <2>2, <2>3, WaitingAfterIssue DEF Accounted
  <2>4. CASE m # MonthOf(now)
    BY <1>0, <2>1, <2>2, <2>4, WaitingAfterIssue DEF Accounted
  <2> QED BY <2>3, <2>4
\* The event goes from the topic to the worker.
<1>4. ASSUME NEW w \in Workers, NEW t \in Times, Fetch(w, t) PROVE Accounted(m)'
  <2> DEFINE e == <<t, topic[t]>>
  <2>1. /\ topic \in [Times -> Nat] /\ topic[t] > 0 /\ stage[w] = "idle"
        /\ topic' = [topic EXCEPT ![t] = @ - 1] /\ UNCHANGED <<used, issued>>
    BY <1>4 DEF TypeOK, Fetch
  <2>2. CASE m = MonthOf(t)
    <3>1. Waiting(m)' = Waiting(m) \ {e} /\ e \in Waiting(m)
      BY <2>1, <2>2 DEF Waiting
    <3>2. Counting(m)' = Counting(m) \cup {w} /\ w \notin Counting(m)
      BY <1>4, <2>2 DEF Counting, Fetch, TypeOK
    <3>3. /\ IsFiniteSet(Waiting(m)')
          /\ Cardinality(Waiting(m)') = Cardinality(Waiting(m)) - 1
      <4> HIDE DEF e
      <4> QED BY <1>0, <3>1, FS_RemoveElement
    <3>4. Cardinality(Counting(m)') = Cardinality(Counting(m)) + 1
      BY <1>0, <3>2, FS_AddElement
    <3> QED
      BY <1>0, <2>1, <3>3, <3>4 DEF Accounted
  <2>3. CASE m # MonthOf(t)
    <3>1. Waiting(m)' = Waiting(m)
      BY <2>1, <2>3 DEF Waiting
    <3>2. Counting(m)' = Counting(m)
      BY <1>4, <2>3 DEF Counting, Fetch, TypeOK
    <3> QED
      BY <1>0, <2>1, <3>1, <3>2 DEF Accounted
  <2> QED BY <2>2, <2>3
\* One worker less counts the month; only the event's own month gains a click.
<1>5. ASSUME NEW w \in Workers, CountUsage(w) \/ CountUnanswered(w) PROVE Accounted(m)'
  <2>1. /\ stage[w] = "count" /\ UNCHANGED <<topic, issued>>
        /\ used' = [used EXCEPT ![MonthOf(stamp[w])] = @ + 1]
        /\ stage' = [stage EXCEPT ![w] = "idle"] \/ stage' = [stage EXCEPT ![w] = "mark"]
        /\ stamp' = stamp \/ stamp' = [stamp EXCEPT ![w] = 0]
    BY <1>5 DEF CountUsage, CountUnanswered, UsageMonth, Finish
  <2>2. Waiting(m)' = Waiting(m)
    BY <2>1 DEF Waiting
  <2>3. CASE m = MonthOf(stamp[w])
    <3>1. Cardinality(Counting(m)') = Cardinality(Counting(m)) - 1
      BY <1>0, <2>1, <2>3, CountingAfterFinish
    <3>2. used'[m] = used[m] + 1
      BY <2>1, <2>3 DEF TypeOK
    <3> QED
      BY <1>0, <2>1, <2>2, <3>1, <3>2 DEF Accounted
  <2>4. CASE m # MonthOf(stamp[w])
    <3>1. Cardinality(Counting(m)') = Cardinality(Counting(m))
      BY <1>0, <2>1, <2>4, CountingAfterFinish
    <3>2. used'[m] = used[m]
      BY <2>1, <2>4 DEF TypeOK
    <3> QED
      BY <1>0, <2>1, <2>2, <3>1, <3>2 DEF Accounted
  <2> QED BY <2>3, <2>4
<1>6. ASSUME NEW w \in Workers, CountFails(w) \/ MarkOverQuota(w) \/ MarkFails(w)
      PROVE  Accounted(m)'
  <2>1. stage[w] # "idle" /\ Finish(w) /\ UNCHANGED <<topic, used, issued>>
    BY <1>6 DEF CountFails, MarkOverQuota, MarkFails
  <2>2. Waiting(m)' = Waiting(m)
    BY <2>1 DEF Waiting
  <2>3. /\ Cardinality(Counting(m)') \in Nat
        /\ Cardinality(Counting(m)') <= Cardinality(Counting(m))
    <3>1. /\ stage' = [stage EXCEPT ![w] = "idle"] \/ stage' = [stage EXCEPT ![w] = "mark"]
          /\ stamp' = stamp \/ stamp' = [stamp EXCEPT ![w] = 0]
      BY <2>1 DEF Finish
    <3>2. /\ Cardinality(Counting(m)') \in Nat
          /\ \/ Cardinality(Counting(m)') = Cardinality(Counting(m))
             \/ Cardinality(Counting(m)') = Cardinality(Counting(m)) - 1
      BY <1>0, <2>1, <3>1, CountingAfterFinish
    <3> QED BY <1>0, <3>2
  <2> QED
    BY <1>0, <2>1, <2>2, <2>3 DEF Accounted
\* An event that is delivered again is issued again.
<1>7. ASSUME NEW w \in Workers, Crash(w) PROVE Accounted(m)'
  <2>1. stage[w] # "idle" /\ Finish(w) /\ UNCHANGED used /\ stamp[w] \in Times
    BY <1>7 DEF Crash, TypeOK
  <2>2. /\ Cardinality(Counting(m)') \in Nat
        /\ Cardinality(Counting(m)') <= Cardinality(Counting(m))
    <3>1. /\ stage' = [stage EXCEPT ![w] = "idle"] \/ stage' = [stage EXCEPT ![w] = "mark"]
          /\ stamp' = stamp \/ stamp' = [stamp EXCEPT ![w] = 0]
      BY <2>1 DEF Finish
    <3>2. /\ Cardinality(Counting(m)') \in Nat
          /\ \/ Cardinality(Counting(m)') = Cardinality(Counting(m))
             \/ Cardinality(Counting(m)') = Cardinality(Counting(m)) - 1
      BY <1>0, <2>1, <3>1, CountingAfterFinish
    <3> QED BY <1>0, <3>2
  <2>3. CASE Issue(stamp[w])
    <3>1. CASE m = MonthOf(stamp[w])
      BY <1>0, <2>1, <2>2, <2>3, <3>1, WaitingAfterIssue DEF Accounted
    <3>2. CASE m # MonthOf(stamp[w])
      BY <1>0, <2>1, <2>2, <2>3, <3>2, WaitingAfterIssue DEF Accounted
    <3> QED BY <3>1, <3>2
  <2>4. CASE UNCHANGED <<topic, issued>>
    <3>1. Waiting(m)' = Waiting(m)
      BY <2>4 DEF Waiting
    <3> QED
      BY <1>0, <2>1, <2>2, <2>4, <3>1 DEF Accounted
  <2> QED BY <1>7, <2>3, <2>4 DEF Crash
<1> QED
  BY <1>2, <1>3, <1>4, <1>5, <1>6, <1>7 DEF Next, Work

\* A click is counted in the month it was made in and no delivery of it twice:
\* whatever is late, lost, crashed or delivered again, a month's usage never
\* exceeds the deliveries of its own clicks.
THEOREM InItsMonth == Spec => []CountedInItsMonth
<1>1. Init => AInv
  <2> SUFFICES ASSUME Init, NEW m \in Months PROVE Accounted(m)
    BY QInit DEF AInv, QInv
  <2>1. Waiting(m) = {} /\ Counting(m) = {} /\ used[m] = 0 /\ issued[m] = 0
    BY DEF Init, Waiting, Counting
  <2> QED
    BY <2>1, FS_EmptySet DEF Accounted
<1>2. AInv /\ [Next]_vars => AInv'
  BY AccountedInductive
<1>3. ASSUME AInv PROVE CountedInItsMonth
  BY <1>3, Sizes DEF AInv, Accounted, CountedInItsMonth
<1> QED
  BY <1>1, <1>2, <1>3, PTL DEF Spec

=============================================================================
