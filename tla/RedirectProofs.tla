--------------------------- MODULE RedirectProofs ---------------------------
(***************************************************************************)
(* The redirect's safety, for any number of requests, threshold, limit and *)
(* window: missing keys alone open the breaker of Redis only when redirects *)
(* crowd, for which the failures counted are charged to the places of the  *)
(* requests at once, two to each at most; and a refused client stays so.   *)
(*                                                                         *)
(* And the fairness of the selection, for every route, of any length and   *)
(* weights: filters and running totals are functions of a position of the  *)
(* route, and what they compute is proved by induction on it, as sets of   *)
(* positions without a least one that fails.                               *)
(***************************************************************************)
EXTENDS MCRedirect, FiniteSetTheorems, SequenceTheorems, WellFoundedInduction, TLAPS

-----------------------------------------------------------------------------
(* The way of redirects: limiter, breaker and requests.                       *)

\* Where the requests are.
Stages == {"idle", "read", "select"} \cup Calls \cup Running
At(S) == {r \in Requests : pc[r] \in S}

\* A failure counted is one of a request that is in no call any more.
InFlight == failures + Cardinality(At(Running)) < Threshold + Cardinality(Requests)

\* A refusal leaves a full window to wait, and a client that waited has no count.
Renewed ==
    /\ left # Forever => left + pause <= Window
    /\ verdict = "refused" => count > MaxRequests /\ left + pause = Window
    /\ verdict = "quiet" => count = 0

\* A request is past its miss until its SET is answered, and before its check
\* until that is.
PastMiss == {"read", "set", "setting"}
BeforeCheck == {"quota", "checking"}
Away == Stages \ {"idle"}

\* The failures of missing keys: one for each request past its miss, and one for
\* each that was before its check at the last success and is no more. There were
\* no more of either than requests at once since then.
Blamed ==
    /\ Cardinality(At(Away)) <= peak
    /\ breaker # "closed" => trouble \/ 2 * peak >= Threshold
    /\ breaker = "closed" /\ ~cause =>
           failures + Cardinality(At(BeforeCheck)) <= Cardinality(At(PastMiss)) + peak

\* One request moves: every set of stages loses or gains it.
LEMMA Moves ==
  ASSUME pc \in [Requests -> Stages], NEW r \in Requests, NEW s \in Stages, pc' = [pc EXCEPT ![r] = s], NEW S
  PROVE  /\ Cardinality(At(S)) \in 0..Cardinality(Requests)
         /\ Cardinality(At(S)') \in 0..Cardinality(Requests)
         /\ s \in S /\ pc[r] \notin S => Cardinality(At(S)') = Cardinality(At(S)) + 1
         /\ s \notin S /\ pc[r] \in S => Cardinality(At(S)') = Cardinality(At(S)) - 1
         /\ (s \in S <=> pc[r] \in S) => Cardinality(At(S)') = Cardinality(At(S))
<1>1. At(S) \subseteq Requests /\ At(S)' \subseteq Requests
  BY DEF At
<1>2. /\ IsFiniteSet(At(S)) /\ Cardinality(At(S)) \in 0..Cardinality(Requests)
      /\ Cardinality(At(S)') \in 0..Cardinality(Requests)
  BY <1>1, RedirectAssumption, FS_Subset, FS_CardinalityType
<1>3. ASSUME s \in S, pc[r] \notin S
      PROVE  Cardinality(At(S)') = Cardinality(At(S)) + 1
  <2>1. At(S)' = At(S) \cup {r} /\ r \notin At(S)
    BY <1>3 DEF At
  <2> QED BY <1>2, <2>1, FS_AddElement
<1>4. ASSUME s \notin S, pc[r] \in S
      PROVE  Cardinality(At(S)') = Cardinality(At(S)) - 1
  <2>1. At(S)' = At(S) \ {r} /\ r \in At(S)
    BY <1>4 DEF At
  <2> QED BY <1>2, <2>1, FS_RemoveElement
<1>5. ASSUME s \in S <=> pc[r] \in S
      PROVE  Cardinality(At(S)') = Cardinality(At(S))
  <2>1. At(S)' = At(S)
    BY <1>5 DEF At
  <2> QED BY <2>1
<1> QED BY <1>2, <1>3, <1>4, <1>5

\* Fewer stages, fewer requests.
LEMMA Within ==
  ASSUME NEW S, NEW T, S \subseteq T
  PROVE  /\ Cardinality(At(S)) \in Nat /\ Cardinality(At(T)) \in Nat
         /\ Cardinality(At(S)) <= Cardinality(At(T))
<1>1. At(S) \subseteq At(T) /\ At(T) \subseteq Requests
  BY DEF At
<1> QED BY <1>1, RedirectAssumption, FS_Subset, FS_CardinalityType

\* Nobody moves.
LEMMA Stays == ASSUME NEW S, pc' = pc PROVE At(S)' = At(S)
  BY DEF At

-----------------------------------------------------------------------------
\* What the limiter's keys and its history may be.
LimiterTyped ==
    /\ count \in 0..MaxRequests + 1 /\ left \in 0..Forever
    /\ pause \in 0..Window /\ verdict \in {"quiet", "allowed", "refused", "unknown"}
    /\ (count = 0 <=> left = 0)

\* The steps of the limiter, of time and of a Redis that restarts.
LEMMA LimiterInductive ==
  ASSUME LimiterTyped, Renewed, [Next]_vars
  PROVE  LimiterTyped' /\ Renewed'
<1> USE RedirectAssumption DEF LimiterTyped, Renewed, Forever
<1>1. ASSUME UNCHANGED limiterVars PROVE LimiterTyped' /\ Renewed'
  BY <1>1 DEF limiterVars
<1>2. ASSUME NEW r \in Requests, NEW code, Allow(r, code) PROVE LimiterTyped' /\ Renewed'
  BY <1>2 DEF Allow, Counted, Incremented, Told
<1>3. ASSUME NEW r \in Requests, Refuse(r) PROVE LimiterTyped' /\ Renewed'
  BY <1>3 DEF Refuse, Counted, Incremented, Told
<1>4. ASSUME NEW r \in Requests, NEW code, FailOpen(r, code) \/ Retried(r, code)
      PROVE  LimiterTyped' /\ Renewed'
  <2>1. verdict' = "unknown" /\ pause' = 0
    BY <1>4 DEF FailOpen, Retried, Told
  <2>2. \/ UNCHANGED <<count, left>>
        \/ /\ count' \in 1..MaxRequests + 1
           /\ left' \in {Window, IF count = 0 THEN Forever ELSE left}
    <3>1. CASE UNCHANGED <<count, left>>
      BY <3>1
    <3>2. CASE \E n \in Tries : count' = Incremented(n)
      <4>1. count' \in 1..MaxRequests + 1
        BY <3>2 DEF Tries, Incremented
      <4> QED BY <1>4, <3>2, <4>1 DEF FailOpen, Retried
    <3> QED BY <1>4, <3>1, <3>2 DEF FailOpen, Retried
  <2> QED BY <2>1, <2>2
<1>5. ASSUME Tick PROVE LimiterTyped' /\ Renewed'
  BY <1>5 DEF Tick
<1>6. ASSUME RedisRestarts PROVE LimiterTyped' /\ Renewed'
  BY <1>6 DEF RedisRestarts
<1>7. ASSUME NEW r \in Requests, Resolve(r) PROVE UNCHANGED limiterVars
  BY <1>7 DEF Resolve, Get, Hit, Miss, GetFails, ReadRoute,
     NotFound, Set, SetSucceeds, SetFails, isOverQuota, Blocked,
     NotBlocked, CheckFails, Answer
<1>8. ASSUME TimeoutPasses \/ KeysChange \/ UNCHANGED vars
      PROVE  UNCHANGED limiterVars
  BY <1>8 DEF TimeoutPasses, KeysChange, vars
<1> QED
  BY <1>1, <1>2, <1>3, <1>4, <1>5, <1>6, <1>7, <1>8 DEF Next, Handle

-----------------------------------------------------------------------------
\* The keys, the breaker and where the requests are.
PathTyped ==
    /\ copy \in BOOLEAN /\ flag \in BOOLEAN
    /\ failures \in 0..Threshold + Cardinality(Requests)
    /\ breaker \in {"closed", "open", "over"}
    /\ pc \in [Requests -> Stages] /\ known \subseteq Requests
    /\ cause \in BOOLEAN /\ trouble \in BOOLEAN
    /\ peak \in 0..Cardinality(Requests)
    /\ (breaker = "closed" => failures < Threshold)

PathInv == PathTyped /\ InFlight /\ Blamed

LEMMA TypedInParts == TypeOK <=> LimiterTyped /\ PathTyped /\ streak \in 0..Threshold
<1>1. TypeOK => LimiterTyped
  BY DEF TypeOK, LimiterTyped
<1>2. TypeOK => PathTyped /\ streak \in 0..Threshold
  BY DEF TypeOK, PathTyped, Stages
<1>3. LimiterTyped /\ PathTyped /\ streak \in 0..Threshold => TypeOK
  BY DEF TypeOK, LimiterTyped, PathTyped, Stages
<1> QED BY <1>1, <1>2, <1>3

\* What the counts of requests are before and after one of them moves.
LEMMA Counts ==
  ASSUME PathInv, NEW r \in Requests, NEW s \in Stages, pc' = [pc EXCEPT ![r] = s]
  PROVE  \A S \in {Running, PastMiss, BeforeCheck, Away} :
             /\ Cardinality(At(S)) \in 0..Cardinality(Requests)
             /\ Cardinality(At(S)') \in 0..Cardinality(Requests)
             /\ s \in S /\ pc[r] \notin S => Cardinality(At(S)') = Cardinality(At(S)) + 1
             /\ s \notin S /\ pc[r] \in S => Cardinality(At(S)') = Cardinality(At(S)) - 1
             /\ (s \in S <=> pc[r] \in S) => Cardinality(At(S)') = Cardinality(At(S))
  BY Moves DEF PathInv, PathTyped

LEMMA RequestsCounted == Cardinality(Requests) \in Nat
  BY RedirectAssumption, FS_CardinalityType

LEMMA BusyAreAway == PathTyped => Busy = At(Away)
  BY DEF PathTyped, Busy, At, Away

\* A call is let in: the breaker is closed, or closes with no failure counted.
LEMMA Admits ==
  ASSUME PathInv, NEW r \in Requests, NEW s \in Running, Begin, Goto(r, s),
         pc[r] \in Away \ Running, UNCHANGED <<copy, flag>>,
         s \in PastMiss <=> pc[r] \in PastMiss, s \in BeforeCheck <=> pc[r] \in BeforeCheck
  PROVE  PathInv'
<1> DEFINE N == Cardinality(Requests)
           n == Cardinality(At(Running))
           m == Cardinality(At(PastMiss))
           q == Cardinality(At(BeforeCheck))
           a == Cardinality(At(Away))
<1>1. pc' = [pc EXCEPT ![r] = s] /\ known' = known /\ s \in Stages /\ s \in Away
  BY DEF Goto, Stages, Away, Running
<1>2. /\ n \in 0..N /\ m \in 0..N /\ q \in 0..N /\ a \in 0..N
      /\ n' = n + 1 /\ n' \in 0..N /\ m' = m /\ q' = q /\ a' = a
  BY <1>1, Counts
<1>3. /\ breaker \in {"closed", "over"} /\ breaker' = "closed"
      /\ \/ breaker = "closed" /\ UNCHANGED <<failures, cause, trouble, peak>>
         \/ failures' = 0 /\ cause' = FALSE /\ trouble' = FALSE /\ peak' = a
  BY BusyAreAway DEF Begin, Crowded, PathInv, PathTyped
<1>4. failures' < Threshold /\ failures' \in Nat
  BY <1>3, RedirectAssumption, RequestsCounted DEF PathInv, PathTyped
<1>5. PathTyped'
  <2>1. failures' \in 0..Threshold + N
    BY <1>4, RedirectAssumption, RequestsCounted
  <2>2. cause' \in BOOLEAN /\ trouble' \in BOOLEAN
    BY <1>3 DEF PathInv, PathTyped
  <2>3. pc' \in [Requests -> Stages] /\ known' \subseteq Requests
    BY <1>1 DEF PathInv, PathTyped
  <2>4. copy' \in BOOLEAN /\ flag' \in BOOLEAN
    BY DEF PathInv, PathTyped
  <2>5. peak' \in 0..N
    BY <1>2, <1>3 DEF PathInv, PathTyped
  <2> QED
    BY <1>3, <1>4, <2>1, <2>2, <2>3, <2>4, <2>5 DEF PathTyped
<1>6. InFlight'
  <2> HIDE DEF n
  <2> QED
    BY <1>2, <1>4, RedirectAssumption, RequestsCounted DEF n, InFlight
<1>7. q <= a
  BY Within DEF Away, BeforeCheck, Stages, Calls, Running
<1>8. Blamed'
  BY <1>2, <1>3, <1>7 DEF PathInv, Blamed
<1> QED BY <1>5, <1>6, <1>8 DEF PathInv

\* A call fails: either there is a cause, or the request is past its miss now or
\* not before its check any more.
LEMMA FailureCounts ==
  ASSUME PathInv, NEW r \in Requests, NEW s \in Away, NEW why \in BOOLEAN, Fails(why),
         Goto(r, s), pc[r] \in Running, s \notin Running,
         copy' \in BOOLEAN, flag' = flag,
         \/ why
         \/ /\ s \in PastMiss /\ pc[r] \notin PastMiss
            /\ (s \in BeforeCheck <=> pc[r] \in BeforeCheck)
         \/ /\ s \notin BeforeCheck /\ pc[r] \in BeforeCheck
            /\ (s \in PastMiss <=> pc[r] \in PastMiss)
  PROVE  PathInv'
<1> DEFINE N == Cardinality(Requests)
           n == Cardinality(At(Running))
           m == Cardinality(At(PastMiss))
           q == Cardinality(At(BeforeCheck))
           a == Cardinality(At(Away))
<1>1. pc' = [pc EXCEPT ![r] = s] /\ known' = known /\ s \in Stages
  BY DEF Goto, Away
<1>2. /\ n \in 0..N /\ m \in 0..N /\ q \in 0..N /\ m' \in 0..N /\ q' \in 0..N
      /\ a \in 0..N /\ a' = a /\ m' <= a'
      /\ n' = n - 1 /\ n' \in 0..N
      /\ why \/ m' + q = m + q' + 1
  <2>0. Running \subseteq Away /\ PastMiss \subseteq Away
    BY DEF Running, Away, Stages, PastMiss, Calls
  <2>1. /\ n \in 0..N /\ m \in 0..N /\ q \in 0..N /\ m' \in 0..N /\ q' \in 0..N
        /\ a \in 0..N /\ a' = a /\ n' = n - 1 /\ n' \in 0..N
    BY <1>1, <2>0, Counts
  <2>2. m' <= a'
    <3>1. At(PastMiss)' \subseteq At(Away)' /\ At(Away)' \subseteq Requests
      BY <2>0 DEF At
    <3> QED BY <3>1, RedirectAssumption, FS_Subset
  <2>3. CASE s \in PastMiss /\ pc[r] \notin PastMiss /\ (s \in BeforeCheck <=> pc[r] \in BeforeCheck)
    <3>1. m' = m + 1 /\ q' = q
      BY <1>1, <2>3, Counts
    <3> QED BY <2>1, <2>2, <3>1
  <2>4. CASE s \notin BeforeCheck /\ pc[r] \in BeforeCheck /\ (s \in PastMiss <=> pc[r] \in PastMiss)
    <3>1. m' = m /\ q' = q - 1
      BY <1>1, <2>4, Counts
    <3> QED BY <2>1, <2>2, <3>1
  <2> QED BY <2>1, <2>2, <2>3, <2>4
<1>3. failures \in Nat /\ failures + n < Threshold + N /\ N \in Nat /\ Threshold \in Nat \ {0}
  BY RequestsCounted, RedirectAssumption DEF PathInv, PathTyped, InFlight
<1>4. /\ failures' = failures + 1 /\ peak' = peak
      /\ cause' = (cause \/ why)
      /\ \/ /\ failures' >= Threshold
            /\ breaker' = "open" /\ trouble' = (trouble \/ cause')
         \/ failures' < Threshold /\ UNCHANGED <<breaker, trouble>>
  BY <1>3 DEF Fails
<1>5. PathTyped'
  <2>1. failures' \in 0..Threshold + N
    BY <1>2, <1>3, <1>4
  <2>2. cause' \in BOOLEAN /\ trouble' \in BOOLEAN
    BY <1>4 DEF PathInv, PathTyped
  <2> QED
    BY <1>1, <1>4, <2>1, <2>2 DEF PathInv, PathTyped
<1>6. InFlight'
  BY <1>2, <1>3, <1>4 DEF InFlight
<1>7. Blamed'
  <2>0. peak \in Nat
    BY <1>3 DEF PathInv, PathTyped
  <2>1. /\ a <= peak
        /\ breaker # "closed" => trouble \/ 2 * peak >= Threshold
        /\ breaker = "closed" /\ ~cause => failures + q <= m + peak
    BY DEF PathInv, Blamed
  <2>2. CASE breaker = "closed" /\ ~cause'
    <3>0. ~why /\ ~cause
      BY <1>4, <2>2
    <3>1. failures' + q' <= m' + peak /\ m' <= peak
      <4>1. failures + q <= m + peak /\ m' + q = m + q' + 1 /\ failures' = failures + 1
        BY <1>2, <1>4, <2>1, <2>2, <3>0
      <4> QED BY <1>2, <1>3, <2>0, <2>1, <4>1
    <3>2. failures' >= Threshold => 2 * peak >= Threshold
      <4>1. failures' \in Nat
        BY <1>3, <1>4
      <4> QED BY <1>2, <1>3, <2>0, <3>1, <4>1
    <3> QED BY <1>2, <1>4, <2>1, <2>2, <3>1, <3>2 DEF Blamed
  <2>3. CASE breaker # "closed" \/ cause'
    BY <1>2, <1>4, <2>1, <2>3 DEF PathInv, PathTyped, Blamed
  <2> QED BY <2>2, <2>3
<1> QED BY <1>5, <1>6, <1>7 DEF PathInv

\* A call succeeds.
LEMMA Reset ==
  ASSUME PathInv, NEW r \in Requests, NEW s \in Stages, Succeeds,
         pc' = [pc EXCEPT ![r] = s], known' \subseteq Requests,
         pc[r] \in Running, s \notin Running, copy' \in BOOLEAN, flag' = flag
  PROVE  PathInv'
<1> DEFINE N == Cardinality(Requests)
           n == Cardinality(At(Running))
           m == Cardinality(At(PastMiss))
           q == Cardinality(At(BeforeCheck))
           a == Cardinality(At(Away))
<1>1. /\ n \in 0..N /\ n' = n - 1 /\ n' \in 0..N /\ m' \in 0..N /\ q' \in 0..N
      /\ a \in 0..N /\ a' \in 0..N /\ a' <= a /\ q' <= a'
  <2>1. pc[r] \in Away
    BY DEF Running, Away, Stages
  <2>2. BeforeCheck \subseteq Away
    BY DEF BeforeCheck, Away, Stages, Calls, Running
  <2>3. At(BeforeCheck)' \subseteq At(Away)' /\ At(Away)' \subseteq Requests
    BY <2>2 DEF At
  <2>4. q' <= a'
    BY <2>3, RedirectAssumption, FS_Subset
  <2>5. /\ a \in 0..N /\ a' \in 0..N
        /\ s \notin Away => a' = a - 1
        /\ s \in Away => a' = a
    BY <2>1, Counts
  <2>6. n \in 0..N /\ n' = n - 1 /\ n' \in 0..N /\ m' \in 0..N /\ q' \in 0..N
    BY Counts
  <2> QED BY <2>4, <2>5, <2>6
<1>2. /\ failures' = 0 /\ cause' = FALSE /\ UNCHANGED <<breaker, trouble>>
      /\ peak' = IF breaker = "closed" THEN a ELSE peak
  BY BusyAreAway DEF Succeeds, Crowded, PathInv
<1>3. PathTyped'
  <2>1. failures' \in 0..Threshold + N /\ failures' < Threshold
    BY <1>2, RedirectAssumption, RequestsCounted
  <2>2. pc' \in [Requests -> Stages]
    BY DEF PathInv, PathTyped
  <2>3. peak' \in 0..N
    BY <1>1, <1>2 DEF PathInv, PathTyped
  <2> QED
    BY <1>2, <2>1, <2>2, <2>3 DEF PathInv, PathTyped
<1>4. InFlight'
  BY <1>1, <1>2, RedirectAssumption, RequestsCounted DEF InFlight
<1>5. Blamed'
  <2>1. peak \in Nat /\ a <= peak
    BY RequestsCounted DEF PathInv, PathTyped, Blamed
  <2>2. CASE breaker = "closed"
    BY <1>1, <1>2, <2>2 DEF Blamed
  <2>3. CASE breaker # "closed"
    BY <1>1, <1>2, <2>1, <2>3 DEF PathInv, Blamed
  <2> QED BY <2>2, <2>3
<1> QED BY <1>3, <1>4, <1>5 DEF PathInv

\* What the threshold is compared with only grows.
LEMMA Doubled ==
  ASSUME NEW x \in Nat, NEW y \in Nat, NEW t \in Nat, x <= y, 2 * x >= t
  PROVE  2 * y >= t
OBVIOUS

\* A request moves with no call: an open breaker lets it by, it is in the same sets
\* as before, or the code was not found. One that arrives is counted.
LEMMA Passes ==
  ASSUME PathInv, NEW r \in Requests, NEW s \in Stages,
         pc' = [pc EXCEPT ![r] = s], known' \subseteq Requests,
         pc[r] \notin Running, s \notin Running, copy' = copy, flag' = flag,
         failures' = failures, breaker' = breaker, trouble' = trouble,
         \/ pc[r] \in Away /\ peak' = peak
         \/ /\ pc[r] \notin Away
            /\ peak' = IF peak > Cardinality(Busy) THEN peak ELSE Cardinality(Busy) + 1,
         \/ cause' = TRUE
         \/ cause' = cause /\ breaker = "open"
         \/ /\ cause' = cause
            /\ (s \in PastMiss <=> pc[r] \in PastMiss)
            /\ (s \in BeforeCheck <=> pc[r] \in BeforeCheck)
  PROVE  PathInv'
<1> DEFINE N == Cardinality(Requests)
           n == Cardinality(At(Running))
           m == Cardinality(At(PastMiss))
           q == Cardinality(At(BeforeCheck))
           a == Cardinality(At(Away))
<1>1. /\ n' = n
      /\ m \in 0..N /\ q \in 0..N
      /\ \/ cause' = TRUE
         \/ cause' = cause /\ breaker = "open"
         \/ cause' = cause /\ m' = m /\ q' = q
  <2>1. n' = n /\ m \in 0..N /\ q \in 0..N
    BY Counts
  <2>2. (s \in PastMiss <=> pc[r] \in PastMiss) => m' = m
    BY Counts
  <2>3. (s \in BeforeCheck <=> pc[r] \in BeforeCheck) => q' = q
    BY Counts
  <2> HIDE DEF n, m, q
  <2> QED BY <2>1, <2>2, <2>3
<1>2. peak \in Nat /\ peak' \in 0..N /\ peak <= peak' /\ a' <= peak'
  <2>1. peak \in 0..N /\ a <= peak /\ N \in Nat
    BY RequestsCounted DEF PathInv, PathTyped, Blamed
  <2>2. CASE pc[r] \in Away /\ peak' = peak
    <3>1. a \in 0..N /\ a' \in 0..N /\ a' <= a
      <4>1. /\ a \in 0..N /\ a' \in 0..N
            /\ s \notin Away => a' = a - 1
            /\ s \in Away => a' = a
        BY <2>2, Counts
      <4> QED BY <4>1
    <3> QED BY <2>1, <2>2, <3>1
  <2>3. CASE pc[r] \notin Away /\ peak' = IF peak > a THEN peak ELSE a + 1
    <3>1. /\ a \in 0..N /\ a' \in 0..N
          /\ \/ s \in Away /\ a' = a + 1
             \/ s \notin Away /\ a' = a
      BY <2>3, Counts
    <3>2. a < N
      <4>1. At(Away) \subseteq Requests \ {r}
        BY <2>3 DEF At
      <4>2. /\ IsFiniteSet(Requests \ {r})
            /\ Cardinality(Requests \ {r}) = N - 1
        BY RedirectAssumption, FS_RemoveElement
      <4>3. a <= N - 1
        BY <4>1, <4>2, FS_Subset
      <4> QED BY <2>1, <3>1, <4>3
    <3> QED BY <2>1, <2>3, <3>1, <3>2
  <2> QED BY <2>2, <2>3, BusyAreAway DEF PathInv
<1>3. PathTyped'
  BY <1>2 DEF PathInv, PathTyped
<1>4. InFlight'
  BY <1>1 DEF PathInv, InFlight
<1>5. Blamed'
  <2>1. Threshold \in Nat /\ failures \in Nat
    BY RedirectAssumption, RequestsCounted DEF PathInv, PathTyped
  <2>2. breaker' # "closed" => trouble' \/ 2 * peak' >= Threshold
    <3>1. breaker # "closed" => trouble \/ 2 * peak >= Threshold
      BY DEF PathInv, Blamed
    <3>2. peak \in Nat /\ peak' \in Nat /\ peak <= peak'
      BY <1>2, RequestsCounted
    <3>3. 2 * peak >= Threshold => 2 * peak' >= Threshold
      BY <2>1, <3>2, Doubled
    <3> QED BY <3>1, <3>3
  <2>3. ASSUME breaker' = "closed", ~cause' PROVE failures' + q' <= m' + peak'
    <3>1. cause' = cause /\ m' = m /\ q' = q
      BY <1>1, <2>3
    <3>2. failures + q <= m + peak
      BY <2>3, <3>1 DEF PathInv, Blamed
    <3>3. /\ peak \in Nat /\ peak' \in Nat /\ peak <= peak'
          /\ m \in Nat /\ q \in Nat
      BY <1>1, <1>2, RequestsCounted
    <3>4. failures + q <= m + peak'
      BY <2>1, <3>2, <3>3
    <3> QED BY <3>1, <3>4
  <2> QED BY <1>2, <2>2, <2>3 DEF Blamed
<1> QED BY <1>3, <1>4, <1>5 DEF PathInv

\* Nobody moves and no call is answered: the keys and the clocks at most.
LEMMA Unmoved ==
  ASSUME PathInv, UNCHANGED <<pc, known, failures, breaker, cause, trouble, peak>>,
         copy' \in BOOLEAN, flag' \in BOOLEAN
  PROVE  PathInv'
<1>1. PathTyped'
  BY DEF PathInv, PathTyped
<1>2. InFlight' /\ Blamed'
  BY Stays DEF PathInv, InFlight, Blamed
<1> QED BY <1>1, <1>2 DEF PathInv

LEMMA PathInductive == ASSUME PathInv, [Next]_vars PROVE PathInv'
<1> USE DEF breakerVars, redisBreaker, Running, Calls
<1>0. copy \in BOOLEAN /\ flag \in BOOLEAN /\ known \subseteq Requests
  BY DEF PathInv, PathTyped
\* The limiter.
<1>1. ASSUME NEW r \in Requests, NEW code \in {"known", "none"},
             Allow(r, code) \/ Retried(r, code) \/ FailOpen(r, code)
      PROVE  PathInv'
  <2>1. /\ pc[r] = "idle" /\ UNCHANGED <<copy, flag, failures, breaker, cause, trouble>>
        /\ Proceed(r, code) \/ UNCHANGED <<pc, known, peak>>
    BY <1>1 DEF Allow, Retried, FailOpen
  <2>2. CASE UNCHANGED <<pc, known, peak>>
    BY <1>0, <2>1, <2>2, Unmoved
  <2>3. CASE Proceed(r, code)
    <3>1. /\ pc' = [pc EXCEPT ![r] = "get"] /\ known' \subseteq Requests
          /\ peak' = IF peak > Cardinality(Busy) THEN peak ELSE Cardinality(Busy) + 1
      BY <1>0, <2>3 DEF Proceed
    <3> QED BY <2>1, <3>1, Passes DEF Stages, PastMiss, BeforeCheck, Away
  <2> QED BY <2>1, <2>2, <2>3
<1>2. ASSUME NEW r \in Requests, Refuse(r) PROVE PathInv'
  BY <1>0, <1>2, Unmoved DEF Refuse
\* Through the breaker into a call, or past an open one.
<1>3. ASSUME NEW r \in Requests, NEW x \in Calls, NEW s \in Running, NEW y \in Stages,
             pc[r] = x, UNCHANGED <<copy, flag>>,
             <<x, s>> \in {<<"get", "getting">>, <<"set", "setting">>, <<"quota", "checking">>},
             y \notin Running,
             \/ Begin /\ Goto(r, s)
             \/ Rejected /\ Goto(r, y)
      PROVE  PathInv'
  <2>1. CASE Begin /\ Goto(r, s)
    BY <1>3, <2>1, Admits DEF PastMiss, BeforeCheck, Away, Stages
  <2>2. CASE Rejected /\ Goto(r, y)
    <3>1. /\ breaker = "open" /\ UNCHANGED <<failures, breaker, cause, trouble, peak>>
          /\ pc' = [pc EXCEPT ![r] = y] /\ known' \subseteq Requests
      BY <1>0, <2>2 DEF Rejected, Goto
    <3>2. pc[r] \notin Running /\ pc[r] \in Away
      BY <1>3 DEF Away, Stages
    <3> QED BY <1>3, <3>1, <3>2, Passes
  <2> QED BY <1>3, <2>1, <2>2
<1>4. ASSUME NEW r \in Requests, Get(r) PROVE PathInv'
  <2>1. "read" \in Stages /\ "read" \notin Running
    BY DEF Stages
  <2> QED BY <1>3, <1>4, <2>1 DEF Get
<1>5. ASSUME NEW r \in Requests, Set(r) PROVE PathInv'
  <2>1. "quota" \in Stages /\ "quota" \notin Running
    BY DEF Stages
  <2> QED BY <1>3, <1>5, <2>1 DEF Set
<1>6. ASSUME NEW r \in Requests, isOverQuota(r) PROVE PathInv'
  <2>1. "select" \in Stages /\ "select" \notin Running
    BY DEF Stages
  <2> QED BY <1>3, <1>6, <2>1 DEF isOverQuota
\* A call that succeeds.
<1>7. ASSUME NEW r \in Requests, Hit(r) \/ SetSucceeds(r) PROVE PathInv'
  <2>1. /\ pc[r] \in Running /\ Succeeds /\ pc' = [pc EXCEPT ![r] = "quota"]
        /\ known' \subseteq Requests /\ copy' \in BOOLEAN /\ flag' = flag
    BY <1>0, <1>7 DEF Hit, SetSucceeds, Goto
  <2> QED BY <2>1, Reset DEF Stages
<1>8. ASSUME NEW r \in Requests, Blocked(r) PROVE PathInv'
  <2>1. /\ pc[r] \in Running /\ Succeeds /\ pc' = [pc EXCEPT ![r] = "idle"]
        /\ known' \subseteq Requests /\ copy' \in BOOLEAN /\ flag' = flag
    BY <1>0, <1>8 DEF Blocked, Done
  <2> QED BY <2>1, Reset DEF Stages
\* A call that fails, of a missing key or not.
<1>9. ASSUME NEW r \in Requests, Miss(r) PROVE PathInv'
  BY <1>0, <1>9, FailureCounts DEF Miss, Stages, Away, PastMiss, BeforeCheck
<1>10. ASSUME NEW r \in Requests, NotBlocked(r) PROVE PathInv'
  BY <1>0, <1>10, FailureCounts DEF NotBlocked, Stages, Away, PastMiss, BeforeCheck
<1>11. ASSUME NEW r \in Requests, GetFails(r) \/ SetFails(r) \/ CheckFails(r)
       PROVE  PathInv'
  <2>1. PICK s \in {"read", "quota", "select"} : Goto(r, s)
    BY <1>11 DEF GetFails, SetFails, CheckFails
  <2>2. /\ pc[r] \in Running /\ Fails(TRUE) /\ copy' \in BOOLEAN /\ flag' = flag
    BY <1>0, <1>11 DEF GetFails, SetFails, CheckFails
  <2> QED BY <2>1, <2>2, FailureCounts DEF Stages, Away
\* No call.
<1>12. ASSUME NEW r \in Requests, ReadRoute(r) \/ Answer(r) PROVE PathInv'
  <2>1. /\ \/ pc[r] = "read" /\ pc' = [pc EXCEPT ![r] = "set"]
           \/ pc[r] = "select" /\ pc' = [pc EXCEPT ![r] = "idle"]
        /\ known' \subseteq Requests
        /\ UNCHANGED <<copy, flag, failures, breaker, cause, trouble, peak>>
    BY <1>0, <1>12 DEF ReadRoute, Answer, Goto, Done
  <2> QED BY <2>1, Passes DEF Stages, Away, PastMiss, BeforeCheck
<1>13. ASSUME NEW r \in Requests, NotFound(r) PROVE PathInv'
  <2>1. /\ pc[r] = "read" /\ pc' = [pc EXCEPT ![r] = "idle"] /\ known' \subseteq Requests
        /\ cause' = TRUE /\ UNCHANGED <<copy, flag, failures, breaker, trouble, peak>>
    BY <1>0, <1>13 DEF NotFound, Done
  <2> QED BY <2>1, Passes DEF Stages, Away
\* Around the requests.
<1>14. ASSUME Tick \/ KeysChange \/ RedisRestarts \/ UNCHANGED vars
       PROVE  PathInv'
  <2>1. /\ UNCHANGED <<pc, known, failures, breaker, cause, trouble, peak>>
        /\ copy' \in BOOLEAN /\ flag' \in BOOLEAN
    BY <1>0, <1>14 DEF Tick, KeysChange, RedisRestarts, vars
  <2> QED BY <2>1, Unmoved
<1>15. ASSUME TimeoutPasses PROVE PathInv'
  <2>1. PathTyped'
    BY <1>15 DEF TimeoutPasses, PathInv, PathTyped
  <2>2. InFlight' /\ Blamed'
    BY <1>15, Stays DEF TimeoutPasses, PathInv, InFlight, Blamed
  <2> QED BY <2>1, <2>2 DEF PathInv
<1> QED
  BY <1>1, <1>2, <1>4, <1>5, <1>6, <1>7, <1>8, <1>9, <1>10, <1>11, <1>12, <1>13, <1>14, <1>15
  DEF Next, Handle, Resolve

-----------------------------------------------------------------------------
(* The breaker of Redis alone, and what a breaker promises.                   *)

\* The count never runs ahead of the failures in a row it stands for.
CountIsStreak == streak \in 0..Threshold /\ (failures <= streak \/ streak = Threshold)

\* What a step is to the breaker: r is let in, r is answered, or nothing.
LetsIn(r) ==
    /\ Begin /\ pc[r] \notin Running
    /\ \E s \in Running : pc' = [pc EXCEPT ![r] = s]
LetsOut(r) == pc[r] \in Running /\ \E s \in Stages \ Running : pc' = [pc EXCEPT ![r] = s]
LeavesAlone ==
    UNCHANGED <<failures, breaker, streak>> /\ UNCHANGED At(Running)

\* All calls of Redis that redirects make go through Call, and only they do.
LEMMA StepsOfTheBreaker ==
  ASSUME PathTyped, [Next]_vars
  PROVE  \/ \E r \in Requests : LetsIn(r)
         \/ \E r \in Requests : LetsOut(r) /\ (Succeeds \/ \E why \in BOOLEAN : Fails(why))
         \/ TimeoutPasses
         \/ LeavesAlone
<1> USE DEF Running, Calls, Goto, Done, redisBreaker
<1>0. pc \in [Requests -> Stages]
  BY DEF PathTyped
<1>1. ASSUME NEW r \in Requests, NEW s \in Stages \ Running, pc[r] \notin Running,
             pc' = [pc EXCEPT ![r] = s] \/ pc' = pc, UNCHANGED <<failures, breaker, streak>>
      PROVE  LeavesAlone
  BY <1>0, <1>1 DEF LeavesAlone, At
<1>2. ASSUME NEW r \in Requests, Handle(r) PROVE LeavesAlone
  <2>1. /\ pc[r] = "idle" /\ UNCHANGED <<failures, breaker, streak>>
        /\ pc' = pc \/ pc' = [pc EXCEPT ![r] = "get"]
    BY <1>2 DEF Handle, Allow, Retried, Refuse, FailOpen, Proceed, breakerVars
  <2> QED BY <1>1, <2>1 DEF Stages
<1>3. ASSUME NEW r \in Requests, Get(r) \/ Set(r) \/ isOverQuota(r)
      PROVE  LetsIn(r) \/ LeavesAlone
  <2>1. pc[r] \notin Running
    BY <1>3 DEF Get, Set, isOverQuota
  <2>2. CASE Rejected
    <3>1. PICK s \in {"read", "quota", "select", "getting", "setting", "checking"} :
              pc' = [pc EXCEPT ![r] = s] /\ (s \in Running => Begin)
      BY <1>3 DEF Get, Set, isOverQuota
    <3>2. UNCHANGED <<failures, breaker, streak>> /\ ~Begin
      BY <2>2 DEF Rejected, Begin, breakerVars
    <3>3. s \in Stages \ Running
      BY <3>1, <3>2 DEF Stages
    <3> QED BY <1>1, <2>1, <3>1, <3>2, <3>3
  <2>3. CASE ~Rejected
    <3>1. Begin /\ \E s \in Running : pc' = [pc EXCEPT ![r] = s]
      BY <1>3, <2>3 DEF Get, Set, isOverQuota
    <3> QED BY <2>1, <3>1 DEF LetsIn
  <2> QED BY <2>2, <2>3
<1>4. ASSUME NEW r \in Requests, Hit(r) \/ SetSucceeds(r) \/ Blocked(r)
      PROVE  LetsOut(r) /\ Succeeds
  <2>1. \E s \in {"quota", "idle"} : pc' = [pc EXCEPT ![r] = s]
    BY <1>4 DEF Hit, SetSucceeds, Blocked
  <2> QED BY <1>4, <2>1 DEF Hit, SetSucceeds, Blocked, LetsOut, Stages
<1>5. ASSUME NEW r \in Requests,
             Miss(r) \/ GetFails(r) \/ SetFails(r) \/ NotBlocked(r) \/ CheckFails(r)
      PROVE  LetsOut(r) /\ \E why \in BOOLEAN : Fails(why)
  <2>1. \E s \in {"read", "quota", "select"} : pc' = [pc EXCEPT ![r] = s]
    BY <1>5 DEF Miss, GetFails, SetFails, NotBlocked, CheckFails
  <2>2. LetsOut(r)
    BY <1>5, <2>1 DEF Miss, GetFails, SetFails, NotBlocked, CheckFails, LetsOut, Stages
  <2>3. Fails(TRUE) \/ Fails(FALSE)
    BY <1>5 DEF Miss, GetFails, SetFails, NotBlocked, CheckFails
  <2> QED BY <2>2, <2>3
<1>6. ASSUME NEW r \in Requests, ReadRoute(r) \/ NotFound(r) \/ Answer(r) PROVE LeavesAlone
  <2>1. /\ pc[r] \in {"read", "select"} /\ UNCHANGED <<failures, breaker, streak>>
        /\ \E s \in {"set", "idle"} : pc' = [pc EXCEPT ![r] = s]
    BY <1>6 DEF ReadRoute, NotFound, Answer, breakerVars
  <2> QED BY <1>1, <2>1 DEF Stages
<1>7. ASSUME Tick \/ KeysChange \/ RedisRestarts \/ UNCHANGED vars PROVE LeavesAlone
  <2>1. UNCHANGED <<pc, failures, breaker, streak>>
    BY <1>7 DEF Tick, KeysChange, RedisRestarts, vars, breakerVars
  <2> QED BY <2>1 DEF LeavesAlone, At
<1> QED BY <1>2, <1>3, <1>4, <1>5, <1>6, <1>7 DEF Next, Resolve

LEMMA StreakInductive ==
  ASSUME PathTyped, CountIsStreak, [Next]_vars
  PROVE  CountIsStreak'
<1> USE RedirectAssumption DEF CountIsStreak
<1>0. failures \in Nat
  BY RequestsCounted DEF PathTyped
<1>1. ASSUME Begin PROVE CountIsStreak'
  BY <1>0, <1>1 DEF Begin
<1>2. ASSUME Succeeds PROVE CountIsStreak'
  BY <1>2 DEF Succeeds
<1>3. ASSUME NEW why \in BOOLEAN, Fails(why) PROVE CountIsStreak'
  <2>1. failures' = failures + 1 /\ streak' = IF streak = Threshold THEN Threshold ELSE streak + 1
    BY <1>3 DEF Fails
  <2> QED BY <1>0, <2>1
<1>4. ASSUME TimeoutPasses \/ LeavesAlone PROVE CountIsStreak'
  BY <1>4 DEF TimeoutPasses, LeavesAlone
<1> QED BY <1>1, <1>2, <1>3, <1>4, StepsOfTheBreaker DEF LetsIn

\* Who is in a call after one request is let in or out.
LEMMA InsideMoves ==
  ASSUME PathTyped, NEW r \in Requests
  PROVE  /\ LetsIn(r) => At(Running)' = At(Running) \cup {r} /\ r \notin At(Running)
         /\ LetsOut(r) => At(Running)' = At(Running) \ {r} /\ r \in At(Running)
<1>1. pc \in [Requests -> Stages]
  BY DEF PathTyped
<1>2. ASSUME NEW s \in Stages, pc' = [pc EXCEPT ![r] = s]
      PROVE  \A q \in Requests : pc'[q] = IF q = r THEN s ELSE pc[q]
  BY <1>1, <1>2
<1>3. Running \subseteq Stages
  BY DEF Stages
<1>4. ASSUME LetsIn(r) PROVE At(Running)' = At(Running) \cup {r} /\ r \notin At(Running)
  BY <1>2, <1>3, <1>4 DEF LetsIn, At
<1>5. ASSUME LetsOut(r) PROVE At(Running)' = At(Running) \ {r} /\ r \in At(Running)
  BY <1>2, <1>5 DEF LetsOut, At
<1> QED BY <1>4, <1>5

-----------------------------------------------------------------------------

\* The inductive invariant: the limiter, and the way through the breaker.
LEMMA Invariant == Spec => [](LimiterTyped /\ Renewed /\ PathInv /\ CountIsStreak)
<1>1. ASSUME Init PROVE LimiterTyped /\ Renewed
  BY <1>1, RedirectAssumption DEF Init, LimiterTyped, Renewed, Forever
<1>2. ASSUME Init PROVE PathInv
  <2> USE <1>2 DEF Init
  <2>1. PathTyped
    <3>1. failures \in 0..Threshold + Cardinality(Requests) /\ failures < Threshold
      BY RedirectAssumption, RequestsCounted
    <3>2. pc \in [Requests -> Stages]
      BY DEF Stages
    <3>3. peak \in 0..Cardinality(Requests)
      BY RequestsCounted
    <3> QED BY <3>1, <3>2, <3>3 DEF PathTyped
  <2>2. At(Running) = {}
    BY DEF At, Running
  <2>3. Cardinality(At(Running)) = 0
    BY <2>2, FS_EmptySet
  <2>4. InFlight
    BY <2>3, RedirectAssumption, RequestsCounted DEF InFlight
  <2>5. \A S : Cardinality(At(S)) \in Nat
    <3> TAKE S
    <3>1. At(S) \subseteq Requests
      BY DEF At
    <3> QED BY <3>1, RedirectAssumption, FS_Subset, FS_CardinalityType
  <2>6. Blamed
    <3>1. At(Away) = {} /\ At(BeforeCheck) = {}
      BY DEF At, Away, BeforeCheck
    <3>2. Cardinality(At(Away)) = 0 /\ Cardinality(At(BeforeCheck)) = 0
      BY <3>1, FS_EmptySet
    <3> QED BY <2>5, <3>2 DEF Blamed
  <2> QED BY <2>1, <2>4, <2>6 DEF PathInv
<1>3. ASSUME Init PROVE CountIsStreak
  BY <1>3, RedirectAssumption DEF Init, CountIsStreak
<1>4. ASSUME LimiterTyped, Renewed, PathInv, CountIsStreak, [Next]_vars
      PROVE  (LimiterTyped /\ Renewed /\ PathInv /\ CountIsStreak)'
  BY <1>4, LimiterInductive, PathInductive, StreakInductive DEF PathInv
<1> QED BY <1>1, <1>2, <1>3, <1>4, PTL DEF Spec

\* The keys, the breaker and the requests keep their types; the count of the
\* shared breaker is bounded by the calls that were let in before it opened.
THEOREM TypeCorrect == Spec => []TypeOK
  BY Invariant, TypedInParts, PTL DEF PathInv, CountIsStreak

\* The breaker that three kinds of calls share keeps the contract of one, for any
\* number of redirects and any threshold: every step of Redirect is a step of
\* BreakerContract or a stutter.
THEOREM SharedBreakerImplements == Spec => KeepsContract
<1> USE RedirectAssumption DEF Contract!cvars
<1>1. Init => Contract!Init
  BY DEF Init, Contract!Init, Running
<1>2. ASSUME PathInv, CountIsStreak, [Next]_vars PROVE [Contract!Next]_Contract!cvars
  <2>0. /\ PathTyped /\ CountIsStreak /\ failures \in Nat
        /\ {r \in Requests : pc[r] \in Running} = At(Running)
        /\ {r \in Requests : pc[r] \in Running}' = At(Running)'
    BY <1>2, RequestsCounted DEF PathInv, PathTyped, At
  <2>1. ASSUME NEW r \in Requests, LetsIn(r) PROVE Contract!Enter(r)
    <3>1. breaker # "open" /\ breaker' # "open" /\ streak' = streak
      BY <2>1 DEF LetsIn, Begin
    <3> QED BY <2>0, <2>1, <3>1, InsideMoves DEF Contract!Enter
  <2>2. ASSUME NEW r \in Requests, LetsOut(r), Succeeds PROVE Contract!Succeed(r)
    BY <2>0, <2>2, InsideMoves DEF Succeeds, Contract!Succeed
  <2>3. ASSUME NEW r \in Requests, LetsOut(r), NEW why \in BOOLEAN, Fails(why)
        PROVE  Contract!Fail(r)
    <3>1. /\ streak' = IF streak = Threshold THEN Threshold ELSE streak + 1
          /\ breaker' = breaker \/ (breaker' = "open" /\ streak' = Threshold)
      BY <2>0, <2>3 DEF Fails, CountIsStreak
    <3> QED BY <2>0, <2>3, <3>1, InsideMoves DEF Contract!Fail
  <2>4. ASSUME TimeoutPasses PROVE Contract!Pass
    BY <2>4 DEF TimeoutPasses, Contract!Pass
  <2>5. ASSUME LeavesAlone PROVE UNCHANGED Contract!cvars
    BY <2>0, <2>5 DEF LeavesAlone
  <2> QED BY <1>2, <2>0, <2>1, <2>2, <2>3, <2>4, <2>5, StepsOfTheBreaker DEF Contract!Next
<1> QED BY <1>1, <1>2, Invariant, PTL DEF Spec, KeepsContract, Contract!Spec

\* However long a refused client goes on, it is let in only after a pause of a
\* whole window, and a client that made the pause is not refused.
THEOREM WindowIsRenewed == Spec => WindowRenewed
<1>1. ASSUME LimiterTyped, Renewed, PathInv, [Next]_vars
      PROVE  /\ verdict = "refused" => verdict' # "allowed"
             /\ verdict = "quiet" => verdict' # "refused"
  <2> USE RedirectAssumption DEF LimiterTyped, Renewed, Counted, Incremented, Told
  <2>1. ASSUME NEW r \in Requests, NEW code, Allow(r, code)
        PROVE  verdict' = "allowed" /\ verdict # "refused"
    BY <1>1, <2>1 DEF Allow
  <2>2. ASSUME NEW r \in Requests, Refuse(r)
        PROVE  verdict' = "refused" /\ verdict # "quiet"
    BY <1>1, <2>2 DEF Refuse
  <2>3. ASSUME NEW r \in Requests, NEW code, FailOpen(r, code) \/ Retried(r, code)
        PROVE  verdict' = "unknown"
    BY <2>3 DEF FailOpen, Retried
  <2>4. ASSUME Tick \/ RedisRestarts PROVE verdict' \in {verdict, "quiet", "unknown"}
    BY <2>4 DEF Tick, RedisRestarts
  <2>5. ASSUME NEW r \in Requests, Resolve(r) PROVE verdict' = verdict
    BY <2>5 DEF limiterVars, Resolve, Get, Hit, Miss, GetFails, ReadRoute,
       NotFound, Set, SetSucceeds, SetFails, isOverQuota, Blocked,
       NotBlocked, CheckFails, Answer
  <2>6. ASSUME TimeoutPasses \/ KeysChange \/ UNCHANGED vars
        PROVE  verdict' = verdict
    BY <2>6 DEF TimeoutPasses, KeysChange, limiterVars, vars
  <2> QED
    BY <1>1, <2>1, <2>2, <2>3, <2>4, <2>5, <2>6 DEF Next, Handle
<1>2. LimiterTyped /\ Renewed /\ PathInv /\ [Next]_vars =>
        [/\ verdict = "refused" => verdict' # "allowed"
         /\ verdict = "quiet" => verdict' # "refused"]_vars
  BY <1>1
<1> QED BY <1>2, Invariant, PTL DEF Spec, WindowRenewed

\* A flagged tenant's click gets through only with a cause or in a crowd: for any
\* number of requests and any threshold, missing keys alone open the breaker of
\* Redis only if half as many redirects as its threshold ran at once since the last
\* call that succeeded.
THEOREM OnlyCrowdsAreLetThrough == Spec => OnlyCrowdsPass
<1> DEFINE Kept(r) == PassesFlag(r) => trouble' \/ cause' \/ 2 * peak' >= Threshold
<1>1. ASSUME LimiterTyped, Renewed, PathInv, [Next]_vars, NEW r \in Requests
      PROVE  Kept(r)
  <2> SUFFICES ASSUME flag, pc[r] \in {"quota", "checking"}, pc'[r] = "select"
               PROVE  trouble' \/ cause' \/ 2 * peak' >= Threshold
    BY DEF PassesFlag
  <2>0. /\ pc \in [Requests -> Stages]
        /\ breaker # "closed" => trouble \/ 2 * peak >= Threshold
    BY <1>1 DEF PathInv, PathTyped, Blamed
  <2>1. ASSUME NEW q \in Requests, NEW s \in Stages \ {"select"}, pc' = [pc EXCEPT ![q] = s]
        PROVE  FALSE
    BY <2>0, <2>1
  <2> USE DEF Goto, Done, Stages, Running, Calls
  <2>2. ASSUME NEW q \in Requests, Handle(q) PROVE FALSE
    <3>1. pc' = pc \/ pc' = [pc EXCEPT ![q] = "get"]
      BY <2>2 DEF Handle, Allow, Retried, Refuse, FailOpen, Proceed
    <3> QED BY <2>1, <3>1
  <2>3. ASSUME NEW q \in Requests, Resolve(q), ~isOverQuota(q),
               ~NotBlocked(q), ~CheckFails(q)
        PROVE  FALSE
    <3>1. \E s \in Stages \ {"select"} : pc' = [pc EXCEPT ![q] = s]
      BY <2>3 DEF Resolve, Get, Hit, Miss, GetFails, ReadRoute,
         NotFound, Set, SetSucceeds, SetFails, Blocked, Answer
    <3> QED BY <2>1, <3>1
  <2>4. ASSUME NEW q \in Requests, isOverQuota(q) PROVE trouble' \/ 2 * peak' >= Threshold
    <3>1. CASE Begin /\ Goto(q, "checking")
      BY <2>1, <3>1
    <3>2. CASE Rejected
      BY <2>0, <3>2 DEF Rejected, breakerVars, redisBreaker
    <3> QED BY <2>4, <3>1, <3>2 DEF isOverQuota
  <2>5. ASSUME NEW q \in Requests, NotBlocked(q) PROVE FALSE
    BY <2>5 DEF NotBlocked
  <2>6. ASSUME NEW q \in Requests, CheckFails(q) PROVE cause'
    BY <2>6 DEF CheckFails, Fails
  <2>7. ASSUME \/ Tick \/ TimeoutPasses \/ KeysChange \/ RedisRestarts
               \/ UNCHANGED vars
        PROVE  FALSE
    BY <2>7 DEF Tick, TimeoutPasses, KeysChange, RedisRestarts, vars
  <2> QED
    BY <1>1, <2>2, <2>3, <2>4, <2>5, <2>6, <2>7 DEF Next
<1>2. LimiterTyped /\ Renewed /\ PathInv /\ [Next]_vars =>
        [\A r \in Requests : Kept(r)]_vars
  BY <1>1
<1> QED BY <1>2, Invariant, PTL DEF Spec, OnlyCrowdsPass

-----------------------------------------------------------------------------
(* Induction and recursion over sets, which the provers can instantiate.      *)

\* A set of naturals has a least element.
LEMMA Least ==
  ASSUME NEW S \in SUBSET Nat, S # {}
  PROVE  \E n \in S : \A k \in S : n <= k
<1>1. PICK n \in S : \A k \in S : ~(<<k, n>> \in OpToRel(<, Nat))
  BY WFMin, NatLessThanWellFounded
<1>2. ASSUME NEW k \in S, k < n PROVE FALSE
  BY <1>1, <1>2 DEF OpToRel
<1> QED BY <1>2

\* So a set that holds 0 and every successor holds all.
LEMMA Induction ==
  ASSUME NEW S \in SUBSET Nat, 0 \in S, \A n \in S : n + 1 \in S
  PROVE  S = Nat
<1> SUFFICES ASSUME Nat \ S # {} PROVE FALSE
  OBVIOUS
<1>1. PICK n \in Nat \ S : \A k \in Nat \ S : n <= k
  BY Least
<1>2. n # 0 /\ n - 1 \in Nat /\ n - 1 \notin S
  OBVIOUS
<1> QED BY <1>1, <1>2

\* A function on 0..n may be defined step by step.
Follows(g, n, base, step) ==
    \A i \in 0..n : g[i] = IF i = 0 THEN base ELSE step[i][g[i - 1]]

LEMMA Recursion ==
  ASSUME NEW n \in Nat, NEW V, NEW base \in V, NEW step \in [1..n -> [V -> V]]
  PROVE  \E g \in [0..n -> V] : Follows(g, n, base, step)
<1> USE DEF Follows
<1> DEFINE Steps(m) == \E g \in [0..m -> V] : Follows(g, m, base, step)
           S == {m \in Nat : m <= n => Steps(m)}
<1>1. 0 \in S
  <2> DEFINE g == [i \in 0..0 |-> base]
  <2>1. g \in [0..0 -> V] /\ \A i \in 0..0 : i = 0 /\ g[i] = base
    OBVIOUS
  <2>2. Steps(0)
    BY <2>1
  <2> QED BY <2>2
<1>2. ASSUME NEW m \in S PROVE m + 1 \in S
  <2> SUFFICES ASSUME m + 1 <= n PROVE Steps(m + 1)
    OBVIOUS
  <2>1. m \in Nat /\ Steps(m)
    OBVIOUS
  <2>2. PICK g \in [0..m -> V] :
            \A i \in 0..m : g[i] = IF i = 0 THEN base ELSE step[i][g[i - 1]]
    BY <2>1
  <2> DEFINE h == [i \in 0..m + 1 |-> IF i = m + 1 THEN step[m + 1][g[m]] ELSE g[i]]
  <2> HIDE DEF S, Steps
  <2>3. g[m] \in V /\ step[m + 1][g[m]] \in V
    BY <2>1, <2>2
  <2>4. h \in [0..m + 1 -> V] /\ h[m + 1] = step[m + 1][g[m]] /\ \A i \in 0..m : h[i] = g[i]
    BY <2>1, <2>3
  <2> HIDE DEF h
  <2>5. ASSUME NEW i \in 0..m + 1
        PROVE  h[i] = IF i = 0 THEN base ELSE step[i][h[i - 1]]
    <3>1. CASE i = m + 1
      <4>1. i # 0 /\ i - 1 = m /\ h[i - 1] = g[m]
        BY <2>1, <2>4, <3>1
      <4> QED BY <2>4, <3>1, <4>1
    <3>2. CASE i # m + 1
      <4>1. i \in 0..m /\ (i # 0 => i - 1 \in 0..m)
        BY <2>1, <3>2
      <4> QED BY <2>2, <2>4, <4>1
    <3> QED BY <3>1, <3>2
  <2> QED BY <2>4, <2>5 DEF Steps
<1>3. n \in S
  <2> HIDE DEF S
  <2>1. S \in SUBSET Nat
    BY DEF S
  <2> QED BY <1>1, <1>2, <2>1, Induction
<1> QED BY <1>3

-----------------------------------------------------------------------------
(* The filters. *)

Distinct(dests) == \A i, j \in DOMAIN dests : dests[i].id = dests[j].id => i = j

\* Only leaves the destinations that are kept, each once.
LEMMA OnlyKept ==
  ASSUME NEW D, NEW dests \in Seq(D), NEW kept, Distinct(dests)
  PROVE  /\ Only(dests, kept) \in Seq(D)
         /\ Distinct(Only(dests, kept))
         /\ Range(Only(dests, kept)) = Range(dests) \cap kept
<1> DEFINE n == Len(dests)
           With(i, s) == IF dests[i] \in kept THEN Append(s, dests[i]) ELSE s
           step == [i \in 1..n |-> [s \in Seq(D) |-> With(i, s)]]
           taken == CHOOSE t : t = [i \in 0..n |-> IF i = 0 THEN <<>> ELSE
                        IF dests[i] \in kept THEN Append(t[i - 1], dests[i]) ELSE t[i - 1]]
<1>0. n \in Nat /\ dests \in [1..n -> D] /\ DOMAIN dests = 1..n
  OBVIOUS
<1>1. Only(dests, kept) = taken[n]
  BY DEF Only
<1>2. step \in [1..n -> [Seq(D) -> Seq(D)]]
  <2>1. \A i \in 1..n, s \in Seq(D) : With(i, s) \in Seq(D)
    BY <1>0
  <2> HIDE DEF With
  <2> QED BY <2>1
<1>3. PICK g \in [0..n -> Seq(D)] :
          \A i \in 0..n : g[i] = IF i = 0 THEN <<>> ELSE step[i][g[i - 1]]
  <2> DEFINE V == Seq(D)
             base == <<>>
  <2>1. base \in V /\ n \in Nat /\ step \in [1..n -> [V -> V]]
    BY <1>0, <1>2
  <2> HIDE DEF step, n, V, base, taken, With
  <2>2. \E g \in [0..n -> V] : Follows(g, n, base, step)
    BY <2>1, Recursion
  <2> QED BY <2>2 DEF V, base, Follows
<1>4. g = [i \in 0..n |-> IF i = 0 THEN <<>> ELSE
               IF dests[i] \in kept THEN Append(g[i - 1], dests[i]) ELSE g[i - 1]]
  <2>1. ASSUME NEW i \in 0..n, i # 0 PROVE step[i][g[i - 1]] = With(i, g[i - 1])
    <3>1. i \in 1..n /\ g[i - 1] \in Seq(D)
      BY <1>0, <2>1
    <3> HIDE DEF With
    <3> QED BY <3>1
  <2> HIDE DEF step
  <2> QED BY <1>3, <2>1
<1>5. taken = [i \in 0..n |-> IF i = 0 THEN <<>> ELSE
               IF dests[i] \in kept THEN Append(taken[i - 1], dests[i]) ELSE taken[i - 1]]
  BY <1>4
<1> HIDE DEF taken, step
<1> DEFINE Kept(i) == /\ taken[i] \in Seq(D) /\ Distinct(taken[i])
                      /\ Range(taken[i]) = {dests[j] : j \in 1..i} \cap kept
           S == {i \in Nat : i <= n => Kept(i)}
<1>6. 0 \in S
  <2>1. taken[0] = <<>>
    BY <1>0, <1>5
  <2>2. <<>> \in Seq(D) /\ Distinct(<<>>) /\ Range(<<>>) = {}
    BY DEF Distinct, Range
  <2>3. {dests[j] : j \in 1..0} = {}
    OBVIOUS
  <2> QED BY <2>1, <2>2, <2>3
<1>7. ASSUME NEW i \in S PROVE i + 1 \in S
  <2> SUFFICES ASSUME i + 1 <= n PROVE Kept(i + 1)
    OBVIOUS
  <2> DEFINE d == dests[i + 1]
             s == taken[i]
  <2>1. /\ s \in Seq(D) /\ Distinct(s) /\ Range(s) = {dests[j] : j \in 1..i} \cap kept
        /\ d \in D /\ i \in Nat
    BY <1>0
  <2>2. taken[i + 1] = IF d \in kept THEN Append(s, d) ELSE s
    <3>1. i + 1 \in 0..n /\ i + 1 # 0 /\ (i + 1) - 1 = i
      BY <1>0, <2>1
    <3> QED BY <1>5, <3>1
  <2>3. {dests[j] : j \in 1..i + 1} = {dests[j] : j \in 1..i} \cup {d}
    <3>1. 1..i + 1 = (1..i) \cup {i + 1}
      BY <2>1
    <3> QED BY <3>1
  <2>4. \A j \in 1..i : dests[j].id # d.id
    BY <1>0, <2>1 DEF Distinct
  <2> HIDE DEF d, s
  <2>5. CASE d \in kept
    <3>1. Append(s, d) \in Seq(D) /\ Len(Append(s, d)) = Len(s) + 1 /\ Len(s) \in Nat
      BY <2>1
    <3>2. /\ \A j \in 1..Len(s) : Append(s, d)[j] = s[j] /\ s[j] \in Range(s)
          /\ Append(s, d)[Len(s) + 1] = d
          /\ DOMAIN s = 1..Len(s) /\ DOMAIN Append(s, d) = 1..Len(s) + 1
      BY <2>1, <3>1 DEF Range
    <3>3. Range(Append(s, d)) = Range(s) \cup {d}
      <4>1. 1..Len(s) + 1 = (1..Len(s)) \cup {Len(s) + 1}
        BY <3>1
      <4> QED BY <3>2, <4>1 DEF Range
    <3>4. \A j \in 1..Len(s) : s[j].id # d.id
      BY <2>1, <2>4, <3>2
    <3>5. Distinct(Append(s, d))
      <4> SUFFICES ASSUME NEW j \in 1..Len(s) + 1, NEW k \in 1..Len(s) + 1,
                          Append(s, d)[j].id = Append(s, d)[k].id
                   PROVE  j = k
        BY <3>2 DEF Distinct
      <4>1. CASE j \in 1..Len(s) /\ k \in 1..Len(s)
        BY <2>1, <3>2, <4>1 DEF Distinct
      <4>2. CASE j = Len(s) + 1 \/ k = Len(s) + 1
        BY <3>1, <3>2, <3>4, <4>2
      <4> QED BY <3>1, <4>1, <4>2
    <3> QED BY <2>1, <2>2, <2>3, <2>5, <3>1, <3>3, <3>5
  <2>6. CASE d \notin kept
    BY <2>1, <2>2, <2>3, <2>6
  <2> QED BY <2>5, <2>6
<1>8. n \in S
  <2>1. S \in SUBSET Nat
    OBVIOUS
  <2> HIDE DEF S
  <2> QED BY <1>0, <1>6, <1>7, <2>1, Induction
<1>9. Range(dests) = {dests[j] : j \in 1..n}
  BY <1>0 DEF Range
<1> HIDE DEF n
<1> QED BY <1>1, <1>0, <1>8, <1>9

-----------------------------------------------------------------------------
(* The strategies. *)

Destinations ==
    [id : Nat, weight : Nat, cooling : BOOLEAN, score : Nat, allowed : SUBSET Countries]

Weighted(dests) == dests \in Seq(Destinations)

\* What a route holds.
LEMMA Weights ==
  ASSUME NEW dests, Weighted(dests)
  PROVE  /\ Len(dests) \in Nat /\ DOMAIN dests = 1..Len(dests)
         /\ \A i \in 1..Len(dests) : dests[i] \in Destinations /\ dests[i].weight \in Nat
<1>1. /\ Len(dests) \in Nat /\ DOMAIN dests = 1..Len(dests)
      /\ \A i \in 1..Len(dests) : dests[i] \in Destinations
  BY DEF Weighted
<1>2. \A d \in Destinations : d.weight \in Nat
  BY DEF Destinations
<1> QED BY <1>1, <1>2

\* The running totals are what they are meant to be.
LEMMA Totals ==
  ASSUME NEW dests, Weighted(dests)
  PROVE  /\ Cumulative(dests) \in [0..Len(dests) -> Nat]
         /\ Cumulative(dests)[0] = 0
         /\ \A i \in 1..Len(dests) :
                Cumulative(dests)[i] = Cumulative(dests)[i - 1] + dests[i].weight
<1> DEFINE n == Len(dests)
           step == [i \in 1..n |-> [t \in Nat |-> t + dests[i].weight]]
           C == CHOOSE c : c = [i \in 0..n |->
                    IF i = 0 THEN 0 ELSE c[i - 1] + dests[i].weight]
<1>0. n \in Nat /\ \A i \in 1..n : dests[i].weight \in Nat
  BY Weights
<1>1. Cumulative(dests) = C
  BY DEF Cumulative
<1>2. PICK g \in [0..n -> Nat] : Follows(g, n, 0, step)
  <2>1. step \in [1..n -> [Nat -> Nat]]
    BY <1>0
  <2> HIDE DEF step, n, C
  <2> QED BY <1>0, <2>1, Recursion
<1>3. g = [i \in 0..n |-> IF i = 0 THEN 0 ELSE g[i - 1] + dests[i].weight]
  <2>1. ASSUME NEW i \in 0..n, i # 0 PROVE step[i][g[i - 1]] = g[i - 1] + dests[i].weight
    <3>1. i \in 1..n /\ g[i - 1] \in Nat
      BY <1>0, <2>1
    <3> QED BY <3>1
  <2> HIDE DEF step
  <2> QED BY <1>2, <2>1 DEF Follows
<1>4. C = [i \in 0..n |-> IF i = 0 THEN 0 ELSE C[i - 1] + dests[i].weight]
  BY <1>3
<1> HIDE DEF C, step
<1> DEFINE S == {i \in Nat : i <= n => C[i] \in Nat}
<1>5. 0 \in S
  BY <1>0, <1>4
<1>6. ASSUME NEW i \in S PROVE i + 1 \in S
  <2> SUFFICES ASSUME i + 1 <= n PROVE C[i + 1] \in Nat
    OBVIOUS
  <2>1. i \in Nat /\ C[i] \in Nat
    BY <1>0
  <2>2. i + 1 \in 0..n /\ i + 1 # 0 /\ (i + 1) - 1 = i /\ i + 1 \in 1..n
    BY <1>0, <2>1
  <2>3. C[i + 1] = C[i] + dests[i + 1].weight
    BY <1>4, <2>2
  <2> QED BY <1>0, <2>1, <2>2, <2>3
<1>7. \A i \in 0..n : C[i] \in Nat
  <2>1. S \in SUBSET Nat
    OBVIOUS
  <2>2. S = Nat
    <3> HIDE DEF S
    <3> QED BY <1>5, <1>6, <2>1, Induction
  <2> QED BY <1>0, <2>2
<1>8. C \in [0..n -> Nat] /\ C[0] = 0
  BY <1>0, <1>4, <1>7
<1>9. \A i \in 1..n : C[i] = C[i - 1] + dests[i].weight
  BY <1>0, <1>4
<1> QED BY <1>1, <1>8, <1>9

\* They grow, so a draw lies in one step of theirs at most.
LEMMA Growing ==
  ASSUME NEW dests, Weighted(dests), NEW i \in 0..Len(dests), NEW j \in 0..Len(dests), i <= j
  PROVE  Cumulative(dests)[i] <= Cumulative(dests)[j]
<1> DEFINE C == Cumulative(dests)
           S == {k \in Nat : i + k <= Len(dests) => C[i] <= C[i + k]}
<1>0. /\ Len(dests) \in Nat /\ C \in [0..Len(dests) -> Nat]
      /\ \A k \in 1..Len(dests) : C[k] = C[k - 1] + dests[k].weight /\ dests[k].weight \in Nat
  BY Totals, Weights
<1> HIDE DEF C
<1>1. 0 \in S
  BY <1>0
<1>2. ASSUME NEW k \in S PROVE k + 1 \in S
  <2> SUFFICES ASSUME i + (k + 1) <= Len(dests) PROVE C[i] <= C[i + (k + 1)]
    OBVIOUS
  <2>1. k \in Nat /\ C[i] <= C[i + k]
    BY <1>0
  <2>2. i + k \in 0..Len(dests) /\ i + (k + 1) \in 1..Len(dests) /\ (i + (k + 1)) - 1 = i + k
          /\ i \in 0..Len(dests)
    BY <1>0, <2>1
  <2>3. C[i + (k + 1)] = C[i + k] + dests[i + (k + 1)].weight
    BY <1>0, <2>2
  <2>4. dests[i + (k + 1)].weight \in Nat /\ C[i] \in Nat /\ C[i + k] \in Nat
    BY <1>0, <2>2
  <2> QED BY <2>1, <2>3, <2>4
<1>3. S = Nat
  <2>1. S \in SUBSET Nat
    OBVIOUS
  <2> HIDE DEF S
  <2> QED BY <1>1, <1>2, <2>1, Induction
<1>4. j - i \in S /\ i + (j - i) = j
  <2> HIDE DEF S
  <2> QED BY <1>0, <1>3
<1> QED BY <1>0, <1>4 DEF C

\* Every draw below the total falls to the destination in whose step it lies.
LEMMA Drawn ==
  ASSUME NEW dests, Weighted(dests), TotalWeight(dests) > 0,
         NEW r \in 0..TotalWeight(dests) - 1
  PROVE  \E k \in 1..Len(dests) :
             /\ SelectWeighted(dests, r) = dests[k]
             /\ Cumulative(dests)[k - 1] <= r /\ r < Cumulative(dests)[k]
<1> DEFINE n == Len(dests)
           C == Cumulative(dests)
           S == {i \in 1..n : r < C[i]}
           First(i) == r < C[i] /\ \A j \in 1..i - 1 : r >= C[j]
           k == CHOOSE i \in DOMAIN dests : First(i)
<1>0. /\ n \in Nat /\ C \in [0..n -> Nat] /\ C[0] = 0 /\ DOMAIN dests = 1..n
      /\ C[n] = TotalWeight(dests) /\ r \in Nat /\ r < C[n]
  <2>1. /\ n \in Nat /\ C \in [0..n -> Nat] /\ C[0] = 0 /\ DOMAIN dests = 1..n
        /\ C[n] = TotalWeight(dests) /\ C[n] \in Nat
    BY Totals, Weights DEF TotalWeight
  <2> HIDE DEF C, n
  <2> QED BY <2>1
<1>1. SelectWeighted(dests, r) = dests[k]
  BY <1>0 DEF SelectWeighted
<1> HIDE DEF C, n
<1>2. n \in S /\ S \in SUBSET Nat
  BY <1>0
<1>3. PICK i \in S : \A j \in S : i <= j
  <2> HIDE DEF S
  <2> QED BY <1>2, Least
<1>4. i \in DOMAIN dests /\ First(i)
  BY <1>0, <1>3
<1>5. k \in 1..n /\ First(k)
  <2> HIDE DEF First
  <2> QED BY <1>0, <1>4
<1> HIDE DEF k
<1>6. C[k - 1] <= r
  <2>1. CASE k = 1
    BY <1>0, <2>1
  <2>2. CASE k # 1
    <3>1. k - 1 \in 1..k - 1 /\ k - 1 \in 0..n
      BY <1>0, <1>5, <2>2
    <3> QED BY <1>0, <1>5, <3>1
  <2> QED BY <2>1, <2>2
<1> QED BY <1>1, <1>5, <1>6 DEF C, n

\* So each destination has as many draws as its weight says.
LEMMA Shares ==
  ASSUME NEW dests, Weighted(dests), Distinct(dests), TotalWeight(dests) > 0,
         NEW k \in 1..Len(dests)
  PROVE  Cardinality({r \in 0..TotalWeight(dests) - 1 :
                          SelectWeighted(dests, r).id = dests[k].id}) = dests[k].weight
<1> DEFINE n == Len(dests)
           C == Cumulative(dests)
           total == TotalWeight(dests)
<1>0. /\ n \in Nat /\ C \in [0..n -> Nat] /\ C[0] = 0 /\ DOMAIN dests = 1..n
      /\ C[n] = total /\ C[k] = C[k - 1] + dests[k].weight /\ dests[k].weight \in Nat
      /\ k \in 0..n /\ k - 1 \in 0..n /\ n \in 0..n /\ k \in 1..n
  BY Totals, Weights DEF TotalWeight
<1>1. C[k] <= C[n]
  BY <1>0, Growing
<1>2. ASSUME NEW r \in 0..total - 1
      PROVE  (SelectWeighted(dests, r).id = dests[k].id) <=> (C[k - 1] <= r /\ r < C[k])
  <2>1. PICK j \in 1..n : /\ SelectWeighted(dests, r) = dests[j]
                          /\ C[j - 1] <= r /\ r < C[j]
    BY <1>2, Drawn
  <2>2. (dests[j].id = dests[k].id) <=> (j = k)
    BY <1>0 DEF Distinct
  <2>3. ASSUME C[k - 1] <= r, r < C[k] PROVE j = k
    <3>1. j < k => C[j] <= C[k - 1]
      BY <1>0, Growing
    <3>2. k < j => C[k] <= C[j - 1]
      BY <1>0, Growing
    <3>3. r \in Int /\ C[j] \in Int /\ C[j - 1] \in Int /\ C[k] \in Int /\ C[k - 1] \in Int
      BY <1>0
    <3> HIDE DEF C, n, total
    <3> QED BY <2>1, <2>3, <3>1, <3>2, <3>3
  <2> QED BY <2>1, <2>2, <2>3
<1> HIDE DEF n, C, total
<1>3. {r \in 0..total - 1 : SelectWeighted(dests, r).id = dests[k].id} = C[k - 1]..C[k] - 1
  <2>1. \A r \in 0..total - 1 :
            (SelectWeighted(dests, r).id = dests[k].id) <=> (r \in C[k - 1]..C[k] - 1)
    BY <1>0, <1>2
  <2>2. C[k - 1]..C[k] - 1 \subseteq 0..total - 1
    BY <1>0, <1>1
  <2> QED BY <2>1, <2>2
<1>4. Cardinality(C[k - 1]..C[k] - 1) = dests[k].weight
  <2>1. C[k - 1] \in Int /\ C[k] - 1 \in Int
    BY <1>0
  <2>2. Cardinality(C[k - 1]..C[k] - 1) =
            IF C[k - 1] > C[k] - 1 THEN 0 ELSE (C[k] - 1) - C[k - 1] + 1
    BY <2>1, FS_Interval
  <2> QED BY <1>0, <2>1, <2>2
<1> QED BY <1>3, <1>4 DEF total

\* Any Len turns in a row reach every destination.
LEMMA Turns ==
  ASSUME NEW dests, Weighted(dests), NEW first \in 1..Len(dests)
  PROVE  {SelectRoundRobin(dests, t).id : t \in first..first + Len(dests) - 1}
             = {dests[k].id : k \in 1..Len(dests)}
<1> DEFINE n == Len(dests)
           Place(t) == ((t - 1) % n) + 1
<1>0. n \in Nat /\ first \in 1..n /\ n > 0
  BY Weights
<1>1. \A t : SelectRoundRobin(dests, t) = dests[Place(t)]
  BY DEF SelectRoundRobin
<1> HIDE DEF n
<1>2. ASSUME NEW t \in first..first + n - 1
      PROVE  Place(t) = IF t <= n THEN t ELSE t - n
  <2>1. t \in Int /\ 1 <= t /\ t <= 2 * n - 1
    BY <1>0
  <2>2. CASE t <= n
    <3>1. t - 1 \in 0..n - 1
      BY <1>0, <2>1, <2>2
    <3>2. (t - 1) % n = t - 1
      BY <1>0, <3>1
    <3> QED BY <2>1, <2>2, <3>2
  <2>3. CASE t > n
    <3>1. t - 1 - n \in 0..n - 1
      BY <1>0, <2>1, <2>3
    <3>2. (t - 1) % n = t - 1 - n
      BY <1>0, <2>1, <3>1
    <3> QED BY <1>0, <2>1, <2>3, <3>2
  <2> QED BY <2>1, <2>2, <2>3, <1>0
<1> HIDE DEF Place
<1>3. ASSUME NEW t \in first..first + n - 1 PROVE Place(t) \in 1..n
  BY <1>0, <1>2
<1>4. ASSUME NEW k \in 1..n PROVE \E t \in first..first + n - 1 : Place(t) = k
  <2>1. CASE k >= first
    <3>1. k \in first..first + n - 1
      BY <1>0, <2>1
    <3> QED BY <1>0, <1>2, <3>1
  <2>2. CASE k < first
    <3>1. k + n \in first..first + n - 1 /\ k + n > n /\ (k + n) - n = k
      BY <1>0, <2>2
    <3> QED BY <1>0, <1>2, <3>1
  <2> QED BY <1>0, <2>1, <2>2
<1> QED BY <1>1, <1>3, <1>4 DEF n

\* What the filters leave is what the reference lets serve the visitor.
LEMMA Left ==
  ASSUME SelectionAssumption, NEW dests, Weighted(dests), Distinct(dests),
         NEW country \in Countries \cup {NoCountry}
  PROVE  /\ Weighted(Eligible(dests, country)) /\ Distinct(Eligible(dests, country))
         /\ Range(Eligible(dests, country)) = {d \in Range(dests) : MayServe(d, country)}
<1> DEFINE cool == {d \in Range(dests) : ~d.cooling /\ ~IsRisky(d)}
           s == filterDestinations(dests)
           here == {d \in Range(s) : d.allowed = {} \/ country \in d.allowed}
<1>1. /\ s \in Seq(Destinations) /\ Distinct(s) /\ Range(s) = cool
  <2> HIDE DEF cool
  <2>1. s = Only(dests, cool)
    BY DEF filterDestinations, cool
  <2>2. cool \subseteq Range(dests)
    BY DEF cool
  <2>3. dests \in Seq(Destinations)
    BY DEF Weighted
  <2>4. /\ Only(dests, cool) \in Seq(Destinations) /\ Distinct(Only(dests, cool))
        /\ Range(Only(dests, cool)) = Range(dests) \cap cool
    BY <2>3, OnlyKept
  <2> HIDE DEF s
  <2> QED BY <2>1, <2>2, <2>4
<1>2. \A d \in Range(dests) : IsRisky(d) <=> ~(d.score < MaxRiskScore)
  <2>1. \A d \in Destinations : d.score \in Nat
    BY DEF Destinations
  <2>2. Range(dests) \subseteq Destinations
    BY Weights DEF Range
  <2> QED BY <2>1, <2>2 DEF IsRisky, SelectionAssumption
<1> HIDE DEF s
<1>3. CASE country = NoCountry
  <2>1. Eligible(dests, country) = s
    BY <1>3 DEF Eligible, FilterByCountry, s
  <2>2. Range(s) = {d \in Range(dests) : MayServe(d, country)}
    BY <1>1, <1>2, <1>3 DEF MayServe
  <2> QED BY <1>1, <2>1, <2>2 DEF Weighted
<1>4. CASE country # NoCountry
  <2> HIDE DEF here, cool
  <2>1. Eligible(dests, country) = Only(s, here)
    BY <1>4 DEF Eligible, FilterByCountry, s, here
  <2>2. /\ Only(s, here) \in Seq(Destinations) /\ Distinct(Only(s, here))
        /\ Range(Only(s, here)) = Range(s) \cap here
    BY <1>1, OnlyKept
  <2>3. Range(s) \cap here = {d \in Range(dests) : MayServe(d, country)}
    BY <1>1, <1>2, <1>4 DEF MayServe, here, cool
  <2> QED BY <2>1, <2>2, <2>3 DEF Weighted
<1> QED BY <1>3, <1>4

\* A destination's id is its position, in the routes that are shared.
Numbered(dests) == Weighted(dests) /\ \A i \in DOMAIN dests : dests[i].id = i

LEMMA Fair == ASSUME SelectionAssumption, NEW dests, Numbered(dests) PROVE FairlyShared(dests)
<1> SUFFICES ASSUME NEW country \in Countries \cup {NoCountry}
             PROVE
    LET rest == Eligible(dests, country)
        may == {i \in DOMAIN dests : MayServe(dests[i], country)}
        total == TotalWeight(rest)
        Draws(i) == {r \in 0..total - 1 : SelectWeighted(rest, r).id = i}
        Turned(first) == {SelectRoundRobin(rest, t).id : t \in first..first + Len(rest) - 1}
    IN  /\ \A i \in DOMAIN dests :
               Cardinality(Draws(i)) = IF total > 0 /\ i \in may THEN dests[i].weight ELSE 0
        /\ rest # <<>> => SelectWeighted(rest, 0).id \in may
        /\ \A first \in 1..Len(rest) : Turned(first) = may
  BY DEF FairlyShared
<1> DEFINE rest == Eligible(dests, country)
           may == {i \in DOMAIN dests : MayServe(dests[i], country)}
           total == TotalWeight(rest)
           Draws(i) == {r \in 0..total - 1 : SelectWeighted(rest, r).id = i}
<1>1. Weighted(dests) /\ Distinct(dests) /\ \A i \in DOMAIN dests : dests[i].id = i
  BY DEF Numbered, Distinct
<1>2. /\ Weighted(rest) /\ Distinct(rest)
      /\ Range(rest) = {d \in Range(dests) : MayServe(d, country)}
  BY <1>1, Left
<1> HIDE DEF rest
<1>3. /\ Len(rest) \in Nat /\ DOMAIN rest = 1..Len(rest)
      /\ \A k \in 1..Len(rest) : rest[k].id \in may /\ rest[k] = dests[rest[k].id]
      /\ \A i \in may : \E k \in 1..Len(rest) : rest[k] = dests[i] /\ rest[k].id = i
  <2>1. Len(rest) \in Nat /\ DOMAIN rest = 1..Len(rest)
    BY <1>2, Weights
  <2>2. Range(rest) = {rest[k] : k \in 1..Len(rest)}
    BY <2>1 DEF Range
  <2>3. Range(dests) = {dests[i] : i \in DOMAIN dests}
    BY DEF Range
  <2>4. ASSUME NEW k \in 1..Len(rest) PROVE rest[k].id \in may /\ rest[k] = dests[rest[k].id]
    <3>1. rest[k] \in Range(dests) /\ MayServe(rest[k], country)
      BY <1>2, <2>2
    <3>2. PICK i \in DOMAIN dests : rest[k] = dests[i]
      BY <2>3, <3>1
    <3> QED BY <1>1, <3>1, <3>2
  <2>5. ASSUME NEW i \in may PROVE \E k \in 1..Len(rest) : rest[k] = dests[i] /\ rest[k].id = i
    <3>1. dests[i] \in Range(rest)
      BY <1>2, <2>3
    <3> QED BY <1>1, <2>2, <3>1
  <2> QED BY <2>1, <2>4, <2>5
<1>4. total \in Nat /\ (total > 0 => rest # <<>>)
  <2>1. Cumulative(rest) \in [0..Len(rest) -> Nat] /\ Cumulative(rest)[0] = 0
    BY <1>2, Totals
  <2>2. rest = <<>> => Len(rest) = 0
    OBVIOUS
  <2> QED BY <1>3, <2>1, <2>2 DEF TotalWeight
<1>5. ASSUME NEW i \in DOMAIN dests
      PROVE  Cardinality(Draws(i)) = IF total > 0 /\ i \in may THEN dests[i].weight ELSE 0
  <2>1. CASE total > 0 /\ i \in may
    <3>1. PICK k \in 1..Len(rest) : rest[k] = dests[i] /\ rest[k].id = i
      BY <1>3, <2>1
    <3>2. Cardinality({r \in 0..TotalWeight(rest) - 1 :
                           SelectWeighted(rest, r).id = rest[k].id}) = rest[k].weight
      BY <1>2, <2>1, Shares
    <3> QED BY <2>1, <3>1, <3>2
  <2>2. CASE ~(total > 0 /\ i \in may)
    <3>1. Draws(i) = {}
      <4> SUFFICES ASSUME NEW r \in 0..total - 1, SelectWeighted(rest, r).id = i PROVE FALSE
        OBVIOUS
      <4>1. total > 0
        BY <1>4
      <4>2. PICK k \in 1..Len(rest) : SelectWeighted(rest, r) = rest[k]
        BY <1>2, <4>1, Drawn
      <4> QED BY <1>3, <2>2, <4>1, <4>2
    <3>2. Cardinality({}) = 0
      BY FS_EmptySet
    <3> HIDE DEF Draws
    <3> QED BY <2>2, <3>1, <3>2
  <2> QED BY <2>1, <2>2
<1>6. ASSUME rest # <<>> PROVE SelectWeighted(rest, 0).id \in may
  <2>1. CASE total = 0
    <3>1. 1 \in 1..Len(rest)
      BY <1>2, <1>3, <1>6 DEF Weighted
    <3>2. SelectWeighted(rest, 0) = Head(rest)
      BY <2>1 DEF SelectWeighted
    <3>3. Head(rest) = rest[1]
      BY <1>2, <1>6 DEF Weighted
    <3> QED BY <1>3, <3>1, <3>2, <3>3
  <2>2. CASE total > 0
    <3>1. 0 \in 0..total - 1
      BY <1>4, <2>2
    <3>2. PICK k \in 1..Len(rest) : SelectWeighted(rest, 0) = rest[k]
      BY <1>2, <2>2, <3>1, Drawn
    <3> QED BY <1>3, <3>2
  <2> QED BY <1>4, <2>1, <2>2
<1>7. ASSUME NEW first \in 1..Len(rest)
      PROVE  {SelectRoundRobin(rest, t).id : t \in first..first + Len(rest) - 1} = may
  <2>1. {rest[k].id : k \in 1..Len(rest)} = may
    BY <1>3
  <2> QED BY <1>2, <2>1, Turns
<1> QED BY <1>5, <1>6, <1>7 DEF rest

\* The routes the runs take are such routes.
LEMMA RoutesNumbered ==
  ASSUME SelectionAssumption, NEW dests \in Routes \cup {<<>>}
  PROVE  Numbered(dests)
<1>1. CASE dests = <<>>
  BY <1>1 DEF Numbered, Weighted
<1>2. CASE dests \in Routes
  <2> DEFINE Kind == [weight : 0..MaxWeight, cooling : BOOLEAN, score : {0, MaxRiskScore},
                      allowed : SUBSET Countries]
             Record(i, d) == [id |-> i, weight |-> d.weight, cooling |-> d.cooling,
                              score |-> d.score, allowed |-> d.allowed]
  <2>1. \E f \in UNION {[1..n -> Kind] : n \in 1..MaxLength} :
            dests = [i \in DOMAIN f |-> Record(i, f[i])]
    BY <1>2 DEF Routes
  <2>2. PICK n \in 1..MaxLength :
            \E f \in [1..n -> Kind] : dests = [i \in DOMAIN f |-> Record(i, f[i])]
    <3> HIDE DEF Kind, Record
    <3> QED BY <2>1
  <2>3. PICK f \in [1..n -> Kind] : dests = [i \in DOMAIN f |-> Record(i, f[i])]
    BY <2>2
  <2>4. n \in Nat /\ DOMAIN dests = 1..n /\ DOMAIN f = 1..n
    BY <2>3 DEF SelectionAssumption
  <2>5. ASSUME NEW i \in 1..n PROVE dests[i] \in Destinations /\ dests[i].id = i
    <3>1. f[i] \in Kind
      OBVIOUS
    <3>2. /\ f[i].weight \in Nat /\ f[i].cooling \in BOOLEAN /\ f[i].score \in Nat
          /\ f[i].allowed \in SUBSET Countries
      BY <3>1 DEF SelectionAssumption
    <3>3. dests[i] = [id |-> i, weight |-> f[i].weight, cooling |-> f[i].cooling,
                      score |-> f[i].score, allowed |-> f[i].allowed]
      BY <2>3, <2>4
    <3> HIDE DEF Kind
    <3> QED BY <2>4, <3>2, <3>3 DEF Destinations
  <2>6. dests \in [1..n -> Destinations]
    BY <2>3, <2>4, <2>5
  <2> QED BY <2>4, <2>5, <2>6 DEF Numbered, Weighted
<1> QED BY <1>1, <1>2

\* Whatever route a redirect chooses from, draws are shared by the weights of the
\* destinations the filters leave, and turns evenly (Resolve, SelectWeighted,
\* SelectRoundRobin).
THEOREM SharesAreFair == MCSpec => []SelectionFair
<1>1. MCInit => route \in Routes \cup {<<>>}
  BY DEF MCInit
<1>2. route \in Routes \cup {<<>>} /\ [MCNext]_<<vars, route>> => (route \in Routes \cup {<<>>})'
  BY DEF MCNext
<1>3. route \in Routes \cup {<<>>} => SelectionFair
  BY RoutesNumbered, Fair, SelectionAssumption DEF SelectionFair
<1> QED BY <1>1, <1>2, <1>3, PTL DEF MCSpec

=============================================================================
