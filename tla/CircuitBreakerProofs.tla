------------------------ MODULE CircuitBreakerProofs ------------------------
(***************************************************************************)
(* The circuit breaker's safety, for every set of callers, threshold and   *)
(* timeout.  BInv is the inductive invariant: besides the typing it says   *)
(* what a closed breaker's count, an open window and the consecutive       *)
(* failures have to do with each other.                                    *)
(***************************************************************************)
EXTENDS CircuitBreaker, FiniteSetTheorems, TLAPS

\* The counter never runs ahead of the consecutive failures it stands for.
CountIsStreak == failures <= streak \/ streak = Threshold

BInv ==
    /\ TypeOK
    /\ ClosedBelowThreshold
    /\ WindowKept
    /\ CountIsStreak

\* The invariant is inductive: no critical section of Call, no passing of time
\* and no change of the service breaks it.
LEMMA BInvInductive == BInv /\ [Next]_vars => BInv'
<1> SUFFICES ASSUME BInv, [Next]_vars
             PROVE  BInv'
  OBVIOUS
<1> USE BreakerAssumption DEF BInv, TypeOK, ClosedBelowThreshold, WindowKept,
        WithinWindow, CountIsStreak, InFn, Returned
<1>1. ASSUME NEW c \in Callers, BeginClosed(c) PROVE BInv'
  BY <1>1 DEF BeginClosed, Admit
<1>2. ASSUME NEW c \in Callers, Reject(c) PROVE BInv'
  BY <1>2 DEF Reject
<1>3. ASSUME NEW c \in Callers, HalfOpen(c) PROVE BInv'
  <2>1. TypeOK'
    BY <1>3 DEF HalfOpen, Admit
  <2>2. failures' < Threshold
    BY <1>3 DEF HalfOpen
  <2>3. WindowKept'
    BY <1>3 DEF HalfOpen
  <2>4. CountIsStreak'
    BY <1>3 DEF HalfOpen
  <2> QED BY <2>1, <2>2, <2>3, <2>4
<1>4. ASSUME NEW c \in Callers, FnFails(c) PROVE BInv'
  <2>1. CASE Trips(failures')
    BY <1>4, <2>1 DEF FnFails, Trips
  <2>2. CASE ~Trips(failures')
    BY <1>4, <2>2 DEF FnFails, Trips
  <2> QED BY <2>1, <2>2
<1>5. ASSUME NEW c \in Callers, FnSucceeds(c) PROVE BInv'
  BY <1>5 DEF FnSucceeds
<1>6. ASSUME Tick PROVE BInv'
  BY <1>6 DEF Tick
<1>7. ASSUME ServiceChanges PROVE BInv'
  BY <1>7 DEF ServiceChanges
<1>8. CASE UNCHANGED vars
  BY <1>8 DEF vars
<1> QED
  BY <1>1, <1>2, <1>3, <1>4, <1>5, <1>6, <1>7, <1>8 DEF Next, Call

\* A new breaker satisfies it.
LEMMA BInvInit == Init => BInv
<1> SUFFICES ASSUME Init PROVE BInv
  OBVIOUS
<1> USE BreakerAssumption DEF Init
<1>1. TypeOK
  <2>1. failures \in Nat /\ age \in 0..Timeout /\ streak \in 0..Threshold
    OBVIOUS
  <2>2. open \in BOOLEAN /\ up \in BOOLEAN
    OBVIOUS
  <2>3. status \in [Callers -> InFn \cup Returned]
    BY DEF Returned
  <2> QED
    BY <2>1, <2>2, <2>3 DEF TypeOK
<1>2. failures < Threshold
  OBVIOUS
<1>3. WindowKept
  BY DEF WindowKept, WithinWindow
<1>4. CountIsStreak
  BY DEF CountIsStreak
<1> QED
  BY <1>1, <1>2, <1>3, <1>4 DEF BInv, ClosedBelowThreshold

\* So every reachable state does.
LEMMA BInvInvariant == Spec => []BInv
  BY BInvInit, BInvInductive, PTL DEF Spec

-----------------------------------------------------------------------------
\* Type correctness of the breaker's fields, for any number of goroutines.
THEOREM TypeCorrect == Spec => []TypeOK
  BY BInvInvariant, PTL DEF BInv

\* A breaker whose openAt is zero counts fewer failures than the threshold.
THEOREM Closed == Spec => []ClosedBelowThreshold
  BY BInvInvariant, PTL DEF BInv

\* Nothing, a late success included, ends a back-off window early.
THEOREM Window == Spec => []WindowKept
  BY BInvInvariant, PTL DEF BInv

\* fn is never started within the timeout after the latest opening.
THEOREM BacksOff == Spec => BackOff
<1>1. ASSUME BInv, [Next]_vars, NEW c \in Callers, Starts(c)
      PROVE  age = Timeout
  <2> USE DEF BInv, TypeOK, WindowKept, WithinWindow, Starts, InFn, Returned
  <2>1. ASSUME NEW d \in Callers, BeginClosed(d) PROVE age = Timeout
    BY <1>1, <2>1, BreakerAssumption DEF BeginClosed
  <2>2. ASSUME NEW d \in Callers, Reject(d) PROVE FALSE
    BY <1>1, <2>2 DEF Reject
  <2>3. ASSUME NEW d \in Callers, HalfOpen(d) PROVE age = Timeout
    BY <1>1, <2>3, BreakerAssumption DEF HalfOpen
  <2>4. ASSUME NEW d \in Callers, FnFails(d) \/ FnSucceeds(d) PROVE FALSE
    BY <1>1, <2>4 DEF FnFails, FnSucceeds
  <2>5. ASSUME Tick \/ ServiceChanges \/ UNCHANGED vars PROVE FALSE
    BY <1>1, <2>5 DEF Tick, ServiceChanges, vars
  <2> QED
    BY <1>1, <2>1, <2>2, <2>3, <2>4, <2>5 DEF Next, Call
<1>2. BInv /\ [Next]_vars => [\A c \in Callers : Starts(c) => age = Timeout]_vars
  BY <1>1
<1> QED
  BY <1>2, BInvInvariant, PTL DEF Spec, BackOff

-----------------------------------------------------------------------------
\* Which callers are inside fn after a step of each kind.
LEMMA RunningAfterEnter ==
  ASSUME TypeOK, NEW c \in Callers, NEW how \in InFn,
         Outside(c), Admit(c, how)
  PROVE  Running' = Running \cup {c} /\ c \notin Running
  BY DEF TypeOK, Running, Outside, Admit, InFn, Returned

LEMMA RunningAfterReturn ==
  ASSUME TypeOK, NEW c \in Callers, NEW r \in Returned,
         status[c] \in InFn, status' = [status EXCEPT ![c] = r]
  PROVE  Running' = Running \ {c} /\ c \in Running
  BY DEF TypeOK, Running, InFn, Returned

LEMMA RunningAfterReject ==
  ASSUME TypeOK, NEW c \in Callers, Reject(c)
  PROVE  Running' = Running
  BY DEF TypeOK, Running, Reject, Outside, InFn, Returned

\* Every step of the breaker is a step its contract allows, or a stutter.
THEOREM Implements == Spec => KeepsContract
<1>1. Init => Contract!Init
  BY DEF Init, Contract!Init, Running, InFn
<1>2. ASSUME BInv, [Next]_vars PROVE [Contract!Next]_Contract!cvars
  <2> USE <1>2, BreakerAssumption DEF BInv, Contract!cvars
  <2>1. ASSUME NEW c \in Callers, BeginClosed(c) PROVE Contract!Enter(c)
    <3>1. age = Timeout
      BY <2>1 DEF BeginClosed, WindowKept, WithinWindow, TypeOK
    <3> QED
      BY <2>1, <3>1, RunningAfterEnter DEF BeginClosed, Contract!Enter, InFn
  <2>2. ASSUME NEW c \in Callers, Reject(c) PROVE UNCHANGED Contract!cvars
    BY <2>2, RunningAfterReject DEF Reject
  <2>3. ASSUME NEW c \in Callers, HalfOpen(c) PROVE Contract!Enter(c)
    <3>1. age = Timeout
      BY <2>3 DEF HalfOpen, WithinWindow, TypeOK
    <3> QED
      BY <2>3, <3>1, RunningAfterEnter DEF HalfOpen, Contract!Enter, InFn
  <2>4. ASSUME NEW c \in Callers, FnFails(c) PROVE Contract!Fail(c)
    <3>1. Running' = Running \ {c} /\ c \in Running
      BY <2>4, RunningAfterReturn DEF FnFails, Returned
    <3>2. age' = age \/ (age' = 0 /\ streak' = Threshold)
      <4>1. CASE Trips(failures')
        BY <2>4, <4>1 DEF FnFails, Trips, TypeOK, CountIsStreak
      <4>2. CASE ~Trips(failures')
        BY <2>4, <4>2 DEF FnFails
      <4> QED BY <4>1, <4>2
    <3> QED
      BY <2>4, <3>1, <3>2 DEF FnFails, Contract!Fail
  <2>5. ASSUME NEW c \in Callers, FnSucceeds(c) PROVE Contract!Succeed(c)
    BY <2>5, RunningAfterReturn DEF FnSucceeds, Contract!Succeed, Returned
  <2>6. ASSUME Tick PROVE Contract!Pass
    BY <2>6 DEF Tick, Contract!Pass, Running
  <2>7. ASSUME ServiceChanges \/ UNCHANGED vars PROVE UNCHANGED Contract!cvars
    BY <2>7 DEF ServiceChanges, vars, Running
  <2> QED
    BY <2>1, <2>2, <2>3, <2>4, <2>5, <2>6, <2>7 DEF Next, Call, Contract!Next
<1> QED
  BY <1>1, <1>2, BInvInvariant, PTL DEF Spec, KeepsContract, Contract!Spec

-----------------------------------------------------------------------------
\* The failure count never exceeds what the calls in flight can still add.
CountInv == BInv /\ FailuresBounded

LEMMA RunningFinite == IsFiniteSet(Running) /\ Cardinality(Running) \in Nat
                       /\ Cardinality(Running) <= Cardinality(Callers)
                       /\ Cardinality(Callers) \in Nat
  BY BreakerAssumption, FS_Subset, FS_CardinalityType DEF Running

LEMMA CountInductive == CountInv /\ [Next]_vars => CountInv'
<1> SUFFICES ASSUME CountInv, [Next]_vars
             PROVE  FailuresBounded'
  BY BInvInductive DEF CountInv
<1> USE BreakerAssumption DEF CountInv, BInv, FailuresBounded
<1>0. /\ BInv' /\ failures \in Nat /\ failures' \in Nat
      /\ IsFiniteSet(Running) /\ Cardinality(Running) \in Nat
      /\ Cardinality(Running') \in Nat
      /\ Cardinality(Running') <= Cardinality(Callers)
      /\ Cardinality(Callers) \in Nat
  <2>1. BInv'
    BY BInvInductive
  <2>2. Running' \subseteq Callers
    BY DEF Running
  <2> QED
    BY <2>1, <2>2, RunningFinite, FS_Subset, FS_CardinalityType DEF TypeOK
<1>1. ASSUME ~open' PROVE FailuresBounded'
  BY <1>0, <1>1 DEF ClosedBelowThreshold
<1>2. ASSUME NEW c \in Callers, BeginClosed(c) \/ HalfOpen(c) PROVE ~open'
  BY <1>2 DEF BeginClosed, HalfOpen
<1>3. ASSUME NEW c \in Callers, Reject(c) PROVE FailuresBounded'
  BY <1>3, RunningAfterReject DEF Reject
<1>4. ASSUME NEW c \in Callers, FnFails(c) PROVE FailuresBounded'
  <2>1. Running' = Running \ {c} /\ c \in Running
    BY <1>4, RunningAfterReturn DEF FnFails, Returned
  <2>2. Cardinality(Running') = Cardinality(Running) - 1
    BY <1>0, <2>1, FS_RemoveElement
  <2> QED
    BY <1>0, <1>4, <2>2 DEF FnFails
<1>5. ASSUME NEW c \in Callers, FnSucceeds(c) PROVE FailuresBounded'
  BY <1>0, <1>5 DEF FnSucceeds
<1>6. ASSUME Tick \/ ServiceChanges \/ UNCHANGED vars PROVE FailuresBounded'
  BY <1>6 DEF Tick, ServiceChanges, vars, Running
<1> QED
  BY <1>1, <1>2, <1>3, <1>4, <1>5, <1>6 DEF Next, Call

\* The failure count stays below the threshold plus the number of callers.
THEOREM Bounded == Spec => []FailuresBounded
<1>1. Init => CountInv
  <2> SUFFICES ASSUME Init PROVE FailuresBounded
    BY BInvInit DEF CountInv
  <2>1. Running = {}
    BY DEF Init, Running, InFn
  <2>2. Cardinality(Running) = 0
    BY <2>1, FS_EmptySet
  <2>3. failures = 0 /\ Threshold \in Nat /\ Threshold > 0
    BY BreakerAssumption DEF Init
  <2> QED
    BY <2>2, <2>3, RunningFinite DEF FailuresBounded
<1> QED
  BY <1>1, CountInductive, PTL DEF Spec, CountInv

\* Count and window fit each other in every reachable state.
THEOREM CountFits == Spec => []CountFitsWindow
  BY Closed, Window, Bounded, PTL DEF CountFitsWindow
=============================================================================
